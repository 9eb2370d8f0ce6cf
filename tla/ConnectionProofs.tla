-------------------------- MODULE ConnectionProofs --------------------------
(***************************************************************************)
(* Proofs about Connection, for every bound on requests, opens, timeouts   *)
(* and what undefined bytes in rx_buffer read as.  Only that a connection  *)
(* stays DEFUNCT when a receive has failed needs bytes that never read as  *)
(* messages (MaxStale = 0); a run of TLC shows that it does.               *)
(***************************************************************************)
EXTENDS Connection, TLAPS

USE DEF FreshBuffers

-----------------------------------------------------------------------------
(* The inductive invariant: types and counters *)

Request == [id : Nat, kind : Work \union {"HELLO", "RESET"}]
Answer == [id : Nat, type : Summaries \union {"RECORD"}]

MessagesOK ==
    /\ tx \in Seq(Request) /\ toServer \in Seq(Request)
    /\ toClient \in Seq(Answer)

(* The counter of responses never passes the request that is fetched, and  *)
(* a connection on loan has a number left for its RESET.                   *)
Counting ==
    /\ answered <= next_id
    /\ Fetching => answered <= request /\ request < next_id
    /\ call \in {"using", "fetch", "summary", "hello"} => next_id < MaxRequests
    /\ call = "reset" => request = next_id - 1 /\ tx = << >>

TypeInv == TypeOK /\ MessagesOK /\ Counting

-----------------------------------------------------------------------------
(* The inductive invariant: what is on its way *)

(* The number of requests sent *)
Sent == next_id - Len(tx)

(* The first answer on its way is for the request that response_counter    *)
(* stands at, and the next one for the next request when it is a summary.  *)
AnswersInOrder ==
    /\ Len(toClient) > 0 => toClient[1].id = answered
    /\ \A i \in 1..(Len(toClient) - 1) :
          toClient[i + 1].id = IF toClient[i].type = "RECORD" THEN toClient[i].id
                               ELSE toClient[i].id + 1

(* Answers are for requests sent, before those that the server has not     *)
(* read.                                                                   *)
AnswersBeforeRequests ==
    /\ \A j \in 1..Len(toServer) : toServer[j].id < Sent
    /\ \A i \in 1..Len(toClient) :
          /\ toClient[i].id < Sent
          /\ \A j \in 1..Len(toServer) : toClient[i].id < toServer[j].id

(* While the link is up nothing is missing: the requests that the server   *)
(* has not read are the last ones sent, and the summary of the one before  *)
(* them has been sent or received.                                         *)
NothingMissing ==
    link = "up" =>
        /\ \A j \in 1..Len(toServer) : toServer[j].id = Sent - Len(toServer) + j - 1
        /\ Len(toClient) = 0 => answered = Sent - Len(toServer)
        /\ Len(toClient) > 0 => /\ toClient[Len(toClient)].type # "RECORD"
                                /\ toClient[Len(toClient)].id = Sent - Len(toServer) - 1

(* HELLO is the first request, before anything can fail. *)
NoHelloLoaded == \A i \in 1..Len(tx) : tx[i].kind # "HELLO"

HelloFirst ==
    \A j \in 1..Len(toServer) : toServer[j].kind = "HELLO" => j = 1 /\ server = "ready"

(* The answer to the last request sent says what the server is in. *)
LastAnswerTells ==
    \A i \in 1..Len(toClient) :
        toClient[i].id = Sent - 1 =>
            /\ toClient[i].type = "SUCCESS" => server = "ready"
            /\ toClient[i].type \in {"FAILURE", "IGNORED"} => server = "failed"

(* A server that has failed and will not be reset has told so, or will. *)
FailureTold ==
    (link = "up" /\ server = "failed") =>
        \/ failure
        \/ \E i \in 1..Len(toClient) : toClient[i].type = "FAILURE"
        \/ \E j \in 1..Len(toServer) : toServer[j].kind = "RESET"
        \/ \E j \in 1..Len(tx) : tx[j].kind = "RESET"

StreamInv ==
    /\ AnswersInOrder /\ AnswersBeforeRequests /\ NothingMissing
    /\ NoHelloLoaded /\ HelloFirst
    /\ LastAnswerTells /\ FailureTold

SoundInv == StreamInv /\ AnswersMatch /\ CleanHandover /\ InStep

ConnectionInv == TypeInv /\ (rx = "sound" => SoundInv)

(* When undefined bytes are never read as messages, a connection on which a *)
(* receive has failed is defunct, and nothing more is received on it.       *)
LostInv ==
    rx # "sound" => /\ rx = "stuck" /\ state = "DEFUNCT" /\ matched
                    /\ call \in {"pooled", "using", "reset"}

-----------------------------------------------------------------------------
(* Lemmas about the steps *)

(* What the fetch loop does with a message, for every call and type. *)
ReceiveEnds(type) ==
    \/ answered # request /\ UNCHANGED <<state, call, request>>
    \/ answered = request /\ type = "RECORD" /\ call # "fetch" /\ UNCHANGED <<state, call, request>>
    \/ /\ answered = request /\ type = "RECORD" /\ call = "fetch"
       /\ call' = "using" /\ request' = NoRequest /\ UNCHANGED state
    \/ /\ answered = request /\ type # "RECORD" /\ call \in {"fetch", "summary"}
       /\ call' = "using" /\ request' = NoRequest /\ state' = StateAfter(type, FailureAfter(type))
    \/ /\ answered = request /\ type = "SUCCESS" /\ call = "hello"
       /\ call' = "using" /\ request' = NoRequest /\ state' = "READY"
    \/ /\ answered = request /\ type \notin {"RECORD", "SUCCESS"} /\ call = "hello"
       /\ call' = "pooled" /\ request' = NoRequest /\ state' = "DEFUNCT"
    \/ /\ answered = request /\ type = "SUCCESS" /\ call = "reset"
       /\ call' = "pooled" /\ request' = NoRequest /\ state' = "READY"

LEMMA ReceiveCases == Receive => ReceiveEnds(Message.type)
  <1> SUFFICES ASSUME Receive PROVE ReceiveEnds(Message.type)
    OBVIOUS
  <1> DEFINE type == Message.type
  <1>1. /\ Fetching /\ ~ResetFails(type)
        /\ IF answered = request
           THEN /\ Finish(type, FailureAfter(type))
                /\ request' = IF call' = call THEN request ELSE NoRequest
           ELSE UNCHANGED <<state, call, request>>
    BY DEF Receive
  <1> HIDE DEF type
  <1>2. CASE answered # request
    BY <1>1, <1>2 DEF ReceiveEnds, type
  <1>3. CASE answered = request /\ type = "RECORD"
    BY <1>1, <1>3 DEF ReceiveEnds, type, Finish
  <1>4. CASE answered = request /\ type # "RECORD" /\ call \in {"fetch", "summary"}
    BY <1>1, <1>4 DEF ReceiveEnds, type, Finish
  <1>5. CASE answered = request /\ type # "RECORD" /\ call = "hello"
    BY <1>1, <1>5 DEF ReceiveEnds, type, Finish
  <1>6. CASE answered = request /\ type # "RECORD" /\ call = "reset"
    <2>1. type = "SUCCESS"
      BY <1>1, <1>6 DEF ResetFails, Counts, ResetDone
    <2> QED BY <1>1, <1>6, <2>1 DEF ReceiveEnds, type, Finish, StateAfter
  <1> QED BY <1>1, <1>2, <1>3, <1>4, <1>5, <1>6 DEF Fetching

(* The message that is unloaded is of a known type. *)
LEMMA MessageType == TypeInv /\ HasMessage => Message.type \in Types
  <1> SUFFICES ASSUME TypeInv, HasMessage PROVE Message.type \in Types
    OBVIOUS
  <1>1. CASE stale # << >>
    <2>1. Head(stale) \in Types \union {"EMPTY"} /\ data_type \in Types
      BY <1>1 DEF TypeInv, TypeOK
    <2>2. Message.type = IF Head(stale) = "EMPTY" THEN data_type ELSE Head(stale)
      BY <1>1 DEF Message
    <2> QED BY <2>1, <2>2
  <1>2. CASE stale = << >>
    <2>1. Message = Head(toClient) /\ toClient # << >>
      BY <1>2 DEF Message, HasMessage
    <2>2. Head(toClient) \in Answer
      BY <2>1 DEF TypeInv, MessagesOK
    <2> QED BY <2>1, <2>2 DEF Answer, Types
  <1> QED BY <1>1, <1>2

(* Loading numbers the new request after those that wait. *)
LEMMA LoadedType ==
    ASSUME TypeInv, NEW kind \in Work \union {"RESET"}
    PROVE  /\ Loaded(kind) \in Seq(Request)
           /\ Len(Loaded(kind)) = Len(tx) + 1
           /\ \A i \in 1..Len(tx) : Loaded(kind)[i] = tx[i]
           /\ Loaded(kind)[Len(tx) + 1] = [id |-> next_id, kind |-> kind]
           /\ \A i \in 1..(Len(tx) + 1) : Loaded(kind)[i].id = next_id - Len(tx) + i - 1
  <1> DEFINE r == [id |-> next_id, kind |-> kind]
  <1>1. r \in Request /\ tx \in Seq(Request) /\ next_id \in Nat
    BY BoundAssumption DEF TypeInv, TypeOK, MessagesOK, Request
  <1>2. r.id = next_id
    OBVIOUS
  <1> HIDE DEF r
  <1>3. /\ Append(tx, r) \in Seq(Request) /\ Len(Append(tx, r)) = Len(tx) + 1
        /\ \A i \in 1..Len(tx) : Append(tx, r)[i] = tx[i]
        /\ Append(tx, r)[Len(tx) + 1] = r
    BY <1>1
  <1>4. Loaded(kind) = Append(tx, r)
    BY DEF Loaded, r
  <1>5. \A i \in 1..Len(tx) : tx[i].id = next_id - Len(tx) + i - 1
    BY <1>1 DEF TypeInv, TypeOK
  <1>6. ASSUME NEW i \in 1..(Len(tx) + 1)
        PROVE  Append(tx, r)[i].id = next_id - Len(tx) + i - 1
    <2>1. CASE i = Len(tx) + 1
      BY <1>1, <1>2, <1>3, <2>1
    <2>2. CASE i # Len(tx) + 1
      BY <1>1, <1>3, <1>5, <2>2
    <2> QED BY <2>1, <2>2
  <1> QED BY <1>3, <1>4, <1>6 DEF r

(* Everything that is sent is a request. *)
LEMMA TransmitType ==
    ASSUME TypeInv, NEW requests \in Seq(Request), Transmit(requests)
    PROVE  tx' = << >> /\ state' \in States /\ toServer' \in Seq(Request)
  <1>1. state \in States /\ toServer \in Seq(Request)
    BY DEF TypeInv, TypeOK, MessagesOK
  <1>2. CASE link = "up" /\ toServer' = toServer \o requests /\ UNCHANGED state
    BY <1>1, <1>2 DEF Transmit
  <1>3. CASE link = "down" /\ toServer' = toServer /\ state' \in {state, "DEFUNCT"}
    BY <1>1, <1>3 DEF Transmit, States
  <1> QED BY <1>2, <1>3 DEF Transmit

(* The types in four parts: truth values, messages, undefined bytes, and   *)
(* the rest.                                                               *)
BitsOK == failure \in BOOLEAN /\ matched \in BOOLEAN

NumbersOK ==
    /\ state \in States
    /\ next_id \in 0..MaxRequests /\ answered \in 0..MaxRequests
    /\ data_type \in Types
    /\ call \in {"pooled", "using", "fetch", "summary", "hello", "reset"}
    /\ request \in {NoRequest} \union 0..(MaxRequests - 1)
    /\ Fetching <=> request # NoRequest
    /\ server \in {"ready", "failed"} /\ link \in {"up", "down"}
    /\ opens \in 0..MaxOpens /\ timeouts \in 0..MaxTimeouts

StaleOK ==
    /\ rx \in {"sound", "stale", "stuck"}
    /\ stale \in Seq(Types \union {"EMPTY"}) /\ Len(stale) <= MaxStale
    /\ stale # << >> => rx # "sound"

TxNumbered == \A i \in DOMAIN tx : tx[i].id = next_id - Len(tx) + i - 1

(* Truth values stay truth values. *)
LEMMA BitsStep == TypeInv /\ [Next]_vars => BitsOK'
  <1> SUFFICES ASSUME TypeInv, [Next]_vars PROVE BitsOK'
    OBVIOUS
  <1>0. BitsOK
    BY DEF TypeInv, TypeOK, BitsOK
  <1> USE DEF BitsOK, Closed, callVars, protocolVars, bufferVars, counters
  <1>1. ASSUME NEW kind \in Work, Load(kind) PROVE BitsOK'
    BY <1>0, <1>1 DEF Load
  <1>2. ASSUME LoadReset PROVE BitsOK'
    BY <1>0, <1>2 DEF LoadReset
  <1>3. ASSUME Send PROVE BitsOK'
    BY <1>0, <1>3 DEF Send
  <1>4. ASSUME NEW kind \in {"fetch", "summary"}, Fetch(kind) PROVE BitsOK'
    BY <1>0, <1>4 DEF Fetch
  <1>5. ASSUME Receive PROVE BitsOK'
    BY <1>0, <1>5 DEF Receive, FailureAfter
  <1>6. ASSUME ReceiveFailedReset PROVE BitsOK'
    BY <1>0, <1>6 DEF ReceiveFailedReset
  <1>7. ASSUME ReceiveBroken PROVE BitsOK'
    BY <1>0, <1>7 DEF ReceiveBroken, Fails
  <1>8. ASSUME ReceiveTimesOut PROVE BitsOK'
    BY <1>0, <1>8 DEF ReceiveTimesOut, Fails
  <1>9. ASSUME Lend PROVE BitsOK'
    BY <1>0, <1>9 DEF Lend
  <1>10. ASSUME Retire PROVE BitsOK'
    BY <1>0, <1>10 DEF Retire
  <1>11. ASSUME Open PROVE BitsOK'
    BY <1>0, <1>11 DEF Open
  <1>12. ASSUME OpenFails PROVE BitsOK'
    BY <1>0, <1>12 DEF OpenFails
  <1>13. ASSUME Release PROVE BitsOK'
    BY <1>0, <1>13 DEF Release
  <1>14. ASSUME Serve PROVE BitsOK'
    BY <1>0, <1>14 DEF Serve
  <1>15. ASSUME Break PROVE BitsOK'
    BY <1>0, <1>15 DEF Break
  <1>17. ASSUME LoadFails PROVE BitsOK'
    BY <1>0, <1>17 DEF LoadFails
  <1>16. ASSUME UNCHANGED vars PROVE BitsOK'
    BY <1>0, <1>16 DEF vars
  <1> QED BY <1>1, <1>2, <1>3, <1>4, <1>5, <1>6, <1>7, <1>8, <1>9, <1>10,
       <1>11, <1>12, <1>13, <1>14, <1>15, <1>16, <1>17 DEF Next

(* An answer is up to one record, then the summary. *)
LEMMA AnswersType ==
    ASSUME TypeInv, NEW id \in Nat, NEW records \in 0..1, NEW summary \in Summaries
    PROVE  LET new == Answers(id, records, summary) IN
              /\ new \in Seq(Answer)
              /\ Len(new) = Len(toClient) + records + 1
              /\ \A i \in 1..Len(toClient) : new[i] = toClient[i]
              /\ \A i \in 1..records : new[Len(toClient) + i] = [id |-> id, type |-> "RECORD"]
              /\ new[Len(toClient) + records + 1] = [id |-> id, type |-> summary]
  <1> DEFINE f == [i \in 1..(records + 1) |->
                      [id |-> id, type |-> IF i <= records THEN "RECORD" ELSE summary]]
  <1>1. f \in Seq(Answer) /\ Len(f) = records + 1
    BY DEF Answer
  <1>2. /\ \A i \in 1..records : f[i] = [id |-> id, type |-> "RECORD"]
        /\ f[records + 1] = [id |-> id, type |-> summary]
    OBVIOUS
  <1>3. toClient \in Seq(Answer)
    BY DEF TypeInv, MessagesOK
  <1>4. Answers(id, records, summary) = toClient \o f
    BY DEF Answers
  <1> HIDE DEF f
  <1>5. /\ toClient \o f \in Seq(Answer)
        /\ Len(toClient \o f) = Len(toClient) + records + 1
        /\ \A i \in 1..Len(toClient) : (toClient \o f)[i] = toClient[i]
        /\ \A i \in 1..(records + 1) : (toClient \o f)[Len(toClient) + i] = f[i]
    BY <1>1, <1>3
  <1>6. \A i \in 1..records :
           (toClient \o f)[Len(toClient) + i] = [id |-> id, type |-> "RECORD"]
    BY <1>2, <1>5
  <1>7. (toClient \o f)[Len(toClient) + records + 1] = [id |-> id, type |-> summary]
    <2>1. Len(toClient) + (records + 1) = Len(toClient) + records + 1
      BY <1>3
    <2>2. (toClient \o f)[Len(toClient) + (records + 1)] = f[records + 1]
      BY <1>5
    <2> QED BY <1>2, <2>1, <2>2
  <1> QED BY <1>4, <1>5, <1>6, <1>7

(* The messages keep their types and loaded requests their numbers. *)
LEMMA MessagesStep == TypeInv /\ [Next]_vars => (MessagesOK /\ TxNumbered)'
  <1> SUFFICES ASSUME TypeInv, [Next]_vars PROVE (MessagesOK /\ TxNumbered)'
    OBVIOUS
  <1>0. MessagesOK /\ TxNumbered
    BY DEF TypeInv, TypeOK, TxNumbered
  <1> USE DEF MessagesOK, TxNumbered, Closed, callVars, protocolVars,
          bufferVars, peerVars, counters
  <1>1. ASSUME NEW kind \in Work, Load(kind) PROVE (MessagesOK /\ TxNumbered)'
    <2>1. /\ tx' \in Seq(Request) /\ Len(tx') = Len(tx) + 1
          /\ \A i \in 1..(Len(tx) + 1) : tx'[i].id = next_id - Len(tx) + i - 1
      BY <1>0, <1>1, LoadedType DEF Load
    <2>2. next_id \in Nat /\ Len(tx) \in Nat /\ next_id' = next_id + 1 /\ DOMAIN tx' = 1..Len(tx')
      BY <1>0, <1>1, <2>1, BoundAssumption DEF Load, NextId, TypeInv, TypeOK
    <2>3. \A i \in DOMAIN tx' : tx'[i].id = next_id' - Len(tx') + i - 1
      BY <2>1, <2>2
    <2> QED BY <1>0, <1>1, <2>1, <2>3 DEF Load
  <1>2. ASSUME LoadReset PROVE (MessagesOK /\ TxNumbered)'
    <2>1. /\ tx' \in Seq(Request) /\ Len(tx') = Len(tx) + 1
          /\ \A i \in 1..(Len(tx) + 1) : tx'[i].id = next_id - Len(tx) + i - 1
      BY <1>0, <1>2, LoadedType DEF LoadReset
    <2>2. next_id \in Nat /\ Len(tx) \in Nat /\ next_id' = next_id + 1 /\ DOMAIN tx' = 1..Len(tx')
      BY <1>0, <1>2, <2>1, BoundAssumption DEF LoadReset, NextId, TypeInv, TypeOK
    <2>3. \A i \in DOMAIN tx' : tx'[i].id = next_id' - Len(tx') + i - 1
      BY <2>1, <2>2
    <2> QED BY <1>0, <1>2, <2>1, <2>3 DEF LoadReset
  <1>3. ASSUME Send PROVE (MessagesOK /\ TxNumbered)'
    <2>1. tx' = << >> /\ toServer' \in Seq(Request)
      BY <1>0, <1>3, TransmitType DEF Send
    <2> QED BY <1>0, <1>3, <2>1 DEF Send
  <1>4. ASSUME NEW kind \in {"fetch", "summary"}, Fetch(kind) PROVE (MessagesOK /\ TxNumbered)'
    BY <1>0, <1>4 DEF Fetch
  <1>5. ASSUME Receive PROVE (MessagesOK /\ TxNumbered)'
    <2>1. toClient' = toClient \/ (toClient # << >> /\ toClient' = Tail(toClient))
      BY <1>0, <1>5 DEF Receive, HasMessage, TakeMessage
    <2>2. toClient \in Seq(Answer)
      BY <1>0
    <2>3. toClient' \in Seq(Answer)
      BY <2>1, <2>2
    <2> QED BY <1>0, <1>5, <2>3 DEF Receive
  <1>6. ASSUME ReceiveFailedReset PROVE (MessagesOK /\ TxNumbered)'
    BY <1>0, <1>6 DEF ReceiveFailedReset
  <1>7. ASSUME ReceiveBroken PROVE (MessagesOK /\ TxNumbered)'
    <2>1. CASE call = "reset"
      BY <1>0, <1>7, <2>1 DEF ReceiveBroken, Fails
    <2>2. CASE call # "reset"
      <3>1. UNCHANGED <<tx, next_id, toServer, toClient>>
        BY <1>0, <1>7, <2>2 DEF ReceiveBroken, Fails
      <3> QED BY <1>0, <3>1
    <2> QED BY <2>1, <2>2
  <1>8. ASSUME ReceiveTimesOut PROVE (MessagesOK /\ TxNumbered)'
    <2>1. CASE call = "reset"
      BY <1>0, <1>8, <2>1 DEF ReceiveTimesOut, Fails
    <2>2. CASE call # "reset"
      <3>1. UNCHANGED <<tx, next_id, toServer, toClient>>
        BY <1>0, <1>8, <2>2 DEF ReceiveTimesOut, Fails
      <3> QED BY <1>0, <3>1
    <2> QED BY <2>1, <2>2
  <1>9. ASSUME Lend PROVE (MessagesOK /\ TxNumbered)'
    BY <1>0, <1>9 DEF Lend
  <1>10. ASSUME Retire PROVE (MessagesOK /\ TxNumbered)'
    BY <1>0, <1>10 DEF Retire
  <1>11. ASSUME Open PROVE (MessagesOK /\ TxNumbered)'
    <2>1. [id |-> 0, kind |-> "HELLO"] \in Request
      BY DEF Request
    <2> QED BY <1>0, <1>11, <2>1 DEF Open
  <1>12. ASSUME OpenFails PROVE (MessagesOK /\ TxNumbered)'
    BY <1>0, <1>12 DEF OpenFails
  <1>13. ASSUME Release PROVE (MessagesOK /\ TxNumbered)'
    <2>1. Loaded("RESET") \in Seq(Request)
      BY LoadedType
    <2>2. tx' = << >> /\ toServer' \in Seq(Request)
      BY <1>0, <1>13, <2>1, TransmitType DEF Release
    <2> QED BY <1>0, <1>13, <2>2 DEF Release
  <1>14. ASSUME Serve PROVE (MessagesOK /\ TxNumbered)'
    <2>1. PICK records \in 0..1, summary \in Summaries :
            toClient' = Answers(Head(toServer).id, records, summary)
      BY <1>0, <1>14 DEF Serve
    <2>2. toServer # << >> /\ Head(toServer) \in Request
      BY <1>0, <1>14 DEF Serve
    <2>3. Head(toServer).id \in Nat
      BY <2>2 DEF Request
    <2>4. toClient' \in Seq(Answer)
      BY <2>1, <2>3, AnswersType
    <2>5. toServer' \in Seq(Request)
      BY <1>0, <1>14, <2>2 DEF Serve
    <2> QED BY <1>0, <1>14, <2>4, <2>5 DEF Serve
  <1>15. ASSUME Break PROVE (MessagesOK /\ TxNumbered)'
    BY <1>0, <1>15 DEF Break
  <1>17. ASSUME LoadFails PROVE (MessagesOK /\ TxNumbered)'
    BY <1>0, <1>17 DEF LoadFails
  <1>16. ASSUME UNCHANGED vars PROVE (MessagesOK /\ TxNumbered)'
    BY <1>0, <1>16 DEF vars
  <1> QED BY <1>1, <1>2, <1>3, <1>4, <1>5, <1>6, <1>7, <1>8, <1>9, <1>10,
       <1>11, <1>12, <1>13, <1>14, <1>15, <1>16, <1>17 DEF Next

(* The counters stay in step. *)
LEMMA NumbersStep == TypeInv /\ [Next]_vars => (NumbersOK /\ Counting)'
  <1> SUFFICES ASSUME TypeInv, [Next]_vars PROVE (NumbersOK /\ Counting)'
    OBVIOUS
  <1>0. NumbersOK /\ Counting /\ "RECORD" \in Types
    BY DEF TypeInv, TypeOK, NumbersOK, Types
  <1> USE BoundAssumption DEF NumbersOK, Counting, States, Fetching,
          NoRequest, Closed, callVars, protocolVars, bufferVars, peerVars,
          counters
  <1>1. ASSUME NEW kind \in Work, Load(kind) PROVE (NumbersOK /\ Counting)'
    BY <1>0, <1>1 DEF Load, Usable, NextId
  <1>2. ASSUME LoadReset PROVE (NumbersOK /\ Counting)'
    BY <1>0, <1>2 DEF LoadReset, Usable, NextId
  <1>3. ASSUME Send PROVE (NumbersOK /\ Counting)'
    BY <1>0, <1>3 DEF Send, Usable, Transmit
  <1>4. ASSUME NEW kind \in {"fetch", "summary"}, Fetch(kind) PROVE (NumbersOK /\ Counting)'
    <2>1. request' \in answered..(next_id - 1)
      BY <1>0, <1>4 DEF Fetch, Awaited
    <2> QED BY <1>0, <1>4, <2>1 DEF Fetch, Usable
  <1>5. ASSUME Receive PROVE (NumbersOK /\ Counting)'
    <2>1. ReceiveEnds(Message.type) /\ Message.type \in Types
      BY <1>0, <1>5, ReceiveCases, MessageType DEF Receive
    <2>2. /\ data_type' = Message.type
          /\ answered' = IF Message.type # "RECORD" THEN answered + 1 ELSE answered
      BY <1>0, <1>5 DEF Receive, Counts
    <2>3. /\ call \in {"fetch", "summary", "hello", "reset"}
          /\ UNCHANGED <<tx, next_id, server, link, opens, timeouts>>
      BY <1>0, <1>5 DEF Receive
    <2>4. StateAfter(Message.type, FailureAfter(Message.type)) \in States
      BY <1>0, <2>1 DEF StateAfter
    <2> HIDE DEF States
    <2>5. {"READY", "DEFUNCT"} \subseteq States
      BY DEF States
    <2>6. CASE UNCHANGED <<state, call, request>>
      BY <1>0, <2>1, <2>2, <2>3, <2>6 DEF ReceiveEnds
    <2>7. CASE answered = request /\ call' \in {"using", "pooled"} /\ request' = NoRequest /\ state' \in States /\ (call' = "using" => call # "reset")
      BY <1>0, <2>1, <2>2, <2>3, <2>7
    <2> QED BY <1>0, <2>1, <2>4, <2>5, <2>6, <2>7 DEF ReceiveEnds
  <1>6. ASSUME ReceiveFailedReset PROVE (NumbersOK /\ Counting)'
    BY <1>0, <1>6 DEF ReceiveFailedReset
  <1>7. ASSUME ReceiveBroken PROVE (NumbersOK /\ Counting)'
    BY <1>0, <1>7 DEF ReceiveBroken, Fails
  <1>8. ASSUME ReceiveTimesOut PROVE (NumbersOK /\ Counting)'
    BY <1>0, <1>8 DEF ReceiveTimesOut, Fails
  <1>9. ASSUME Lend PROVE (NumbersOK /\ Counting)'
    BY <1>0, <1>9 DEF Lend
  <1>10. ASSUME Retire PROVE (NumbersOK /\ Counting)'
    BY <1>0, <1>10 DEF Retire
  <1>11. ASSUME Open PROVE (NumbersOK /\ Counting)'
    BY <1>0, <1>11 DEF Open
  <1>12. ASSUME OpenFails PROVE (NumbersOK /\ Counting)'
    BY <1>0, <1>12 DEF OpenFails
  <1>13. ASSUME Release PROVE (NumbersOK /\ Counting)'
    BY <1>0, <1>13 DEF Release, Transmit, NextId, LastRequest
  <1>14. ASSUME Serve PROVE (NumbersOK /\ Counting)'
    BY <1>0, <1>14 DEF Serve
  <1>15. ASSUME Break PROVE (NumbersOK /\ Counting)'
    BY <1>0, <1>15 DEF Break
  <1>17. ASSUME LoadFails PROVE (NumbersOK /\ Counting)'
    BY <1>0, <1>17 DEF LoadFails, Usable
  <1>16. ASSUME UNCHANGED vars PROVE (NumbersOK /\ Counting)'
    BY <1>0, <1>16 DEF vars
  <1> QED BY <1>1, <1>2, <1>3, <1>4, <1>5, <1>6, <1>7, <1>8, <1>9, <1>10,
       <1>11, <1>12, <1>13, <1>14, <1>15, <1>16, <1>17 DEF Next

(* Undefined bytes read as a limited number of messages, and only after a   *)
(* failed receive.                                                          *)
LEMMA StaleStep == TypeInv /\ [Next]_vars => StaleOK'
  <1> SUFFICES ASSUME TypeInv, [Next]_vars PROVE StaleOK'
    OBVIOUS
  <1>0. StaleOK
    BY DEF TypeInv, TypeOK, StaleOK
  <1>1. ASSUME rx' = rx, stale' = stale PROVE StaleOK'
    BY <1>0, <1>1 DEF StaleOK
  <1>2. ASSUME rx' = "sound", stale' = << >> PROVE StaleOK'
    BY <1>2, BoundAssumption DEF StaleOK
  <1>3. ASSUME Receive PROVE StaleOK'
    <2>1. rx' = rx /\ (stale' = stale \/ (stale # << >> /\ stale' = Tail(stale)))
      BY <1>3 DEF Receive, TakeMessage
    <2>2. CASE stale # << >> /\ stale' = Tail(stale)
      <3>1. /\ Tail(stale) \in Seq(Types \union {"EMPTY"})
            /\ Len(Tail(stale)) <= Len(stale) /\ Len(stale) \in Nat /\ Len(Tail(stale)) \in Nat
        BY <1>0, <2>2 DEF StaleOK
      <3> QED BY <1>0, <2>1, <2>2, <3>1, BoundAssumption DEF StaleOK
    <2> QED BY <1>1, <2>1, <2>2
  <1>4. ASSUME Fails PROVE StaleOK'
    <2>1. CASE call = "reset"
      BY <1>2, <1>4, <2>1 DEF Fails, Closed
    <2>2. CASE call # "reset"
      <3>1. /\ stale' \in Garbage
            /\ rx' \in IF stale' = << >> THEN {"stuck"} ELSE {"stale", "stuck"}
        BY <1>4, <2>2 DEF Fails
      <3>2. PICK n \in 0..MaxStale : stale' \in [1..n -> Types \union {"EMPTY"}]
        BY <3>1 DEF Garbage
      <3>3. stale' \in Seq(Types \union {"EMPTY"}) /\ Len(stale') = n
        BY <3>2
      <3> QED BY <3>1, <3>2, <3>3, BoundAssumption DEF StaleOK
    <2> QED BY <2>1, <2>2
  <1>5. \/ rx' = rx /\ stale' = stale
        \/ rx' = "sound" /\ stale' = << >>
        \/ Receive \/ Fails
    BY DEF Next, vars, Load, LoadFails, LoadReset, Send, Fetch, ReceiveFailedReset, ReceiveBroken,
       ReceiveTimesOut, Lend, Retire, Open, OpenFails, Release, Serve, Break, Closed, bufferVars
  <1> QED BY <1>1, <1>2, <1>3, <1>4, <1>5

(* The type invariant is inductive. *)
LEMMA TypeStep == TypeInv /\ [Next]_vars => TypeInv'
  BY BitsStep, MessagesStep, StaleStep, NumbersStep
     DEF TypeInv, TypeOK, BitsOK, NumbersOK, StaleOK, TxNumbered

-----------------------------------------------------------------------------
(* What a step does to the messages on their way *)

Quiet == UNCHANGED <<Sent, answered, toServer, toClient, server, link>>

Emptied == toServer' = << >> /\ toClient' = << >> /\ tx' = << >> /\ link' = "down"

(* q requests leave tx_buffer; only a link that is up takes them. *)
Sends(q) ==
    /\ Sent' = Sent + q
    /\ UNCHANGED <<answered, toClient, server, link>>
    /\ link = "down" => toServer' = toServer
    /\ link = "up" =>
          /\ Len(toServer') = Len(toServer) + q
          /\ \A j \in 1..Len(toServer) : toServer'[j] = toServer[j]
          /\ \A j \in 1..q : /\ toServer'[Len(toServer) + j].id = Sent + j - 1
                             /\ toServer'[Len(toServer) + j].kind # "HELLO"

(* The first answer on its way is received. *)
Takes ==
    /\ Len(toClient) > 0 /\ Len(toClient') = Len(toClient) - 1
    /\ \A i \in 1..Len(toClient') : toClient'[i] = toClient[i + 1]
    /\ answered' = IF toClient[1].type = "RECORD" THEN answered ELSE answered + 1
    /\ UNCHANGED <<Sent, toServer, server, link>>

(* The server answers its first request with some records and a summary. *)
Serves(records, summary) ==
    /\ link = "up" /\ Len(toServer) > 0
    /\ Len(toServer') = Len(toServer) - 1
    /\ \A j \in 1..Len(toServer') : toServer'[j] = toServer[j + 1]
    /\ Len(toClient') = Len(toClient) + records + 1
    /\ \A i \in 1..Len(toClient) : toClient'[i] = toClient[i]
    /\ \A i \in 1..records : toClient'[Len(toClient) + i] = [id |-> toServer[1].id, type |-> "RECORD"]
    /\ toClient'[Len(toClient) + records + 1] = [id |-> toServer[1].id, type |-> summary]
    /\ summary = "IGNORED" => toServer[1].kind \in Work /\ (server = "failed" \/ Interrupted)
    /\ toServer[1].kind \in Work /\ server = "failed" => summary = "IGNORED"
    /\ server' = IF summary = "FAILURE" THEN "failed"
                 ELSE IF toServer[1].kind = "RESET" THEN "ready" ELSE server
    /\ link' = IF summary = "FAILURE" /\ toServer[1].kind \notin Work THEN "down" ELSE link
    /\ UNCHANGED <<Sent, answered>>

(* The link breaks and the last answers on their way are lost. *)
Breaks ==
    /\ toServer' = << >> /\ link' = "down"
    /\ Len(toClient') <= Len(toClient)
    /\ \A i \in 1..Len(toClient') : toClient'[i] = toClient[i]
    /\ UNCHANGED <<Sent, answered, server>>

LEMMA LoadsQuietly ==
    ASSUME TypeInv, NEW kind \in Work \union {"RESET"}, tx' = Loaded(kind), next_id' = NextId
    PROVE  Sent' = Sent
  <1>1. Len(tx') = Len(tx) + 1
    BY LoadedType
  <1>2. next_id \in Nat /\ Len(tx) \in Nat
    BY DEF TypeInv, TypeOK, MessagesOK
  <1> QED BY <1>1, <1>2 DEF Sent, NextId

LEMMA SendSends == TypeInv /\ NoHelloLoaded /\ Send => Sends(Len(tx))
  <1> SUFFICES ASSUME TypeInv, NoHelloLoaded, Send PROVE Sends(Len(tx))
    OBVIOUS
  <1>1. /\ tx \in Seq(Request) /\ toServer \in Seq(Request) /\ next_id \in Nat
        /\ Transmit(tx) /\ UNCHANGED <<next_id, answered, toClient, server, link>>
    BY DEF TypeInv, TypeOK, MessagesOK, Send, protocolVars
  <1>2. Sent' = Sent + Len(tx)
    BY <1>1 DEF Sent, Transmit
  <1>3. \A i \in 1..Len(tx) : tx[i].id = Sent + i - 1 /\ tx[i].kind # "HELLO"
    BY <1>1 DEF TypeInv, TypeOK, Sent, NoHelloLoaded
  <1>4. CASE link = "down"
    BY <1>1, <1>2, <1>4 DEF Sends, Transmit
  <1>5. CASE link = "up"
    <2>1. toServer' = toServer \o tx
      BY <1>1, <1>5 DEF Transmit
    <2>2. /\ Len(toServer') = Len(toServer) + Len(tx)
          /\ \A j \in 1..Len(toServer) : toServer'[j] = toServer[j]
          /\ \A j \in 1..Len(tx) : toServer'[Len(toServer) + j] = tx[j]
      BY <1>1, <2>1
    <2> QED BY <1>1, <1>2, <1>3, <1>5, <2>2 DEF Sends
  <1> QED BY <1>4, <1>5 DEF TypeInv, TypeOK

LEMMA ReleaseSends == TypeInv /\ NoHelloLoaded /\ Release => Sends(Len(tx) + 1)
  <1> SUFFICES ASSUME TypeInv, NoHelloLoaded, Release PROVE Sends(Len(tx) + 1)
    OBVIOUS
  <1> DEFINE all == Loaded("RESET")
  <1>1. /\ tx \in Seq(Request) /\ toServer \in Seq(Request) /\ next_id \in Nat
        /\ Transmit(all) /\ next_id' = next_id + 1
        /\ UNCHANGED <<answered, toClient, server, link>>
    BY DEF TypeInv, TypeOK, MessagesOK, Release, NextId
  <1>2. /\ all \in Seq(Request) /\ Len(all) = Len(tx) + 1
        /\ \A i \in 1..Len(tx) : all[i] = tx[i]
        /\ all[Len(tx) + 1] = [id |-> next_id, kind |-> "RESET"]
        /\ \A i \in 1..(Len(tx) + 1) : all[i].id = next_id - Len(tx) + i - 1
    BY LoadedType
  <1> HIDE DEF all
  <1>3. Sent' = Sent + (Len(tx) + 1)
    BY <1>1 DEF Sent, Transmit
  <1>4. \A i \in 1..Len(all) : all[i].id = Sent + i - 1
    BY <1>1, <1>2 DEF Sent
  <1>5. \A i \in 1..Len(all) : all[i].kind # "HELLO"
    <2> SUFFICES ASSUME NEW i \in 1..Len(all) PROVE all[i].kind # "HELLO"
      OBVIOUS
    <2>1. CASE i \in 1..Len(tx)
      BY <1>2, <2>1 DEF NoHelloLoaded
    <2>2. CASE i = Len(tx) + 1
      BY <1>2, <2>2
    <2> QED BY <1>1, <1>2, <2>1, <2>2
  <1>6. CASE link = "down"
    BY <1>1, <1>3, <1>6 DEF Sends, Transmit
  <1>7. CASE link = "up"
    <2>1. toServer' = toServer \o all
      BY <1>1, <1>7 DEF Transmit
    <2>2. /\ Len(toServer') = Len(toServer) + Len(all)
          /\ \A j \in 1..Len(toServer) : toServer'[j] = toServer[j]
          /\ \A j \in 1..Len(all) : toServer'[Len(toServer) + j] = all[j]
      <3>1. toServer \in Seq(Request) /\ all \in Seq(Request)
        BY <1>1, <1>2
      <3> QED BY <2>1, <3>1
    <2> QED BY <1>1, <1>2, <1>3, <1>4, <1>5, <1>7, <2>2 DEF Sends
  <1> QED BY <1>6, <1>7 DEF TypeInv, TypeOK

LEMMA ReceiveTakes ==
    ASSUME rx = "sound", TypeInv, Receive
    PROVE  Takes /\ Message = toClient[1]
  <1>1. stale = << >>
    BY DEF TypeInv, TypeOK
  <1>2. toClient # << >> /\ toClient \in Seq(Answer)
    BY <1>1 DEF Receive, HasMessage, TypeInv, MessagesOK
  <1>3. Message = Head(toClient) /\ toClient' = Tail(toClient)
    BY <1>1 DEF Receive, Message, TakeMessage
  <1>4. Message = toClient[1]
    BY <1>2, <1>3
  <1>5. /\ Len(toClient) > 0 /\ Len(toClient') = Len(toClient) - 1
        /\ \A i \in 1..Len(toClient') : toClient'[i] = toClient[i + 1]
    BY <1>2, <1>3
  <1>6. answered' = IF toClient[1].type = "RECORD" THEN answered ELSE answered + 1
    BY <1>4 DEF Receive, Counts
  <1>7. UNCHANGED <<Sent, toServer, server, link>>
    BY DEF Receive, Sent
  <1> QED BY <1>2, <1>4, <1>5, <1>6, <1>7 DEF Takes

LEMMA ServeServes ==
    TypeInv /\ Serve => \E records \in 0..1, summary \in Summaries : Serves(records, summary)
  <1> SUFFICES ASSUME TypeInv, Serve
               PROVE  \E records \in 0..1, summary \in Summaries : Serves(records, summary)
    OBVIOUS
  <1> DEFINE r == Head(toServer)
  <1>1. PICK records \in 0..1, summary \in Summaries :
           /\ records = 1 => r.kind = "PULL" /\ server = "ready"
           /\ summary = "IGNORED" => r.kind \in Work /\ (server = "failed" \/ Interrupted)
           /\ r.kind \in Work /\ server = "failed" => summary = "IGNORED"
           /\ toClient' = Answers(r.id, records, summary)
           /\ server' = IF summary = "FAILURE" THEN "failed"
                        ELSE IF r.kind = "RESET" THEN "ready" ELSE server
           /\ link' = IF summary = "FAILURE" /\ r.kind \notin Work THEN "down" ELSE link
    BY DEF Serve
  <1>2. /\ toServer \in Seq(Request) /\ toServer # << >> /\ toServer' = Tail(toServer)
        /\ link = "up"
    BY DEF Serve, TypeInv, MessagesOK
  <1>3. r = toServer[1] /\ r \in Request
    BY <1>2
  <1>4. /\ Len(toServer) > 0 /\ Len(toServer') = Len(toServer) - 1
        /\ \A j \in 1..Len(toServer') : toServer'[j] = toServer[j + 1]
    BY <1>2
  <1>5. toServer[1].id \in Nat
    BY <1>3 DEF Request
  <1>6. /\ Len(toClient') = Len(toClient) + records + 1
        /\ \A i \in 1..Len(toClient) : toClient'[i] = toClient[i]
        /\ \A i \in 1..records : toClient'[Len(toClient) + i] = [id |-> toServer[1].id, type |-> "RECORD"]
        /\ toClient'[Len(toClient) + records + 1] = [id |-> toServer[1].id, type |-> summary]
    BY <1>1, <1>3, <1>5, AnswersType
  <1>7. UNCHANGED <<Sent, answered>>
    BY DEF Serve, Sent, protocolVars, bufferVars
  <1>8. Serves(records, summary)
    BY <1>1, <1>2, <1>3, <1>4, <1>6, <1>7 DEF Serves
  <1> QED BY <1>8

LEMMA BreakBreaks == TypeInv /\ Break => Breaks
  <1> SUFFICES ASSUME TypeInv, Break PROVE Breaks
    OBVIOUS
  <1>1. PICK n \in 0..Len(toClient) : toClient' = SubSeq(toClient, 1, n)
    BY DEF Break
  <1>2. toClient \in Seq(Answer)
    BY DEF TypeInv, MessagesOK
  <1>3. Len(toClient') = n /\ \A i \in 1..n : toClient'[i] = toClient[i]
    BY <1>1, <1>2
  <1>4. UNCHANGED <<Sent, answered, server>>
    BY DEF Break, Sent, bufferVars, protocolVars
  <1> QED BY <1>1, <1>2, <1>3, <1>4 DEF Break, Breaks

(* Every step is one of these. *)
LEMMA WireSteps ==
    ASSUME rx = "sound", TypeInv, NoHelloLoaded, [Next]_vars
    PROVE  \/ Quiet \/ Emptied \/ Open \/ Takes \/ Breaks
           \/ \E q \in Nat \ {0} : Sends(q)
           \/ \E records \in 0..1, summary \in Summaries : Serves(records, summary)
  <1> USE DEF callVars, protocolVars, bufferVars, peerVars, counters
  <1>1. ASSUME NEW kind \in Work, Load(kind) PROVE Quiet
    <2>1. Sent' = Sent
      BY <1>1, LoadsQuietly DEF Load
    <2> QED BY <1>1, <2>1 DEF Load, Quiet
  <1>2. ASSUME LoadReset PROVE Quiet
    <2>1. Sent' = Sent
      BY <1>2, LoadsQuietly DEF LoadReset
    <2> QED BY <1>2, <2>1 DEF LoadReset, Quiet
  <1>3. ASSUME Send PROVE \E q \in Nat \ {0} : Sends(q)
    <2>1. Len(tx) \in Nat \ {0}
      BY <1>3 DEF Send, TypeInv, MessagesOK
    <2> QED BY <1>3, <2>1, SendSends
  <1>4. ASSUME NEW kind \in {"fetch", "summary"}, Fetch(kind) PROVE Quiet
    BY <1>4 DEF Fetch, Quiet, Sent
  <1>10. ASSUME LoadFails PROVE Quiet
    BY <1>10 DEF LoadFails, Quiet, Sent
  <1>5. ASSUME ReceiveFailedReset \/ Retire \/ OpenFails PROVE Emptied
    BY <1>5 DEF ReceiveFailedReset, Retire, OpenFails, Closed, Emptied
  <1>6. ASSUME Fails PROVE Quiet \/ Emptied
    BY <1>6 DEF Fails, Closed, Emptied, Quiet, Sent
  <1>7. ASSUME Lend PROVE Quiet
    BY <1>7 DEF Lend, Quiet, Sent
  <1>8. ASSUME Release PROVE \E q \in Nat \ {0} : Sends(q)
    <2>1. Len(tx) + 1 \in Nat \ {0}
      BY DEF TypeInv, MessagesOK
    <2> QED BY <1>8, <2>1, ReleaseSends
  <1>9. ASSUME UNCHANGED vars PROVE Quiet
    BY <1>9 DEF vars, Quiet, Sent
  <1> QED BY <1>1, <1>2, <1>3, <1>4, <1>5, <1>6, <1>7, <1>8, <1>9, <1>10, ReceiveTakes,
             ServeServes, BreakBreaks DEF Next, ReceiveBroken, ReceiveTimesOut

-----------------------------------------------------------------------------
(* The messages on their way stay in order *)

(* The quantities that the steps below reason about are numbers. *)
WireOK ==
    /\ Sent \in Int /\ answered \in Nat
    /\ Len(toServer) \in Nat /\ Len(toClient) \in Nat
    /\ \A j \in 1..Len(toServer) : toServer[j].id \in Nat
    /\ \A i \in 1..Len(toClient) : toClient[i].id \in Nat
    /\ \A j \in 1..Len(toServer) : toServer[j].kind \in Work \union {"HELLO", "RESET"}
    /\ link \in {"up", "down"} /\ server \in {"ready", "failed"}

LEMMA WireTypes == TypeInv => WireOK
  <1> SUFFICES ASSUME TypeInv PROVE WireOK
    OBVIOUS
  <1>1. /\ toServer \in Seq(Request) /\ toClient \in Seq(Answer) /\ tx \in Seq(Request)
        /\ next_id \in Nat /\ answered \in Nat
        /\ link \in {"up", "down"} /\ server \in {"ready", "failed"}
    BY BoundAssumption DEF TypeInv, TypeOK, MessagesOK
  <1>2. Len(toServer) \in Nat /\ Len(toClient) \in Nat /\ Len(tx) \in Nat
    BY <1>1
  <1>3. \A j \in 1..Len(toServer) : toServer[j] \in Request
    BY <1>1
  <1>4. \A i \in 1..Len(toClient) : toClient[i] \in Answer
    BY <1>1
  <1> QED BY <1>1, <1>2, <1>3, <1>4 DEF WireOK, Sent, Request, Answer

LEMMA WireStep == TypeInv /\ [Next]_vars => WireOK /\ WireOK'
  <1>1. TypeInv /\ [Next]_vars => TypeInv'
    BY TypeStep
  <1> QED BY <1>1, WireTypes, PTL

(* The server answers the first of the requests that are left, and all     *)
(* that it adds carries the number of that request.                        *)
LEMMA ServedIds ==
    ASSUME WireOK, NothingMissing, NEW records \in 0..1, NEW summary \in Summaries,
           Serves(records, summary)
    PROVE  /\ toServer[1].id = Sent - Len(toServer)
           /\ \A i \in (Len(toClient) + 1)..(Len(toClient) + records + 1) :
                 toClient'[i].id = toServer[1].id
           /\ records = 1 => toClient'[Len(toClient) + 1].type = "RECORD"
           /\ toClient'[Len(toClient) + records + 1].type = summary
  <1>1. toServer[1].id = Sent - Len(toServer)
    BY DEF WireOK, Serves, NothingMissing
  <1>2. ASSUME NEW i \in (Len(toClient) + 1)..(Len(toClient) + records + 1)
        PROVE  toClient'[i].id = toServer[1].id
    <2>1. CASE i = Len(toClient) + records + 1
      BY <2>1 DEF Serves
    <2>2. CASE i # Len(toClient) + records + 1
      <3>1. i - Len(toClient) \in 1..records /\ i = Len(toClient) + (i - Len(toClient))
        BY <2>2 DEF WireOK
      <3>2. toClient'[Len(toClient) + (i - Len(toClient))].id = toServer[1].id
        BY <3>1 DEF Serves
      <3> QED BY <3>1, <3>2
    <2> QED BY <2>1, <2>2
  <1>3. records = 1 => toClient'[Len(toClient) + 1].type = "RECORD"
    BY DEF WireOK, Serves
  <1>4. toClient'[Len(toClient) + records + 1].type = summary
    BY DEF Serves
  <1> QED BY <1>1, <1>2, <1>3, <1>4

(* Answers stay in the order of their requests. *)
LEMMA InOrderStep ==
    ASSUME rx = "sound", TypeInv, NoHelloLoaded, AnswersInOrder, NothingMissing, [Next]_vars
    PROVE  AnswersInOrder'
  <1> USE DEF WireOK
  <1>0. WireOK /\ WireOK'
    BY WireStep
  <1>1. ASSUME Quiet PROVE AnswersInOrder'
    BY <1>1 DEF Quiet, AnswersInOrder
  <1>2. ASSUME Emptied PROVE AnswersInOrder'
    BY <1>2 DEF Emptied, AnswersInOrder
  <1>3. ASSUME Open PROVE AnswersInOrder'
    BY <1>3 DEF Open, AnswersInOrder
  <1>4. ASSUME Takes PROVE AnswersInOrder'
    <2>1. ASSUME Len(toClient') > 0 PROVE toClient'[1].id = answered'
      <3>1. 1 \in 1..(Len(toClient) - 1) /\ 1 \in 1..Len(toClient')
        BY <1>0, <1>4, <2>1 DEF Takes
      <3>2. toClient'[1] = toClient[1 + 1] /\ toClient[1].id = answered
        BY <1>0, <1>4, <3>1 DEF Takes, AnswersInOrder
      <3> QED BY <1>4, <3>1, <3>2 DEF Takes, AnswersInOrder
    <2>2. ASSUME NEW i \in 1..(Len(toClient') - 1)
          PROVE  toClient'[i + 1].id = IF toClient'[i].type = "RECORD" THEN toClient'[i].id
                                       ELSE toClient'[i].id + 1
      <3>1. i + 1 \in 1..(Len(toClient) - 1) /\ i \in 1..Len(toClient') /\ i + 1 \in 1..Len(toClient')
        BY <1>0, <1>4 DEF Takes
      <3>2. toClient'[i] = toClient[i + 1] /\ toClient'[i + 1] = toClient[(i + 1) + 1]
        BY <1>4, <3>1 DEF Takes
      <3> QED BY <3>1, <3>2 DEF AnswersInOrder
    <2> QED BY <2>1, <2>2 DEF AnswersInOrder
  <1>5. ASSUME Breaks PROVE AnswersInOrder'
    <2>1. ASSUME Len(toClient') > 0 PROVE toClient'[1].id = answered'
      BY <1>0, <1>5, <2>1 DEF Breaks, AnswersInOrder
    <2>2. ASSUME NEW i \in 1..(Len(toClient') - 1)
          PROVE  toClient'[i + 1].id = IF toClient'[i].type = "RECORD" THEN toClient'[i].id
                                       ELSE toClient'[i].id + 1
      <3>1. i \in 1..(Len(toClient) - 1) /\ i \in 1..Len(toClient') /\ i + 1 \in 1..Len(toClient')
        BY <1>0, <1>5 DEF Breaks
      <3>2. toClient'[i] = toClient[i] /\ toClient'[i + 1] = toClient[i + 1]
        BY <1>5, <3>1 DEF Breaks
      <3> QED BY <3>1, <3>2 DEF AnswersInOrder
    <2> QED BY <2>1, <2>2 DEF AnswersInOrder
  <1>6. ASSUME NEW q \in Nat \ {0}, Sends(q) PROVE AnswersInOrder'
    BY <1>0, <1>6 DEF Sends, AnswersInOrder
  <1>7. ASSUME NEW records \in 0..1, NEW summary \in Summaries, Serves(records, summary) PROVE AnswersInOrder'
    <2> DEFINE n == Len(toClient)
    <2>1. /\ toServer[1].id = Sent - Len(toServer)
          /\ \A i \in (n + 1)..(n + records + 1) : toClient'[i].id = toServer[1].id
          /\ records = 1 => toClient'[n + 1].type = "RECORD"
      BY <1>0, <1>7, ServedIds
    <2>2. /\ n = 0 => toServer[1].id = answered
          /\ n > 0 => /\ toServer[1].id = toClient[n].id + 1
                      /\ toClient[n].type # "RECORD"
      BY <1>0, <1>7, <2>1 DEF Serves, NothingMissing
    <2>3. \A i \in 1..n : toClient'[i] = toClient[i]
      BY <1>7 DEF Serves
    <2>4. Len(toClient') = n + records + 1
      BY <1>7 DEF Serves
    <2>5. ASSUME Len(toClient') > 0 PROVE toClient'[1].id = answered'
      <3>1. CASE n = 0
        <4>1. 1 \in (n + 1)..(n + records + 1)
          BY <3>1
        <4> QED BY <1>7, <2>1, <2>2, <3>1, <4>1 DEF Serves
      <3>2. CASE n > 0
        BY <1>0, <1>7, <2>3, <3>2 DEF Serves, AnswersInOrder
      <3> QED BY <1>0, <3>1, <3>2
    <2>6. ASSUME NEW i \in 1..(Len(toClient') - 1)
          PROVE  toClient'[i + 1].id = IF toClient'[i].type = "RECORD" THEN toClient'[i].id
                                       ELSE toClient'[i].id + 1
      <3>1. CASE i < n
        <4>1. i \in 1..(n - 1) /\ i \in 1..n /\ i + 1 \in 1..n
          BY <1>0, <3>1
        <4> QED BY <2>3, <4>1 DEF AnswersInOrder
      <3>2. CASE i = n
        <4>1. i \in 1..n /\ i + 1 \in (n + 1)..(n + records + 1) /\ n > 0
          BY <1>0, <3>2
        <4> QED BY <2>1, <2>2, <2>3, <3>2, <4>1
      <3>3. CASE i > n
        <4>1. /\ records = 1 /\ i = n + 1
              /\ i \in (n + 1)..(n + records + 1) /\ i + 1 \in (n + 1)..(n + records + 1)
          BY <1>0, <2>4, <3>3
        <4> QED BY <2>1, <4>1
      <3> QED BY <1>0, <3>1, <3>2, <3>3
    <2> QED BY <2>5, <2>6 DEF AnswersInOrder
  <1> QED BY <1>1, <1>2, <1>3, <1>4, <1>5, <1>6, <1>7, WireSteps

(* Answers stay ahead of the requests that are not answered. *)
LEMMA BeforeStep ==
    ASSUME rx = "sound", TypeInv, NoHelloLoaded, AnswersBeforeRequests, NothingMissing, [Next]_vars
    PROVE  AnswersBeforeRequests'
  <1> USE DEF WireOK
  <1>0. WireOK /\ WireOK'
    BY WireStep
  <1>1. ASSUME Quiet PROVE AnswersBeforeRequests'
    BY <1>1 DEF Quiet, AnswersBeforeRequests
  <1>2. ASSUME Emptied PROVE AnswersBeforeRequests'
    BY <1>2 DEF Emptied, AnswersBeforeRequests
  <1>3. ASSUME Open PROVE AnswersBeforeRequests'
    <2>1. /\ Len(toServer') = 1 /\ toServer'[1].id = 0 /\ Len(toClient') = 0 /\ Sent' = 1
      BY <1>3 DEF Open, Sent
    <2> QED BY <2>1 DEF AnswersBeforeRequests
  <1>4. ASSUME Takes PROVE AnswersBeforeRequests'
    <2>1. ASSUME NEW i \in 1..Len(toClient')
          PROVE  i + 1 \in 1..Len(toClient) /\ toClient'[i] = toClient[i + 1]
      BY <1>0, <1>4 DEF Takes
    <2> QED BY <1>4, <2>1 DEF Takes, AnswersBeforeRequests
  <1>5. ASSUME Breaks PROVE AnswersBeforeRequests'
    BY <1>0, <1>5 DEF Breaks, AnswersBeforeRequests
  <1>6. ASSUME NEW q \in Nat \ {0}, Sends(q) PROVE AnswersBeforeRequests'
    <2>1. CASE link = "down"
      BY <1>0, <1>6, <2>1 DEF Sends, AnswersBeforeRequests
    <2>2. CASE link = "up"
      <3>1. Sent' = Sent + q /\ toClient' = toClient /\ Len(toServer') = Len(toServer) + q
        BY <1>6, <2>2 DEF Sends
      <3>2. ASSUME NEW j \in 1..Len(toServer')
            PROVE  \/ j \in 1..Len(toServer) /\ toServer'[j] = toServer[j]
                   \/ toServer'[j].id \in Sent..(Sent' - 1)
        <4>1. CASE j \in 1..Len(toServer)
          BY <1>6, <2>2, <4>1 DEF Sends
        <4>2. CASE j \notin 1..Len(toServer)
          <5>1. j - Len(toServer) \in 1..q /\ j = Len(toServer) + (j - Len(toServer))
            BY <1>0, <3>1, <4>2
          <5>2. toServer'[Len(toServer) + (j - Len(toServer))].id = Sent + (j - Len(toServer)) - 1
            BY <1>6, <2>2, <5>1 DEF Sends
          <5> QED BY <1>0, <3>1, <5>1, <5>2
        <4> QED BY <4>1, <4>2
      <3>3. ASSUME NEW j \in 1..Len(toServer')
            PROVE  /\ toServer'[j].id < Sent'
                   /\ \A i \in 1..Len(toClient) : toClient[i].id < toServer'[j].id
        <4>1. CASE j \in 1..Len(toServer) /\ toServer'[j] = toServer[j]
          BY <1>0, <3>1, <4>1 DEF AnswersBeforeRequests
        <4>2. CASE toServer'[j].id \in Sent..(Sent' - 1)
          <5>1. toServer'[j].id \in Int /\ Sent <= toServer'[j].id /\ toServer'[j].id < Sent'
            BY <1>0, <4>2
          <5>2. ASSUME NEW i \in 1..Len(toClient) PROVE toClient[i].id < toServer'[j].id
            <6>1. toClient[i].id \in Nat /\ toClient[i].id < Sent
              BY <1>0 DEF AnswersBeforeRequests
            <6> QED BY <1>0, <5>1, <6>1
          <5> QED BY <5>1, <5>2
        <4> QED BY <3>2, <4>1, <4>2
      <3>4. \A i \in 1..Len(toClient) : toClient[i].id < Sent'
        BY <1>0, <3>1 DEF AnswersBeforeRequests
      <3> QED BY <3>1, <3>3, <3>4 DEF AnswersBeforeRequests
    <2> QED BY <1>0, <2>1, <2>2
  <1>7. ASSUME NEW records \in 0..1, NEW summary \in Summaries, Serves(records, summary) PROVE AnswersBeforeRequests'
    <2> DEFINE n == Len(toClient)
    <2>1. /\ toServer[1].id = Sent - Len(toServer)
          /\ \A i \in (n + 1)..(n + records + 1) : toClient'[i].id = toServer[1].id
      BY <1>0, <1>7, ServedIds
    <2>2. ASSUME NEW j \in 1..Len(toServer')
          PROVE  toServer'[j].id < Sent /\ toServer[1].id < toServer'[j].id
      <3>1. j + 1 \in 1..Len(toServer) /\ toServer'[j] = toServer[j + 1]
        BY <1>0, <1>7 DEF Serves
      <3>2. toServer[j + 1].id = Sent - Len(toServer) + (j + 1) - 1
        BY <1>7, <3>1 DEF Serves, NothingMissing
      <3> QED BY <1>0, <2>1, <3>1, <3>2
    <2>3. ASSUME NEW i \in 1..Len(toClient')
          PROVE  toClient'[i].id <= toServer[1].id /\ toClient'[i].id \in Nat
      <3>1. 1 \in 1..Len(toServer)
        BY <1>0, <1>7 DEF Serves
      <3>2. CASE i \in 1..n
        <4>1. toClient'[i] = toClient[i] /\ toClient[i].id < toServer[1].id
          BY <1>7, <3>1, <3>2 DEF Serves, AnswersBeforeRequests
        <4> QED BY <1>0, <3>1, <3>2, <4>1
      <3>3. CASE i \in (n + 1)..(n + records + 1)
        BY <1>0, <2>1, <3>1, <3>3
      <3>4. Len(toClient') = n + records + 1
        BY <1>7 DEF Serves
      <3> QED BY <1>0, <3>2, <3>3, <3>4
    <2>4. toServer[1].id \in Nat /\ toServer[1].id < Sent /\ Sent' = Sent
      BY <1>0, <1>7, <2>1 DEF Serves
    <2>5. ASSUME NEW i \in 1..Len(toClient')
          PROVE  /\ toClient'[i].id < Sent'
                 /\ \A j \in 1..Len(toServer') : toClient'[i].id < toServer'[j].id
      BY <1>0, <2>2, <2>3, <2>4
    <2>6. \A j \in 1..Len(toServer') : toServer'[j].id < Sent'
      BY <2>2, <2>4
    <2> QED BY <2>5, <2>6 DEF AnswersBeforeRequests
  <1> QED BY <1>1, <1>2, <1>3, <1>4, <1>5, <1>6, <1>7, WireSteps

(* Nothing gets lost while the link is up. *)
LEMMA NothingMissingStep ==
    ASSUME rx = "sound", TypeInv, NoHelloLoaded, AnswersInOrder, NothingMissing, [Next]_vars
    PROVE  NothingMissing'
  <1> USE DEF WireOK
  <1>0. WireOK /\ WireOK'
    BY WireStep
  <1>1. ASSUME Quiet PROVE NothingMissing'
    BY <1>1 DEF Quiet, NothingMissing
  <1>2. ASSUME Emptied PROVE NothingMissing'
    BY <1>2 DEF Emptied, NothingMissing
  <1>3. ASSUME Open PROVE NothingMissing'
    <2>1. /\ Len(toServer') = 1 /\ toServer'[1].id = 0 /\ Len(toClient') = 0
          /\ Sent' = 1 /\ answered' = 0
      BY <1>3 DEF Open, Sent
    <2> QED BY <2>1 DEF NothingMissing
  <1>4. ASSUME Takes PROVE NothingMissing'
    <2> SUFFICES ASSUME link = "up" PROVE NothingMissing'
      BY <1>4 DEF Takes, NothingMissing
    <2>1. UNCHANGED <<Sent, toServer, link>> /\ Len(toClient') = Len(toClient) - 1 /\ Len(toClient) > 0
      BY <1>4 DEF Takes
    <2>2. /\ toClient[Len(toClient)].type # "RECORD"
          /\ toClient[Len(toClient)].id = Sent - Len(toServer) - 1
      BY <2>1 DEF NothingMissing
    <2>3. CASE Len(toClient) = 1
      <3>1. answered' = answered + 1 /\ toClient[1].id = answered
        BY <1>0, <1>4, <2>2, <2>3 DEF Takes, AnswersInOrder
      <3>2. /\ Len(toServer) \in Nat /\ Sent \in Int /\ answered \in Nat
            /\ Sent' = Sent /\ toServer' = toServer /\ Len(toClient') = 0
        BY <1>0, <2>1, <2>3
      <3>3. answered = Sent - Len(toServer) - 1
        BY <2>2, <2>3, <3>1
      <3>4. answered' = Sent' - Len(toServer')
        BY <3>1, <3>2, <3>3
      <3>5. \A j \in 1..Len(toServer') : toServer'[j].id = Sent' - Len(toServer') + j - 1
        BY <3>2 DEF NothingMissing
      <3> QED BY <3>2, <3>4, <3>5 DEF NothingMissing
    <2>4. CASE Len(toClient) > 1
      <3>1. Len(toClient') \in 1..Len(toClient')
        BY <1>0, <2>1, <2>4
      <3>2. toClient'[Len(toClient')] = toClient[Len(toClient') + 1]
        BY <1>4, <3>1 DEF Takes
      <3>3. toClient'[Len(toClient')] = toClient[Len(toClient)]
        BY <1>0, <2>1, <3>2
      <3> QED BY <1>0, <2>1, <2>2, <2>4, <3>3 DEF NothingMissing
    <2> QED BY <1>0, <2>1, <2>3, <2>4
  <1>5. ASSUME Breaks PROVE NothingMissing'
    BY <1>0, <1>5 DEF Breaks, NothingMissing
  <1>6. ASSUME NEW q \in Nat \ {0}, Sends(q) PROVE NothingMissing'
    <2> SUFFICES ASSUME link = "up" PROVE NothingMissing'
      BY <1>6 DEF Sends, NothingMissing
    <2>1. /\ Sent' = Sent + q /\ UNCHANGED <<toClient, answered>>
          /\ Len(toServer') = Len(toServer) + q
      BY <1>6 DEF Sends
    <2>2. ASSUME NEW j \in 1..Len(toServer')
          PROVE  toServer'[j].id = Sent' - Len(toServer') + j - 1
      <3>1. CASE j \in 1..Len(toServer)
        <4>1. toServer'[j] = toServer[j] /\ toServer[j].id = Sent - Len(toServer) + j - 1
          BY <1>6, <3>1 DEF Sends, NothingMissing
        <4>2. Sent \in Int /\ Len(toServer) \in Nat /\ j \in Nat /\ q \in Nat
          BY <1>0, <3>1
        <4>3. Sent' - Len(toServer') = Sent - Len(toServer)
          BY <2>1, <4>2
        <4> QED BY <4>1, <4>3
      <3>2. CASE j \notin 1..Len(toServer)
        <4>1. j - Len(toServer) \in 1..q /\ j = Len(toServer) + (j - Len(toServer))
          BY <1>0, <2>1, <3>2
        <4>2. toServer'[Len(toServer) + (j - Len(toServer))].id = Sent + (j - Len(toServer)) - 1
          BY <1>6, <4>1 DEF Sends
        <4> QED BY <1>0, <2>1, <4>1, <4>2
      <3> QED BY <3>1, <3>2
    <2>3. Sent' - Len(toServer') = Sent - Len(toServer)
      BY <1>0, <2>1
    <2> QED BY <1>0, <2>1, <2>2, <2>3 DEF NothingMissing
  <1>7. ASSUME NEW records \in 0..1, NEW summary \in Summaries, Serves(records, summary) PROVE NothingMissing'
    <2> DEFINE n == Len(toClient)
    <2>1. /\ toServer[1].id = Sent - Len(toServer)
          /\ \A i \in (n + 1)..(n + records + 1) : toClient'[i].id = toServer[1].id
          /\ toClient'[n + records + 1].type = summary
      BY <1>0, <1>7, ServedIds
    <2>2. /\ Len(toServer') = Len(toServer) - 1 /\ Len(toClient') = n + records + 1
          /\ Sent' = Sent /\ link = "up"
      BY <1>7 DEF Serves
    <2>3. ASSUME NEW j \in 1..Len(toServer')
          PROVE  toServer'[j].id = Sent' - Len(toServer') + j - 1
      <3>1. j + 1 \in 1..Len(toServer) /\ toServer'[j] = toServer[j + 1]
        BY <1>0, <1>7 DEF Serves
      <3>2. toServer[j + 1].id = Sent - Len(toServer) + (j + 1) - 1
        BY <2>2, <3>1 DEF NothingMissing
      <3>3. Sent \in Int /\ Len(toServer) \in Nat /\ j \in Int
        BY <1>0
      <3>4. Sent - Len(toServer) + (j + 1) - 1 = Sent' - Len(toServer') + j - 1
        BY <2>2, <3>3
      <3> QED BY <3>1, <3>2, <3>4
    <2>4. /\ toClient'[Len(toClient')].type # "RECORD"
          /\ toClient'[Len(toClient')].id = Sent' - Len(toServer') - 1
          /\ Len(toClient') > 0
      <3>1. n + records + 1 \in (n + 1)..(n + records + 1)
        BY <1>0
      <3>2. toClient'[n + records + 1].id = Sent - Len(toServer)
        BY <2>1, <3>1
      <3> QED BY <1>0, <2>1, <2>2, <3>2 DEF Summaries
    <2> QED BY <2>3, <2>4 DEF NothingMissing
  <1> QED BY <1>1, <1>2, <1>3, <1>4, <1>5, <1>6, <1>7, WireSteps

(* HELLO stays the first request. *)
LEMMA HelloFirstStep ==
    ASSUME rx = "sound", TypeInv, NoHelloLoaded, HelloFirst, [Next]_vars
    PROVE  HelloFirst'
  <1> USE DEF WireOK
  <1>0. WireOK /\ WireOK'
    BY WireStep
  <1>1. ASSUME Quiet PROVE HelloFirst'
    BY <1>1 DEF Quiet, HelloFirst
  <1>2. ASSUME Emptied PROVE HelloFirst'
    BY <1>2 DEF Emptied, HelloFirst
  <1>3. ASSUME Open PROVE HelloFirst'
    BY <1>3 DEF Open, HelloFirst
  <1>4. ASSUME Takes PROVE HelloFirst'
    BY <1>0, <1>4 DEF Takes, HelloFirst
  <1>5. ASSUME Breaks PROVE HelloFirst'
    BY <1>0, <1>5 DEF Breaks, HelloFirst
  <1>6. ASSUME NEW q \in Nat \ {0}, Sends(q) PROVE HelloFirst'
    <2>1. CASE link = "down"
      BY <1>6, <2>1 DEF Sends, HelloFirst
    <2>2. CASE link = "up"
      <3>1. server' = server /\ Len(toServer') = Len(toServer) + q
        BY <1>6, <2>2 DEF Sends
      <3>2. ASSUME NEW j \in 1..Len(toServer'), toServer'[j].kind = "HELLO"
            PROVE  j = 1 /\ server = "ready"
        <4>1. CASE j \in 1..Len(toServer)
          BY <1>6, <2>2, <3>2, <4>1 DEF Sends, HelloFirst
        <4>2. CASE j \notin 1..Len(toServer)
          <5>1. j - Len(toServer) \in 1..q /\ j = Len(toServer) + (j - Len(toServer))
            BY <1>0, <3>1, <4>2
          <5>2. toServer'[Len(toServer) + (j - Len(toServer))].kind # "HELLO"
            BY <1>6, <2>2, <5>1 DEF Sends
          <5> QED BY <3>2, <5>1, <5>2
        <4> QED BY <4>1, <4>2
      <3> QED BY <3>1, <3>2 DEF HelloFirst
    <2> QED BY <1>0, <2>1, <2>2
  <1>7. ASSUME NEW records \in 0..1, NEW summary \in Summaries, Serves(records, summary) PROVE HelloFirst'
    <2>1. ASSUME NEW j \in 1..Len(toServer') PROVE toServer'[j].kind # "HELLO"
      <3>1. j + 1 \in 1..Len(toServer) /\ toServer'[j] = toServer[j + 1] /\ j + 1 # 1
        BY <1>0, <1>7 DEF Serves
      <3> QED BY <3>1 DEF HelloFirst
    <2> QED BY <2>1 DEF HelloFirst
  <1> QED BY <1>1, <1>2, <1>3, <1>4, <1>5, <1>6, <1>7, WireSteps

(* The answer to the last request keeps telling what the server is in. *)
LEMMA LastAnswerStep ==
    ASSUME rx = "sound", TypeInv, NoHelloLoaded, AnswersBeforeRequests, NothingMissing, HelloFirst, LastAnswerTells, [Next]_vars
    PROVE  LastAnswerTells'
  <1> USE DEF WireOK
  <1>0. WireOK /\ WireOK'
    BY WireStep
  <1>1. ASSUME Quiet PROVE LastAnswerTells'
    BY <1>1 DEF Quiet, LastAnswerTells
  <1>2. ASSUME Emptied PROVE LastAnswerTells'
    BY <1>2 DEF Emptied, LastAnswerTells
  <1>3. ASSUME Open PROVE LastAnswerTells'
    BY <1>3 DEF Open, LastAnswerTells
  <1>4. ASSUME Takes PROVE LastAnswerTells'
    <2>1. ASSUME NEW i \in 1..Len(toClient')
          PROVE  i + 1 \in 1..Len(toClient) /\ toClient'[i] = toClient[i + 1]
      BY <1>0, <1>4 DEF Takes
    <2> QED BY <1>4, <2>1 DEF Takes, LastAnswerTells
  <1>5. ASSUME Breaks PROVE LastAnswerTells'
    BY <1>0, <1>5 DEF Breaks, LastAnswerTells
  <1>6. ASSUME NEW q \in Nat \ {0}, Sends(q) PROVE LastAnswerTells'
    <2>1. UNCHANGED toClient /\ Sent' = Sent + q
      BY <1>6 DEF Sends
    <2>2. \A i \in 1..Len(toClient) : toClient[i].id # Sent' - 1
      BY <1>0, <2>1 DEF AnswersBeforeRequests
    <2> QED BY <2>1, <2>2 DEF LastAnswerTells
  <1>7. ASSUME NEW records \in 0..1, NEW summary \in Summaries, Serves(records, summary) PROVE LastAnswerTells'
    <2> DEFINE n == Len(toClient)
    <2>1. /\ toServer[1].id = Sent - Len(toServer)
          /\ \A i \in (n + 1)..(n + records + 1) : toClient'[i].id = toServer[1].id
          /\ records = 1 => toClient'[n + 1].type = "RECORD"
          /\ toClient'[n + records + 1].type = summary
      BY <1>0, <1>7, ServedIds
    <2>2. /\ Len(toClient') = n + records + 1 /\ Len(toServer) > 0
          /\ Sent' = Sent
          /\ summary = "IGNORED" => server = "failed" \/ Interrupted
          /\ toServer[1].kind \in Work /\ server = "failed" => summary = "IGNORED"
          /\ server' = IF summary = "FAILURE" THEN "failed"
                       ELSE IF toServer[1].kind = "RESET" THEN "ready" ELSE server
      BY <1>7 DEF Serves
    <2> SUFFICES ASSUME NEW i \in 1..Len(toClient'), toClient'[i].id = Sent' - 1
                 PROVE  /\ toClient'[i].type = "SUCCESS" => server' = "ready"
                        /\ toClient'[i].type \in {"FAILURE", "IGNORED"} => server' = "failed"
      BY DEF LastAnswerTells
    <2>3. 1 \in 1..Len(toServer)
      BY <1>0, <2>2
    <2>4. CASE i \in 1..n
      <3>1. toClient'[i] = toClient[i] /\ toClient[i].id < toServer[1].id
        BY <1>7, <2>3, <2>4 DEF Serves, AnswersBeforeRequests
      <3>2. toClient[i].id < Sent - 1
        BY <1>0, <2>1, <2>2, <2>4, <3>1
      <3> QED BY <1>0, <2>2, <3>1, <3>2
    <2>5. CASE i \in (n + 1)..(n + records + 1)
      <3>0. Len(toServer) \in Nat /\ n \in Nat /\ Sent \in Int
        BY <1>0
      <3>1. Len(toServer) = 1
        <4>1. toClient'[i].id = Sent - Len(toServer)
          BY <2>1, <2>5
        <4>2. toClient'[i].id = Sent - 1
          BY <2>2
        <4>3. Sent - Len(toServer) = Sent - 1
          BY <4>1, <4>2
        <4>4. \A m \in Nat, x \in Int : x - m = x - 1 => m = 1
          OBVIOUS
        <4> QED BY <3>0, <4>3, <4>4
      <3>2. ~Interrupted
        BY <3>1 DEF Interrupted
      <3>3. CASE i # n + records + 1
        <4>1. records = 1 /\ i = n + 1
          BY <2>5, <3>0, <3>3
        <4> QED BY <2>1, <4>1
      <3>4. CASE i = n + records + 1
        <4>1. toClient'[i].type = summary
          BY <2>1, <3>4
        <4>2. summary = "SUCCESS" => server' = "ready"
          <5>1. toServer[1].kind = "HELLO" => server = "ready"
            BY <2>3 DEF HelloFirst
          <5>2. toServer[1].kind \in Work \union {"HELLO", "RESET"}
            BY <1>0, <2>3
          <5> QED BY <1>0, <2>2, <5>1, <5>2
        <4>3. summary = "FAILURE" => server' = "failed"
          BY <2>2
        <4>4. summary = "IGNORED" => server' = "failed"
          <5>1. summary = "IGNORED" => server = "failed" /\ toServer[1].kind \in Work
            BY <1>7, <2>2, <3>2 DEF Serves
          <5> QED BY <2>2, <5>1 DEF Work
        <4> QED BY <4>1, <4>2, <4>3, <4>4
      <3> QED BY <3>3, <3>4
    <2> QED BY <1>0, <2>2, <2>4, <2>5
  <1> QED BY <1>1, <1>2, <1>3, <1>4, <1>5, <1>6, <1>7, WireSteps

-----------------------------------------------------------------------------
(* What the client knows of the server *)

(* No HELLO is ever loaded by the application or the pool. *)
LEMMA NoHelloStep == TypeInv /\ NoHelloLoaded /\ [Next]_vars => NoHelloLoaded'
  <1> SUFFICES ASSUME TypeInv, NoHelloLoaded, [Next]_vars PROVE NoHelloLoaded'
    OBVIOUS
  <1>1. ASSUME NEW kind \in Work \union {"RESET"}, tx' = Loaded(kind) PROVE NoHelloLoaded'
    <2>1. /\ Len(tx') = Len(tx) + 1 /\ tx'[Len(tx) + 1] = [id |-> next_id, kind |-> kind]
          /\ \A i \in 1..Len(tx) : tx'[i] = tx[i]
      BY <1>1, LoadedType
    <2>2. Len(tx) \in Nat
      BY DEF TypeInv, MessagesOK
    <2>3. ASSUME NEW i \in 1..Len(tx') PROVE tx'[i].kind # "HELLO"
      <3>1. CASE i \in 1..Len(tx)
        BY <2>1, <3>1 DEF NoHelloLoaded
      <3>2. CASE i = Len(tx) + 1
        BY <2>1, <3>2 DEF Work
      <3> QED BY <2>1, <2>2, <3>1, <3>2
    <2> QED BY <2>3 DEF NoHelloLoaded
  <1>2. ASSUME tx' = tx \/ tx' = << >> PROVE NoHelloLoaded'
    BY <1>2 DEF NoHelloLoaded
  <1>3. \/ tx' = tx \/ tx' = << >>
        \/ \E kind \in Work \union {"RESET"} : tx' = Loaded(kind)
    BY DEF Next, vars, Load, LoadReset, Send, Fetch, Receive, ReceiveFailedReset, ReceiveBroken,
       ReceiveTimesOut, Lend, Retire, Open, OpenFails, Release, Serve, Break, Transmit, Closed,
       Fails, LoadFails, bufferVars
  <1> QED BY <1>1, <1>2, <1>3

(* A failure of the server stays known until a RESET is on its way. *)
LEMMA FailureToldStep ==
    ASSUME rx = "sound", TypeInv, FailureTold, [Next]_vars
    PROVE  FailureTold'
  <1> USE DEF callVars, protocolVars, bufferVars, peerVars, counters
  <1>1. ASSUME NEW kind \in Work, Load(kind) PROVE FailureTold'
    <2>1. /\ Len(tx') = Len(tx) + 1 /\ tx'[Len(tx) + 1] = [id |-> next_id, kind |-> kind]
          /\ \A i \in 1..Len(tx) : tx'[i] = tx[i]
      BY <1>1, LoadedType DEF Load
    <2>2. Len(tx) \in Nat
      BY DEF TypeInv, MessagesOK
    <2>3. \A j \in 1..Len(tx) : j \in 1..Len(tx')
      BY <2>1, <2>2
    <2> QED BY <1>1, <2>1, <2>3 DEF Load, FailureTold
  <1>2. ASSUME LoadReset PROVE FailureTold'
    <2>1. /\ Len(tx') = Len(tx) + 1 /\ tx'[Len(tx) + 1] = [id |-> next_id, kind |-> "RESET"]
          /\ \A i \in 1..Len(tx) : tx'[i] = tx[i]
      BY <1>2, LoadedType DEF LoadReset
    <2>2. Len(tx) \in Nat
      BY DEF TypeInv, MessagesOK
    <2>3. Len(tx) + 1 \in 1..Len(tx') /\ tx'[Len(tx) + 1].kind = "RESET"
      BY <2>1, <2>2
    <2> QED BY <2>3 DEF FailureTold
  <1>3. ASSUME Send PROVE FailureTold'
    <2> SUFFICES ASSUME link = "up", server = "failed" PROVE FailureTold'
      BY <1>3 DEF Send, FailureTold
    <2>1. tx \in Seq(Request) /\ toServer \in Seq(Request) /\ toServer' = toServer \o tx
      BY <1>3 DEF Send, Transmit, TypeInv, MessagesOK
    <2>2. /\ Len(toServer') = Len(toServer) + Len(tx)
          /\ \A j \in 1..Len(toServer) : toServer'[j] = toServer[j]
          /\ \A j \in 1..Len(tx) : toServer'[Len(toServer) + j] = tx[j]
          /\ Len(toServer) \in Nat /\ Len(tx) \in Nat
      BY <2>1
    <2>3. /\ \A j \in 1..Len(toServer) : j \in 1..Len(toServer')
          /\ \A j \in 1..Len(tx) : Len(toServer) + j \in 1..Len(toServer')
      BY <2>2
    <2>4. failure' = failure /\ toClient' = toClient
      BY <1>3 DEF Send
    <2> QED BY <2>2, <2>3, <2>4 DEF FailureTold
  <1>4. ASSUME NEW kind \in {"fetch", "summary"}, Fetch(kind) PROVE FailureTold'
    BY <1>4 DEF Fetch, FailureTold
  <1>5. ASSUME Receive PROVE FailureTold'
    <2>1. Takes /\ Message = toClient[1]
      BY <1>5, ReceiveTakes
    <2>2. /\ failure' = (failure \/ toClient[1].type = "FAILURE")
          /\ UNCHANGED <<tx, toServer, link, server>>
      BY <1>5, <2>1 DEF Receive, FailureAfter
    <2>3. Len(toClient) \in Nat
      BY DEF TypeInv, MessagesOK
    <2>4. ASSUME NEW i \in 1..Len(toClient), i # 1
          PROVE  i - 1 \in 1..Len(toClient') /\ toClient'[i - 1] = toClient[i]
      <3>1. i - 1 \in 1..Len(toClient') /\ (i - 1) + 1 = i
        BY <2>1, <2>3, <2>4 DEF Takes
      <3> QED BY <2>1, <3>1 DEF Takes
    <2>5. (\E i \in 1..Len(toClient) : toClient[i].type = "FAILURE") =>
              \/ toClient[1].type = "FAILURE"
              \/ \E i \in 1..Len(toClient') : toClient'[i].type = "FAILURE"
      BY <2>4
    <2> QED BY <2>2, <2>5 DEF FailureTold
  <1>6. ASSUME ReceiveFailedReset PROVE FailureTold'
    BY <1>6 DEF ReceiveFailedReset, Closed, FailureTold
  <1>7. ASSUME ReceiveBroken PROVE FailureTold'
    BY <1>7 DEF ReceiveBroken, Fails, Closed, FailureTold
  <1>8. ASSUME ReceiveTimesOut PROVE FailureTold'
    BY <1>8 DEF ReceiveTimesOut, Fails, Closed, FailureTold
  <1>9. ASSUME Lend PROVE FailureTold'
    BY <1>9 DEF Lend, FailureTold
  <1>10. ASSUME Retire PROVE FailureTold'
    BY <1>10 DEF Retire, Closed, FailureTold
  <1>11. ASSUME Open PROVE FailureTold'
    BY <1>11 DEF Open, FailureTold
  <1>12. ASSUME OpenFails PROVE FailureTold'
    BY <1>12 DEF OpenFails, FailureTold
  <1>13. ASSUME Release PROVE FailureTold'
    <2> SUFFICES ASSUME link = "up" PROVE FailureTold'
      BY <1>13 DEF Release, FailureTold
    <2>1. /\ Loaded("RESET") \in Seq(Request) /\ Len(Loaded("RESET")) = Len(tx) + 1
          /\ Loaded("RESET")[Len(tx) + 1] = [id |-> next_id, kind |-> "RESET"]
      BY LoadedType
    <2>2. tx \in Seq(Request) /\ toServer \in Seq(Request) /\ toServer' = toServer \o Loaded("RESET")
      BY <1>13 DEF Release, Transmit, TypeInv, MessagesOK
    <2>3. Len(toServer) \in Nat /\ Len(tx) \in Nat
      BY <2>2
    <2>4. Len(toServer') = Len(toServer) + Len(Loaded("RESET"))
      BY <2>1, <2>2
    <2>5. \A j \in 1..Len(Loaded("RESET")) : toServer'[Len(toServer) + j] = Loaded("RESET")[j]
      BY <2>1, <2>2
    <2>6. Len(tx) + 1 \in 1..Len(Loaded("RESET"))
      BY <2>1, <2>3
    <2>7. toServer'[Len(toServer) + (Len(tx) + 1)].kind = "RESET"
      BY <2>1, <2>5, <2>6
    <2>8. Len(toServer) + (Len(tx) + 1) \in 1..Len(toServer')
      BY <2>1, <2>3, <2>4
    <2> QED BY <2>7, <2>8 DEF FailureTold
  <1>14. ASSUME Serve PROVE FailureTold'
    <2>1. PICK records \in 0..1, summary \in Summaries : Serves(records, summary)
      BY <1>14, ServeServes
    <2>2. UNCHANGED <<failure, tx>>
      BY <1>14 DEF Serve
    <2>3. Len(toClient) \in Nat /\ Len(toServer) \in Nat
      BY DEF TypeInv, MessagesOK
    <2>4. \A i \in 1..Len(toClient) : i \in 1..Len(toClient') /\ toClient'[i] = toClient[i]
      BY <2>1, <2>3 DEF Serves
    <2> SUFFICES ASSUME server' = "failed" PROVE FailureTold'
      BY DEF FailureTold
    <2>5. CASE summary = "FAILURE"
      <3>1. /\ Len(toClient) + records + 1 \in 1..Len(toClient')
            /\ toClient'[Len(toClient) + records + 1].type = "FAILURE"
        BY <2>1, <2>3, <2>5 DEF Serves
      <3> QED BY <3>1 DEF FailureTold
    <2>6. CASE summary # "FAILURE"
      <3>1. server = "failed" /\ link = "up" /\ toServer[1].kind # "RESET"
        BY <2>1, <2>6 DEF Serves
      <3>2. ASSUME NEW j \in 1..Len(toServer), j # 1
            PROVE  j - 1 \in 1..Len(toServer') /\ toServer'[j - 1] = toServer[j]
        <4>1. j - 1 \in 1..Len(toServer') /\ (j - 1) + 1 = j
          BY <2>1, <2>3, <3>2 DEF Serves
        <4> QED BY <2>1, <4>1 DEF Serves
      <3>3. (\E j \in 1..Len(toServer) : toServer[j].kind = "RESET") =>
               \E j \in 1..Len(toServer') : toServer'[j].kind = "RESET"
        BY <3>1, <3>2
      <3>4. (\E i \in 1..Len(toClient) : toClient[i].type = "FAILURE") =>
               \E i \in 1..Len(toClient') : toClient'[i].type = "FAILURE"
        BY <2>4
      <3> QED BY <2>2, <3>1, <3>3, <3>4 DEF FailureTold
    <2> QED BY <2>5, <2>6
  <1>15. ASSUME Break PROVE FailureTold'
    BY <1>15 DEF Break, FailureTold
  <1>17. ASSUME LoadFails PROVE FailureTold'
    BY <1>17 DEF LoadFails, FailureTold
  <1>16. ASSUME UNCHANGED vars PROVE FailureTold'
    BY <1>16 DEF vars, FailureTold
  <1> QED BY <1>1, <1>2, <1>3, <1>4, <1>5, <1>6, <1>7, <1>8, <1>9, <1>10,
       <1>11, <1>12, <1>13, <1>14, <1>15, <1>16, <1>17 DEF Next

-----------------------------------------------------------------------------
(* What a fetch returns *)

(* The answer to the last request leaves nothing behind it. *)
LEMMA LastAnswer ==
    ASSUME TypeInv, AnswersInOrder, AnswersBeforeRequests,
           Len(toClient) > 0, toClient[1].type # "RECORD", answered = next_id - 1
    PROVE  /\ Len(tx) = 0 /\ Sent = next_id /\ toClient[1].id = Sent - 1
           /\ Len(toClient) = 1 /\ Len(toServer) = 0
  <1>1. WireOK
    BY WireTypes
  <1>2. next_id \in Int /\ Len(tx) \in Nat
    BY DEF TypeInv, TypeOK, MessagesOK
  <1>3. toClient[1].id = next_id - 1 /\ 1 \in 1..Len(toClient) /\ toClient[1].id < Sent
    BY <1>1 DEF WireOK, AnswersInOrder, AnswersBeforeRequests
  <1>4. next_id - 1 < next_id - Len(tx)
    BY <1>3 DEF Sent
  <1>5. Len(tx) = 0
    BY <1>2, <1>4
  <1>6. Sent = next_id
    BY <1>2, <1>5 DEF Sent
  <1>7. Len(toClient) = 1
    <2> SUFFICES ASSUME Len(toClient) # 1 PROVE FALSE
      OBVIOUS
    <2>0. Len(toClient) \in Nat
      BY <1>1 DEF WireOK
    <2>. \A n \in Nat : n > 0 /\ n # 1 => 1 \in 1..(n - 1) /\ 1 + 1 \in 1..n
      OBVIOUS
    <2>1. 1 \in 1..(Len(toClient) - 1) /\ 1 + 1 \in 1..Len(toClient)
      BY <2>0
    <2>2. toClient[1 + 1].id = toClient[1].id + 1
      BY <2>1 DEF AnswersInOrder
    <2>3. toClient[1 + 1].id < Sent
      BY <2>1 DEF AnswersBeforeRequests
    <2>4. next_id - 1 + 1 < next_id
      BY <1>3, <1>6, <2>2, <2>3
    <2> QED BY <1>2, <2>4
  <1>8. Len(toServer) = 0
    <2> SUFFICES ASSUME Len(toServer) # 0 PROVE FALSE
      OBVIOUS
    <2>1. 1 \in 1..Len(toServer) /\ toServer[1].id \in Nat
      BY <1>1 DEF WireOK
    <2>2. toServer[1].id < Sent /\ toClient[1].id < toServer[1].id
      BY <1>3, <2>1 DEF AnswersBeforeRequests
    <2> QED BY <1>2, <1>3, <1>6, <2>1, <2>2
  <1> QED BY <1>3, <1>5, <1>6, <1>7, <1>8

(* The response counter is at most at the first request that the server    *)
(* has not read.                                                           *)
LEMMA CounterBehind ==
    ASSUME TypeInv, AnswersInOrder, NothingMissing, AnswersBeforeRequests, link = "up"
    PROVE  (Len(toServer) > 0 \/ Len(tx) > 0) => answered < next_id
  <1>1. WireOK
    BY WireTypes
  <1>2. next_id \in Int /\ Len(tx) \in Nat /\ Sent = next_id - Len(tx)
    BY DEF TypeInv, TypeOK, MessagesOK, Sent
  <1>3. CASE Len(toClient) = 0
    BY <1>1, <1>2, <1>3 DEF WireOK, NothingMissing
  <1>4. CASE Len(toClient) > 0
    <2>1. 1 \in 1..Len(toClient)
      BY <1>1, <1>4 DEF WireOK
    <2>2. answered < Sent
      BY <1>4, <2>1 DEF AnswersInOrder, AnswersBeforeRequests
    <2> QED BY <1>1, <1>2, <2>2 DEF WireOK
  <1> QED BY <1>1, <1>3, <1>4 DEF WireOK

(* A fetch returns what answers its request. *)
LEMMA MatchStep ==
    ASSUME rx = "sound", TypeInv, AnswersInOrder, AnswersMatch, [Next]_vars
    PROVE  AnswersMatch'
  <1>1. ASSUME Receive PROVE AnswersMatch'
    <2>1. Message = toClient[1] /\ Len(toClient) > 0
      BY <1>1, ReceiveTakes DEF Takes
    <2>2. toClient[1].id = answered
      BY <2>1 DEF AnswersInOrder
    <2>3. matched' = (answered = request => Message.id = request)
      BY <1>1 DEF Receive
    <2> QED BY <2>1, <2>2, <2>3 DEF AnswersMatch
  <1>2. ASSUME ~Receive PROVE matched' = matched \/ matched' = TRUE
    BY <1>2 DEF Next, vars, Load, LoadFails, LoadReset, Send, Fetch, ReceiveFailedReset, ReceiveBroken,
       ReceiveTimesOut, Lend, Retire, Open, OpenFails, Release, Serve, Break, Closed, Fails, callVars
  <1> QED BY <1>1, <1>2 DEF AnswersMatch

(* A connection is back in the pool only when nothing is left of its use. *)
LEMMA HandoverStep ==
    ASSUME rx = "sound", TypeInv, NoHelloLoaded, AnswersInOrder,
           AnswersBeforeRequests, LastAnswerTells, CleanHandover,
           [Next]_vars
    PROVE  CleanHandover'
  <1> USE DEF callVars, protocolVars, bufferVars, peerVars, counters
  <1>1. ASSUME NEW kind \in Work, Load(kind) PROVE CleanHandover'
    BY <1>1 DEF Load, Usable, CleanHandover
  <1>2. ASSUME LoadReset PROVE CleanHandover'
    BY <1>2 DEF LoadReset, Usable, CleanHandover
  <1>3. ASSUME Send PROVE CleanHandover'
    BY <1>3 DEF Send, Usable, CleanHandover
  <1>4. ASSUME NEW kind \in {"fetch", "summary"}, Fetch(kind) PROVE CleanHandover'
    BY <1>4 DEF Fetch, CleanHandover
  <1>5. ASSUME Receive PROVE CleanHandover'
    <2>1. Takes /\ Message = toClient[1]
      BY <1>5, ReceiveTakes
    <2>2. ReceiveEnds(toClient[1].type) /\ Fetching /\ UNCHANGED <<tx, next_id, toServer, server>>
      BY <1>5, <2>1, ReceiveCases DEF Receive
    <2> SUFFICES ASSUME call' = "pooled" PROVE CleanHandover'
      BY DEF CleanHandover
    <2>3. \/ state' = "DEFUNCT"
          \/ /\ state' = "READY" /\ call = "reset" /\ answered = request
             /\ toClient[1].type = "SUCCESS"
      BY <2>2 DEF ReceiveEnds, Fetching
    <2>4. CASE state' = "DEFUNCT"
      BY <2>4 DEF CleanHandover
    <2>5. CASE call = "reset" /\ answered = request /\ toClient[1].type = "SUCCESS" /\ state' = "READY"
      <3>1. answered = next_id - 1 /\ Len(toClient) > 0 /\ toClient[1].type # "RECORD"
        BY <2>1, <2>5 DEF TypeInv, Counting, Takes
      <3>2. /\ Len(tx) = 0 /\ toClient[1].id = Sent - 1
            /\ Len(toClient) = 1 /\ Len(toServer) = 0
        BY <3>1, LastAnswer
      <3>3. answered' = answered + 1 /\ Len(toClient') = 0
        BY <2>1, <2>5, <3>2 DEF Takes
      <3>4. tx = << >> /\ toServer = << >>
        BY <3>2 DEF TypeInv, MessagesOK
      <3>5. TypeInv'
        BY TypeStep
      <3>6. toClient' = << >>
        BY <3>3, <3>5 DEF TypeInv, MessagesOK
      <3>7. server = "ready"
        BY <2>5, <3>2 DEF LastAnswerTells
      <3>8. answered' = next_id
        BY <3>1, <3>3 DEF TypeInv, TypeOK
      <3> QED BY <2>2, <2>5, <3>4, <3>6, <3>7, <3>8 DEF CleanHandover
    <2> QED BY <2>3, <2>4, <2>5
  <1>6. ASSUME ReceiveFailedReset PROVE CleanHandover'
    BY <1>6 DEF ReceiveFailedReset, Closed, CleanHandover
  <1>7. ASSUME ReceiveBroken PROVE CleanHandover'
    BY <1>7 DEF ReceiveBroken, Fails, Closed, CleanHandover
  <1>8. ASSUME ReceiveTimesOut PROVE CleanHandover'
    BY <1>8 DEF ReceiveTimesOut, Fails, Closed, CleanHandover
  <1>9. ASSUME Lend PROVE CleanHandover'
    BY <1>9 DEF Lend, CleanHandover
  <1>10. ASSUME Retire PROVE CleanHandover'
    BY <1>10 DEF Retire, Closed, CleanHandover
  <1>11. ASSUME Open PROVE CleanHandover'
    BY <1>11 DEF Open, CleanHandover
  <1>12. ASSUME OpenFails PROVE CleanHandover'
    BY <1>12 DEF OpenFails, CleanHandover
  <1>13. ASSUME Release PROVE CleanHandover'
    BY <1>13 DEF Release, CleanHandover
  <1>14. ASSUME Serve PROVE CleanHandover'
    BY <1>14 DEF Serve, CleanHandover
  <1>15. ASSUME Break PROVE CleanHandover'
    <2>1. Breaks
      BY <1>15, BreakBreaks
    <2>2. ASSUME toClient = << >> PROVE toClient' = << >>
      <3>1. TypeInv'
        BY TypeStep
      <3>2. Len(toClient') \in Nat /\ Len(toClient') <= Len(toClient) /\ toClient' \in Seq(Answer)
        BY <2>1, <3>1 DEF Breaks, TypeInv, MessagesOK
      <3> QED BY <2>2, <3>2
    <2> QED BY <1>15, <2>2 DEF Break, CleanHandover
  <1>17. ASSUME LoadFails PROVE CleanHandover'
    BY <1>17 DEF LoadFails, Usable, CleanHandover
  <1>16. ASSUME UNCHANGED vars PROVE CleanHandover'
    BY <1>16 DEF vars, CleanHandover
  <1> QED BY <1>1, <1>2, <1>3, <1>4, <1>5, <1>6, <1>7, <1>8, <1>9, <1>10,
       <1>11, <1>12, <1>13, <1>14, <1>15, <1>16, <1>17 DEF Next

(* The state that the application reads is the server's. *)
LEMMA InStepStep ==
    ASSUME rx = "sound", TypeInv, AnswersInOrder, AnswersBeforeRequests,
           NothingMissing, LastAnswerTells, FailureTold, CleanHandover,
           InStep, [Next]_vars
    PROVE  InStep'
  <1> USE DEF callVars, protocolVars, bufferVars, peerVars, counters
  <1>1. ASSUME NEW kind \in Work, Load(kind) PROVE InStep'
    <2>1. next_id' = next_id + 1 /\ answered' = answered
      BY <1>1 DEF Load, NextId
    <2>2. answered <= next_id /\ answered \in Int /\ next_id \in Int
      BY DEF TypeInv, TypeOK, Counting
    <2>3. answered' # next_id'
      BY <2>1, <2>2
    <2> QED BY <2>3 DEF InStep
  <1>2. ASSUME LoadReset PROVE InStep'
    <2>1. next_id' = next_id + 1 /\ answered' = answered
      BY <1>2 DEF LoadReset, NextId
    <2>2. answered <= next_id /\ answered \in Int /\ next_id \in Int
      BY DEF TypeInv, TypeOK, Counting
    <2>3. answered' # next_id'
      BY <2>1, <2>2
    <2> QED BY <2>3 DEF InStep
  <1>3. ASSUME Send PROVE InStep'
    <2>1. Len(tx) > 0
      BY <1>3 DEF Send, TypeInv, MessagesOK
    <2>2. link = "up" => answered < next_id
      BY <2>1, CounterBehind
    <2>3. UNCHANGED <<answered, next_id, link>> /\ answered \in Int /\ next_id \in Int
      BY <1>3 DEF Send, TypeInv, TypeOK
    <2>4. link' = "up" => answered' # next_id'
      BY <2>2, <2>3
    <2> QED BY <2>4 DEF InStep
  <1>4. ASSUME NEW kind \in {"fetch", "summary"}, Fetch(kind) PROVE InStep'
    BY <1>4 DEF Fetch, Usable, InStep
  <1>5. ASSUME Receive PROVE InStep'
    <2> DEFINE type == toClient[1].type
    <2>1. Takes /\ Message = toClient[1]
      BY <1>5, ReceiveTakes
    <2>2. /\ ReceiveEnds(type) /\ Fetching
          /\ UNCHANGED <<tx, next_id, toServer, server, link>>
      BY <1>5, <2>1, ReceiveCases DEF Receive
    <2> SUFFICES ASSUME Usable', answered' = next_id', link' = "up"
                 PROVE  state' = "FAILED" <=> server' = "failed"
      BY DEF InStep
    <2>3. /\ answered = request /\ call' = "using"
          /\ \/ type = "RECORD"
             \/ type = "SUCCESS" /\ state' = "READY"
             \/ type # "RECORD" /\ state' = StateAfter(type, FailureAfter(type))
      BY <2>2 DEF ReceiveEnds, Fetching, Usable
    <2>4. request < next_id /\ request \in Int /\ next_id \in Int
      BY <2>2, <2>3 DEF TypeInv, TypeOK, Counting
    <2>5. type # "RECORD" /\ answered = next_id - 1
      <3>1. answered' = IF type = "RECORD" THEN answered ELSE answered + 1
        BY <2>1 DEF Takes
      <3>2. answered' = next_id
        BY <2>2
      <3> QED BY <2>3, <2>4, <3>1, <3>2
    <2>6. /\ Len(tx) = 0 /\ toClient[1].id = Sent - 1
          /\ Len(toClient) = 1 /\ Len(toServer) = 0
      BY <2>1, <2>5, LastAnswer DEF Takes
    <2>7. type \in Summaries /\ server \in {"ready", "failed"}
      <3>0. toClient \in Seq(Answer)
        BY DEF TypeInv, MessagesOK
      <3>1. 1 \in 1..Len(toClient)
        BY <2>6
      <3>2. toClient[1] \in Answer
        BY <3>0, <3>1
      <3> QED BY <2>5, <3>2 DEF Answer, TypeInv, TypeOK
    <2>8. CASE type = "SUCCESS"
      <3>1. state' = "READY"
        BY <2>3, <2>8 DEF StateAfter
      <3>2. server = "ready"
        BY <2>6, <2>8 DEF LastAnswerTells
      <3> QED BY <2>2, <3>1, <3>2
    <2>9. CASE type = "FAILURE"
      <3>1. state' = "FAILED"
        BY <2>3, <2>9 DEF StateAfter
      <3>2. server = "failed"
        BY <2>6, <2>9 DEF LastAnswerTells
      <3> QED BY <2>2, <3>1, <3>2
    <2>10. CASE type = "IGNORED"
      <3>1. server = "failed"
        BY <2>6, <2>10 DEF LastAnswerTells
      <3>2. failure
        BY <2>2, <2>6, <2>10, <3>1 DEF FailureTold
      <3>3. state' = "FAILED"
        BY <2>3, <2>10, <3>2 DEF StateAfter, FailureAfter
      <3> QED BY <2>2, <3>1, <3>3
    <2> QED BY <2>7, <2>8, <2>9, <2>10 DEF Summaries
  <1>6. ASSUME ReceiveFailedReset PROVE InStep'
    BY <1>6 DEF ReceiveFailedReset, Closed, InStep
  <1>7. ASSUME ReceiveBroken PROVE InStep'
    BY <1>7 DEF ReceiveBroken, Fails, Closed, Usable, InStep
  <1>8. ASSUME ReceiveTimesOut PROVE InStep'
    BY <1>8 DEF ReceiveTimesOut, Fails, Closed, Usable, InStep
  <1>9. ASSUME Lend PROVE InStep'
    BY <1>9 DEF Lend, Usable, CleanHandover, InStep
  <1>10. ASSUME Retire PROVE InStep'
    BY <1>10 DEF Retire, Closed, InStep
  <1>11. ASSUME Open PROVE InStep'
    BY <1>11 DEF Open, Usable, InStep
  <1>12. ASSUME OpenFails PROVE InStep'
    BY <1>12 DEF OpenFails, InStep
  <1>13. ASSUME Release PROVE InStep'
    BY <1>13 DEF Release, Usable, InStep
  <1>14. ASSUME Serve PROVE InStep'
    <2>1. Len(toServer) > 0 /\ link = "up"
      BY <1>14 DEF Serve, TypeInv, MessagesOK
    <2>2. answered < next_id
      BY <2>1, CounterBehind
    <2>3. UNCHANGED <<answered, next_id>> /\ answered \in Int /\ next_id \in Int
      BY <1>14 DEF Serve, TypeInv, TypeOK
    <2>4. answered' # next_id'
      BY <2>2, <2>3
    <2> QED BY <2>4 DEF InStep
  <1>15. ASSUME Break PROVE InStep'
    BY <1>15 DEF Break, InStep
  <1>17. ASSUME LoadFails PROVE InStep'
    BY <1>17 DEF LoadFails, Usable, InStep
  <1>16. ASSUME UNCHANGED vars PROVE InStep'
    BY <1>16 DEF vars, Usable, InStep
  <1> QED BY <1>1, <1>2, <1>3, <1>4, <1>5, <1>6, <1>7, <1>8, <1>9, <1>10,
       <1>11, <1>12, <1>13, <1>14, <1>15, <1>16, <1>17 DEF Next

-----------------------------------------------------------------------------
(* The theorems *)

(* A connection that was never opened satisfies the type invariant ... *)
LEMMA TypeInit == Init => TypeInv
  <1> SUFFICES ASSUME Init PROVE TypeInv
    OBVIOUS
  <1>1. TypeOK
    <2>1. BitsOK
      BY Zenon DEF Init, BitsOK
    <2>2. NumbersOK
      BY BoundAssumption DEF Init, NumbersOK, States, Fetching, NoRequest, Types
    <2>3. TxNumbered
      BY DEF Init, TxNumbered
    <2>4. StaleOK
      BY BoundAssumption DEF Init, StaleOK
    <2> QED BY <2>1, <2>2, <2>3, <2>4, Zenon DEF TypeOK, BitsOK, NumbersOK, TxNumbered, StaleOK
  <1>2. MessagesOK /\ Counting
    BY BoundAssumption DEF Init, MessagesOK, Counting, Fetching
  <1> QED BY <1>1, <1>2 DEF TypeInv

(* ... and every step keeps it, whatever undefined bytes are read as. *)
THEOREM TypeInvariant == Spec => []TypeInv
  BY TypeInit, TypeStep, PTL DEF Spec

(* The variables keep their types: no request is numbered beyond the RESET *)
(* of the release, response_counter never passes the request that is       *)
(* fetched, and requests that wait in tx_buffer are numbered in order.     *)
THEOREM TypeCorrect == Spec => []TypeOK
  <1>1. TypeInv => TypeOK
    BY DEF TypeInv
  <1> QED BY <1>1, TypeInvariant, PTL

(* The invariant about the messages on their way holds at first ... *)
LEMMA SoundInit == Init => SoundInv
  <1> SUFFICES ASSUME Init PROVE SoundInv
    OBVIOUS
  <1>1. AnswersInOrder /\ AnswersBeforeRequests /\ NothingMissing
    BY DEF Init, AnswersInOrder, AnswersBeforeRequests, NothingMissing
  <1>2. NoHelloLoaded /\ HelloFirst /\ LastAnswerTells /\ FailureTold
    BY DEF Init, NoHelloLoaded, HelloFirst, LastAnswerTells, FailureTold
  <1>3. AnswersMatch /\ CleanHandover /\ InStep
    BY DEF Init, AnswersMatch, CleanHandover, InStep
  <1> QED BY <1>1, <1>2, <1>3 DEF SoundInv, StreamInv

(* ... is kept by every step, one with which a receive fails included ... *)
LEMMA SoundStep ==
    ASSUME rx = "sound", TypeInv, SoundInv, [Next]_vars
    PROVE  SoundInv'
  <1>1. NoHelloLoaded' /\ AnswersInOrder' /\ AnswersBeforeRequests' /\ NothingMissing'
    BY NoHelloStep, InOrderStep, BeforeStep, NothingMissingStep DEF SoundInv, StreamInv
  <1>2. HelloFirst' /\ LastAnswerTells' /\ FailureTold'
    BY HelloFirstStep, LastAnswerStep, FailureToldStep DEF SoundInv, StreamInv
  <1>3. AnswersMatch' /\ CleanHandover' /\ InStep'
    BY MatchStep, HandoverStep, InStepStep DEF SoundInv, StreamInv
  <1> QED BY <1>1, <1>2, <1>3 DEF SoundInv, StreamInv

(* The steps that end the effects of a failed receive *)
LEMMA EndsOfStale ==
    ASSUME rx # "sound", rx' = "sound", [Next]_vars
    PROVE  Open \/ Closed \/ OpenFails
  <1>1. ASSUME Fails PROVE Closed
    <2>1. CASE call # "reset"
      <3>1. /\ stale' \in Garbage
            /\ rx' \in IF stale' = << >> THEN {"stuck"} ELSE {"stale", "stuck"}
        BY <1>1, <2>1 DEF Fails
      <3> QED BY <3>1
    <2> QED BY <1>1, <2>1 DEF Fails
  <1>2. rx' = rx \/ Open \/ Closed \/ OpenFails \/ Fails
    BY DEF Next, vars, Load, LoadFails, LoadReset, Send, Fetch, Receive, ReceiveFailedReset,
       ReceiveBroken, ReceiveTimesOut, Lend, Retire, Release, Serve, Break, bufferVars
  <1> QED BY <1>1, <1>2

(* ... and holds again after the steps that end the effects of a failed    *)
(* receive: the connection is closed, opened anew, or cannot be opened.    *)
LEMMA SoundAgain ==
    ASSUME rx # "sound", rx' = "sound", [Next]_vars
    PROVE  SoundInv'
  <1>1. ASSUME tx' = << >>, toServer' = << >>, toClient' = << >>, link' = "down",
               state' \in {"DISCONNECTED", "DEFUNCT"}, matched' = TRUE
        PROVE  SoundInv'
    <2>1. AnswersInOrder' /\ AnswersBeforeRequests' /\ NothingMissing'
      BY <1>1 DEF AnswersInOrder, AnswersBeforeRequests, NothingMissing
    <2>2. NoHelloLoaded' /\ HelloFirst' /\ LastAnswerTells' /\ FailureTold'
      BY <1>1 DEF NoHelloLoaded, HelloFirst, LastAnswerTells, FailureTold
    <2>3. AnswersMatch' /\ CleanHandover' /\ InStep'
      BY <1>1 DEF AnswersMatch, CleanHandover, InStep
    <2> QED BY <2>1, <2>2, <2>3 DEF SoundInv, StreamInv
  <1>2. ASSUME Open PROVE SoundInv'
    <2>1. /\ tx' = << >> /\ Len(tx') = 0 /\ next_id' = 1 /\ answered' = 0 /\ Sent' = 1
          /\ Len(toServer') = 1 /\ toServer'[1].id = 0 /\ toServer'[1].kind = "HELLO"
          /\ toClient' = << >> /\ Len(toClient') = 0 /\ server' = "ready" /\ link' = "up"
          /\ call' = "hello" /\ state' = "CONNECTED" /\ matched' = TRUE
      BY <1>2 DEF Open, Sent
    <2>2. AnswersInOrder' /\ AnswersBeforeRequests' /\ NothingMissing'
      BY <2>1 DEF AnswersInOrder, AnswersBeforeRequests, NothingMissing
    <2>3. NoHelloLoaded' /\ HelloFirst' /\ LastAnswerTells' /\ FailureTold'
      BY <2>1 DEF NoHelloLoaded, HelloFirst, LastAnswerTells, FailureTold
    <2>4. AnswersMatch' /\ CleanHandover' /\ InStep'
      BY <2>1 DEF AnswersMatch, CleanHandover, InStep, Usable
    <2> QED BY <2>2, <2>3, <2>4 DEF SoundInv, StreamInv
  <1>3. ASSUME Closed PROVE SoundInv'
    BY <1>1, <1>3 DEF Closed
  <1>4. ASSUME OpenFails PROVE SoundInv'
    BY <1>1, <1>4 DEF OpenFails
  <1> QED BY <1>2, <1>3, <1>4, EndsOfStale

LEMMA InvStep == ConnectionInv /\ [Next]_vars => ConnectionInv'
  <1> SUFFICES ASSUME ConnectionInv, [Next]_vars PROVE ConnectionInv'
    OBVIOUS
  <1>1. TypeInv'
    BY TypeStep DEF ConnectionInv
  <1>2. CASE rx = "sound"
    <2>1. SoundInv'
      BY <1>2, SoundStep DEF ConnectionInv
    <2> QED BY <1>1, <2>1 DEF ConnectionInv
  <1>3. CASE rx # "sound"
    <2>1. rx' = "sound" => SoundInv'
      BY <1>3, SoundAgain
    <2> QED BY <1>1, <2>1 DEF ConnectionInv
  <1> QED BY <1>2, <1>3

THEOREM ConnectionInvariant == Spec => []ConnectionInv
  <1>1. Init => ConnectionInv
    BY TypeInit, SoundInit DEF ConnectionInv
  <1>2. ConnectionInv /\ [Next]_vars => ConnectionInv'
    BY InvStep
  <1> QED BY <1>1, <1>2, PTL DEF Spec

(* Counting responses never gets out of step with the server: what a fetch *)
(* returns answers the request that was asked for, however many requests   *)
(* were pipelined, skipped, failed or ignored, and however often the       *)
(* connection was released and lent again.  Only a receive that fails ends *)
(* this, until the connection is closed or opened anew.                    *)
THEOREM FetchReturnsItsAnswer == Spec => []AnswersMatch
  <1>1. ConnectionInv => AnswersMatch
    BY DEF ConnectionInv, SoundInv, AnswersMatch
  <1> QED BY <1>1, ConnectionInvariant, PTL

(* A READY connection in the pool has no request unsent or unanswered, no  *)
(* answer on its way and a server without failure, whatever its borrower   *)
(* left undone or had refused (reset_or_close), if no receive has failed.  *)
THEOREM HandoverIsClean == Spec => []CleanHandover
  <1>1. ConnectionInv => CleanHandover
    BY DEF ConnectionInv, SoundInv, CleanHandover
  <1> QED BY <1>1, ConnectionInvariant, PTL

(* After the answer to its last request the application reads FAILED       *)
(* exactly when the server has failed, if no receive has failed.           *)
THEOREM StateFollowsServer == Spec => []InStep
  <1>1. ConnectionInv => InStep
    BY DEF ConnectionInv, SoundInv, InStep
  <1> QED BY <1>1, ConnectionInvariant, PTL

-----------------------------------------------------------------------------
(* Connections on which undefined bytes never read as messages *)

(* After a failed receive, such a connection is closed by its release or   *)
(* opened anew, and nothing else happens to it.                            *)
LEMMA LostStep ==
    ASSUME MaxStale = 0, ConnectionInv, LostInv, [Next]_vars
    PROVE  LostInv'
  <1> USE DEF callVars, bufferVars
  <1>0. stale = << >> /\ TypeInv /\ (rx = "sound" => matched)
    BY DEF ConnectionInv, TypeInv, TypeOK, SoundInv, AnswersMatch
  <1>1. ASSUME rx' = "sound" PROVE LostInv'
    BY <1>1 DEF LostInv
  <1>2. ASSUME UNCHANGED <<rx, state, matched, call>> PROVE LostInv'
    BY <1>2 DEF LostInv
  <1>3. ASSUME Fails PROVE LostInv'
    <2>1. CASE call = "reset"
      BY <1>1, <1>3, <2>1 DEF Fails, Closed
    <2>2. CASE call # "reset"
      <3>1. /\ stale' \in Garbage
            /\ rx' \in IF stale' = << >> THEN {"stuck"} ELSE {"stale", "stuck"}
            /\ state' = "DEFUNCT" /\ matched' = matched /\ call' \in {"pooled", "using"}
        BY <1>3, <2>2 DEF Fails
      <3>2. PICK n \in 0..MaxStale : stale' \in [1..n -> Types \union {"EMPTY"}]
        BY <3>1 DEF Garbage
      <3>3. stale' = << >>
        BY <3>2
      <3>4. matched
        BY <1>0 DEF LostInv
      <3> QED BY <3>1, <3>3, <3>4 DEF LostInv
    <2> QED BY <2>1, <2>2
  <1>4. CASE rx = "sound"
    <2>1. rx' = rx \/ rx' = "sound" \/ Fails
      BY DEF Next, vars, Load, LoadFails, LoadReset, Send, Fetch, Receive, ReceiveFailedReset,
         ReceiveBroken, ReceiveTimesOut, Lend, Retire, Open, OpenFails, Release, Serve, Break, Closed
    <2> QED BY <1>1, <1>3, <1>4, <2>1
  <1>5. CASE rx # "sound"
    <2>1. rx = "stuck" /\ state = "DEFUNCT" /\ matched /\ call \in {"pooled", "using", "reset"}
      BY <1>5 DEF LostInv
    <2>2. ~Usable /\ ~Receive /\ ~ReceiveFailedReset /\ ~Lend /\ ~Retire
      BY <1>0, <2>1 DEF Usable, Receive, ReceiveFailedReset, HasMessage, Lend, Retire
    <2>3. ASSUME Release PROVE LostInv'
      <3>1. state' = "DEFUNCT" /\ rx' = rx /\ matched' = matched /\ call' = "reset"
        BY <2>1, <2>3 DEF Release, Transmit
      <3> QED BY <2>1, <3>1 DEF LostInv
    <2>4. ASSUME Open \/ OpenFails PROVE LostInv'
      BY <1>1, <2>4 DEF Open, OpenFails
    <2>5. ASSUME ReceiveBroken \/ ReceiveTimesOut PROVE LostInv'
      BY <1>3, <2>5 DEF ReceiveBroken, ReceiveTimesOut
    <2>6. ASSUME Serve \/ Break \/ UNCHANGED vars PROVE LostInv'
      BY <1>2, <2>6 DEF Serve, Break, vars
    <2> QED BY <2>2, <2>3, <2>4, <2>5, <2>6 DEF Next, Load, LoadFails, LoadReset, Send, Fetch
  <1> QED BY <1>4, <1>5

LEMMA LostInvariant == ASSUME MaxStale = 0 PROVE Spec => [](ConnectionInv /\ LostInv)
  <1>1. Init => LostInv
    BY DEF Init, LostInv
  <1>2. ConnectionInv /\ LostInv /\ [Next]_vars => LostInv'
    BY LostStep
  <1> QED BY <1>1, <1>2, ConnectionInvariant, PTL DEF Spec

(* A connection on which a receive has failed (BoltConnection_receive)     *)
(* stays DEFUNCT until it is closed or opened anew: the behaviour of the   *)
(* run connection_out_of_step needs undefined bytes that read as messages. *)
THEOREM FailedReceivesAreFinal == ASSUME MaxStale = 0 PROVE Spec => FailedReceiveIsFinal
  <1> DEFINE Final == rx # "sound" => state' \in {"DEFUNCT", "DISCONNECTED"} \/ opens' > opens
  <1>1. ASSUME ConnectionInv, LostInv, [Next]_vars PROVE [Final]_vars
    <2>1. LostInv'
      BY <1>1, LostStep
    <2>2. ASSUME rx' # "sound", rx # "sound" PROVE Final
      BY <2>1, <2>2 DEF LostInv
    <2>3. ASSUME rx' = "sound", rx # "sound" PROVE Open \/ Closed \/ OpenFails
      BY <1>1, <2>3, EndsOfStale
    <2>4. Open => opens' > opens
      BY <1>1 DEF Open, ConnectionInv, TypeInv, TypeOK
    <2>5. Closed \/ OpenFails => state' \in {"DEFUNCT", "DISCONNECTED"}
      BY DEF Closed, OpenFails
    <2> QED BY <2>2, <2>3, <2>4, <2>5
  <1> QED BY <1>1, LostInvariant, PTL DEF Spec, FailedReceiveIsFinal
=============================================================================
