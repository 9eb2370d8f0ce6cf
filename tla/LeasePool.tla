----------------------------- MODULE LeasePool -----------------------------
(***************************************************************************)
(* What a bounded pool of connections promises to its clients, whatever    *)
(* happens on the network: a connection is leased to one client at a time, *)
(* a client is refused because the pool is full only at a moment when      *)
(* every connection is leased, and a network error is reported only while  *)
(* some connection was there to be tried.  DirectPool implements this.     *)
(***************************************************************************)
CONSTANTS Client,    \* the callers of acquire and release
          Conn,      \* the connections of the pool
          NoClient   \* the holder of a connection that is not leased

VARIABLES lease,     \* lease[c]: the client that c is leased to, or NoClient
          answer     \* answer[k]: what client k was last told

vars == <<lease, answer>>

Refusals == {"POOL_FULL", "TIMED_OUT", "NOT_RESOLVED", "CONNECTION_ERROR"}

Init == /\ lease = [c \in Conn |-> NoClient]
        /\ answer = [k \in Client |-> "NONE"]

(* A client with no lease asks; its previous answer is forgotten. *)
Ask(k) == /\ \A c \in Conn : lease[c] # k
          /\ answer' = [answer EXCEPT ![k] = "NONE"]
          /\ UNCHANGED lease

Grant(k, c) == /\ lease[c] = NoClient
               /\ \A d \in Conn : lease[d] # k
               /\ answer[k] = "NONE"
               /\ lease' = [lease EXCEPT ![c] = k]
               /\ answer' = [answer EXCEPT ![k] = "SUCCESS"]

RefuseFull(k) == /\ answer[k] = "NONE"
                 /\ \A c \in Conn : lease[c] # NoClient
                 /\ answer' = [answer EXCEPT ![k] = "POOL_FULL"]
                 /\ UNCHANGED lease

RefuseLate(k) == /\ answer[k] = "NONE"
                 /\ answer' = [answer EXCEPT ![k] = "TIMED_OUT"]
                 /\ UNCHANGED lease

(* The connection that was tried could not be brought up. *)
RefuseBroken(k) == /\ answer[k] = "NONE"
                   /\ \E c \in Conn : lease[c] = NoClient
                   /\ \E e \in {"NOT_RESOLVED", "CONNECTION_ERROR"} :
                         answer' = [answer EXCEPT ![k] = e]
                   /\ UNCHANGED lease

GiveBack(k, c) == /\ lease[c] = k
                  /\ lease' = [lease EXCEPT ![c] = NoClient]
                  /\ UNCHANGED answer

Next == \E k \in Client :
           \/ Ask(k) \/ RefuseFull(k) \/ RefuseLate(k) \/ RefuseBroken(k)
           \/ \E c \in Conn : Grant(k, c) \/ GiveBack(k, c)

Spec == Init /\ [][Next]_vars
=============================================================================
