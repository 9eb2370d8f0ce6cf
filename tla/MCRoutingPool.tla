--------------------------- MODULE MCRoutingPool ---------------------------
(* Instances of RoutingPool for TLC. *)
EXTENDS RoutingPool

(* The members of the cluster route; one of them writes, some read. *)
Complete(W) == {t \in Tables : t.ROUTE = t.READ \cup t.WRITE /\ t.READ # {} /\ t.WRITE \in W}

CompleteResponses == Complete({{a} : a \in Addr})

(* During an election there is no writer. *)
ElectionResponses == Complete({{}})

AllResponses == CompleteResponses \cup ElectionResponses
=============================================================================
