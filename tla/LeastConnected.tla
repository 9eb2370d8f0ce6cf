--------------------------- MODULE LeastConnected ---------------------------
(***************************************************************************)
(* The choice of a server by BoltRoutingPool_select_least_connected: one   *)
(* pass over the servers of a role that starts at a place of its own and   *)
(* reads one in_use_count after another.  Selecting threads hold the read  *)
(* lock together, so the servers stay, but the counts move under their     *)
(* eyes as connections are acquired and released.                          *)
(***************************************************************************)
EXTENDS Integers, FiniteSets

CONSTANTS Selector,       \* threads that select a server for the same role
          Size,           \* servers->size
          MaxUse,         \* bound: the largest in_use_count
          MaxSelections   \* bound: selections that are begun

ASSUME SelectorAssumption == IsFiniteSet(Selector)
ASSUME SizeAssumption == Size \in Nat \ {0}
ASSUME BoundAssumption == MaxUse \in Nat /\ MaxSelections \in Nat

VARIABLES offset,   \* pool->readers_offset or pool->writers_offset
          in_use,   \* the in_use_count of the direct pool of each server
          start,    \* start_index of each selector
          looked,   \* how many servers the selector has looked at
          best,     \* index of least_connected_server; None is NULL
          least,    \* least_connected
          picks,    \* how often each server has been selected
          level     \* all servers have been equally used all the time

vars == <<offset, in_use, start, looked, best, least, picks, level>>

Indexes == 0..(Size - 1)
None == -1
IntMax == MaxUse + 1   \* INT_MAX, above every count

NotSelecting == -1
Selecting(k) == start[k] # NotSelecting

(* The server that a pass from s looks at after n others. *)
At(s, n) == (s + n) % Size

Init ==
    /\ offset = 0
    /\ in_use \in [Indexes -> 0..MaxUse]
    /\ start = [k \in Selector |-> NotSelecting]
    /\ looked = [k \in Selector |-> 0]
    /\ best = [k \in Selector |-> None]
    /\ least = [k \in Selector |-> IntMax]
    /\ picks = [i \in Indexes |-> 0]
    /\ level = (\A i, j \in Indexes : in_use[i] = in_use[j])

(* Mutant: every pass starts with the first server. *)
StartIndex_First(n) == 0

StartIndex(n) == n % Size

(* BoltAtomic_increment on the offset of the role returns the new value. *)
Begin(k) ==
    /\ ~Selecting(k)
    /\ offset < MaxSelections
    /\ offset' = offset + 1
    /\ start' = [start EXCEPT ![k] = StartIndex(offset + 1)]
    /\ looked' = [looked EXCEPT ![k] = 0]
    /\ best' = [best EXCEPT ![k] = None]
    /\ least' = [least EXCEPT ![k] = IntMax]
    /\ UNCHANGED <<in_use, picks, level>>

Better(count, leastSoFar) == count < leastSoFar

(* One turn of the loop: read the count of the next server. *)
Look(k) ==
    LET i == At(start[k], looked[k])
        count == in_use[i]
    IN
        /\ Selecting(k)
        /\ looked[k] < Size
        /\ looked' = [looked EXCEPT ![k] = @ + 1]
        /\ IF Better(count, least[k])
           THEN /\ best' = [best EXCEPT ![k] = i]
                /\ least' = [least EXCEPT ![k] = count]
           ELSE UNCHANGED <<best, least>>
        /\ UNCHANGED <<offset, in_use, start, picks, level>>

(* The pass is back at start_index: its server is returned. *)
Finish(k) ==
    /\ Selecting(k)
    /\ looked[k] = Size
    /\ picks' = [picks EXCEPT ![best[k]] = @ + 1]
    /\ start' = [start EXCEPT ![k] = NotSelecting]
    /\ UNCHANGED <<offset, in_use, looked, best, least, level>>

(* A connection of server i is acquired or released. *)
Use(i, count) ==
    /\ count \in {in_use[i] - 1, in_use[i] + 1} \cap (0..MaxUse)
    /\ in_use' = [in_use EXCEPT ![i] = count]
    /\ level' = FALSE
    /\ UNCHANGED <<offset, start, looked, best, least, picks>>

Next == \/ \E k \in Selector : Begin(k) \/ Look(k) \/ Finish(k)
        \/ \E i \in Indexes, count \in 0..MaxUse : Use(i, count)

Spec == Init /\ [][Next]_vars

-----------------------------------------------------------------------------
(* Properties *)

(* "Start at an index that round-robins": while all servers are equally    *)
(* used, the load is spread evenly, also when threads select at once.  The *)
(* picks of two servers differ by one at most when nobody is selecting.    *)
SpreadsEvenly ==
    level /\ (\A k \in Selector : ~Selecting(k)) =>
        \A i, j \in Indexes : picks[i] <= picks[j] + 1
=============================================================================
