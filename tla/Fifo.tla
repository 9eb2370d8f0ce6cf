-------------------------------- MODULE Fifo --------------------------------
(***************************************************************************)
(* What a channel promises: the items that one side has put into it come   *)
(* out at the other side in the same order, each once, none invented.      *)
(***************************************************************************)
EXTENDS Sequences, Naturals

CONSTANT Items \* what may be put into the channel

VARIABLES
    put, \* all that was put in, in order
    got  \* all that was taken out, in order

Init ==
    /\ put = <<>>
    /\ got = <<>>

Put(item) ==
    /\ put' = Append(put, item)
    /\ UNCHANGED got

Get ==
    /\ Len(got) < Len(put)
    /\ got' = Append(got, put[Len(got) + 1])
    /\ UNCHANGED put

Next == Get \/ \E item \in Items : Put(item)

Spec == Init /\ [][Next]_<<put, got>>
=============================================================================
