---------------------------- MODULE MCDirectPool ----------------------------
(* DirectPool for TLC: clients are interchangeable model values. *)
EXTENDS DirectPool, TLC

Symmetry == Permutations(Client)

AllFaults == {"resolve", "open", "init", "reset"}
OpensNeverFail == {"reset"}
=============================================================================
