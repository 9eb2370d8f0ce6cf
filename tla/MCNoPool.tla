------------------------------ MODULE MCNoPool ------------------------------
(* Instances of NoPool: the hosts the address may resolve to. *)
EXTENDS NoPool
CONSTANTS H1, H2
OneOrTwo == {<<H1>>, <<H1, H2>>}
TwoEitherWay == {<<H1, H2>>, <<H2, H1>>}
=============================================================================
