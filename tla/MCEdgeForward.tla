---------------------------- MODULE MCEdgeForward ----------------------------
(* A small instance of EdgeForward for TLC: the route of the first sample has  *)
(* SQL, the route of the second has none.                                      *)
EXTENDS EdgeForward, TLC
CONSTANTS body, c1, c2

\* The calls of the two samples.
SampleCalls == {<<[key |-> k, input |-> body]>> : k \in 1..2}
==============================================================================
