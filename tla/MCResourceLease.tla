--------------------------- MODULE MCResourceLease ---------------------------
(* Small instances of ResourceLease for TLC.                                  *)
EXTENDS ResourceLease, TLC
CONSTANTS h1, a, b, x, y, p1, p2

\* Two connections of two resource keys, or of one: the second takes the place
\* of the first in the registry.
TwoKeys == (a :> x) @@ (b :> y)
OneKey == (a :> x) @@ (b :> x)

OneHost == [p \in Callers |-> h1]
Both == [p \in Callers |-> Connections]
==============================================================================
