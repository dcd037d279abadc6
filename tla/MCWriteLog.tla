----------------------------- MODULE MCWriteLog -----------------------------
(* A small instance of WriteLogClients for TLC.                              *)
EXTENDS WriteLogClients, TLC
CONSTANTS s1, s2, plain, i1, i2, c1, c2

At(k, i) == [key |-> k, input |-> i]

\* Two keys with SQL in both orders, one of them with two inputs, a repeated
\* key, and a key without SQL, whose finished row may expire.
SomeCalls == { <<At(s1, i1), At(s2, i1)>>, <<At(s2, i1), At(s1, i2)>>,
               <<At(s1, i1), At(s1, i2)>>, <<At(plain, i1)>> }
==============================================================================
