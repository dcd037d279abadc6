------------------------------ MODULE MCRunQueue ------------------------------
(* Small instances of RunQueue for TLC.                                     *)
EXTENDS RunQueue, TLC
CONSTANTS h1, h2, h3, r1, r2, relA, relB, own1

\* Every replica runs under one WAMN_RUNNER (or the default) name.
SharedOwner == [h \in Hosts |-> own1]

\* Every replica carries the same release.
OneRelease == [h \in Hosts |-> relA]

\* A rollout: h3 carries the next release.
Rollout == [h \in Hosts |-> IF h = h3 THEN relB ELSE relA]

\* Replicas of one release are interchangeable (safety runs only).
Replicas == Permutations(Hosts)
OldReplicas == Permutations(Hosts \ {h3})
===============================================================================
