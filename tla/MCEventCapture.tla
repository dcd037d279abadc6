---------------------------- MODULE MCEventCapture ----------------------------
(* Small instances of EventCapture for TLC.                                 *)
EXTENDS EventCapture

Other == [own |-> FALSE, rows |-> 0]
Txn(n) == [own |-> TRUE, rows |-> n]

\* A write of another database between two transactions; a transaction that
\* publishes nothing before one that fills the pipeline.
Histories == {<<Txn(1), Other, Txn(1)>>, <<Txn(0), Txn(2)>>}

\* One unpublished transaction is enough for a gap.
OneGap == {<<Txn(1), Other>>, <<Other, Txn(2)>>}
===============================================================================
