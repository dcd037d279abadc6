----------------------------- MODULE MCRouterWalk -----------------------------
(* Small wirings for TLC.                                                   *)
EXTENDS RouterWalk
CONSTANTS a, b, HopLimit

\* Every wiring of two nodes whose main port fans out to at most both and
\* whose error port has at most one edge, with every choice of terminals:
\* lines, branches, merges, self-loops and two-node cycles.
AllWirings ==
    {[entry |-> a, out |-> [n \in Nodes |-> [p \in Ports |-> IF p = "error" THEN err[n] ELSE main[n]]],
      terminal |-> t, budget |-> [n \in Nodes |-> IF n = a THEN 2 ELSE 0], hop_limit |-> HopLimit] :
        main \in [Nodes -> {<<>>, <<a>>, <<b>>, <<b, a>>}],
        err \in [Nodes -> {<<>>, <<a>>, <<b>>}],
        t \in [Nodes -> Terminals]}
===============================================================================
