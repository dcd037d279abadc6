--------------------------- MODULE MCEventWorkflows ---------------------------
(* A small instance of EventWorkflows for TLC.                                *)
EXTENDS EventWorkflows, TLC
CONSTANTS r1, r2, w1, w2

\* Both versions of w1 run on a row; the second refuses an odd row, whose old
\* image it wants and does not get.  w2 has one version and ignores an odd row.
Decisions ==
    (w1 :> (1 :> ("row" :> "deliver" @@ "odd" :> "deliver" @@ "poison" :> "skip")
         @@ 2 :> ("row" :> "deliver" @@ "odd" :> "refuse" @@ "poison" :> "skip")))
    @@
    (w2 :> [v \in {1, 2} |-> "row" :> "deliver" @@ "odd" :> "skip" @@ "poison" :> "skip"])

\* Replicas are interchangeable.
Interchange == Permutations(Replicas)

TwoAndOne == w1 :> {1, 2} @@ w2 :> {1}
===============================================================================
