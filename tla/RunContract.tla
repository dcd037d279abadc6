----------------------------- MODULE RunContract ------------------------------
(***************************************************************************)
(* What the durable run queue promises to the producer of a run: the run   *)
(* is admitted once, it is leased a bounded number of times, it ends once  *)
(* with one outcome that stands, it never ends without having been leased, *)
(* and an outcome that claims an event was emitted is true.                *)
(***************************************************************************)
EXTENDS Naturals

CONSTANTS Runs, MaxLeases, Outcomes

VARIABLES
    stage,    \* stage[r]: "absent", "pending" or "done"
    epoch,    \* epoch[r]: the leases granted so far
    outcome,  \* outcome[r]: "none" until the run ends
    emitted   \* the runs whose event is on the stream

Init ==
    /\ stage = [r \in Runs |-> "absent"]
    /\ epoch = [r \in Runs |-> 0]
    /\ outcome = [r \in Runs |-> "none"]
    /\ emitted = {}

Admit(r) ==
    /\ stage[r] = "absent"
    /\ stage' = [stage EXCEPT ![r] = "pending"]
    /\ UNCHANGED <<epoch, outcome, emitted>>

Lease(r) ==
    /\ stage[r] = "pending" /\ epoch[r] < MaxLeases
    /\ epoch' = [epoch EXCEPT ![r] = @ + 1]
    /\ UNCHANGED <<stage, outcome, emitted>>

\* The emission is at least once and outside the fence: a holder that lost
\* its lease may still emit, even after the run ended.
Emit(r) ==
    /\ epoch[r] > 0
    /\ emitted' = emitted \cup {r}
    /\ UNCHANGED <<stage, epoch, outcome>>

End(r, o) ==
    /\ stage[r] = "pending" /\ epoch[r] > 0
    /\ o = "event" => r \in emitted
    /\ stage' = [stage EXCEPT ![r] = "done"]
    /\ outcome' = [outcome EXCEPT ![r] = o]
    /\ UNCHANGED <<epoch, emitted>>

Next ==
    \E r \in Runs :
        Admit(r) \/ Lease(r) \/ Emit(r) \/ \E o \in Outcomes : End(r, o)

vars == <<stage, epoch, outcome, emitted>>

Spec == Init /\ [][Next]_vars
===============================================================================
