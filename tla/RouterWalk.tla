------------------------------ MODULE RouterWalk ------------------------------
(***************************************************************************)
(* The router's walk: one delivery carried through a wiring, a graph of    *)
(* nodes whose edges leave on ports, by the driver's loop next / invoke /  *)
(* apply, and the translation of its outcome at the run-store boundary.    *)
(*                                                                         *)
(* A token is the node it enters: payloads, input ports and configuration  *)
(* are data the walk only carries.  The clock is one bit: the backoff of   *)
(* the active node has, or has not, passed.                                *)
(***************************************************************************)
EXTENDS Naturals, Sequences, FiniteSets

CONSTANTS
    Nodes,
    Ports,      \* output ports, the reserved "error" port among them
    Wirings,    \* the compiled wirings that a delivery may meet
    NoNode

Terminals == {"none", "respond", "emit"}

\* What Wiring::compile checks: the entry and every edge's end are nodes.
\* out[n][p] lists the targets of port p in ordinal order, and budget[n] is
\* the retry policy's max_attempts.
ASSUME WiringsAssumption ==
    /\ "error" \in Ports /\ NoNode \notin Nodes
    /\ \A w \in Wirings :
          /\ w.entry \in Nodes
          /\ w.out \in [Nodes -> [Ports -> Seq(Nodes)]]
          /\ w.terminal \in [Nodes -> Terminals]
          /\ w.budget \in [Nodes -> Nat]
          /\ w.hop_limit \in Nat

VARIABLES
    wiring,     \* the delivery's wiring
    caller,     \* caller_attached: a synchronous caller waits
    status,     \* WalkStatus
    frontier,   \* the queue of tokens
    current,    \* the active node, or NoNode
    attempt,    \* retries of the active node's visit
    waiting,    \* now_ms < retry_until_ms
    invoked,    \* a NodeCall was handed out and has not been answered
    hops,       \* invocations handed out
    visits,     \* visits[n]: completed visits, the source of occurrence
    failure,    \* the recorded Failure
    verdict,    \* the recorded Verdict's kind
    answer,     \* what the boundary does with the outcome
    arrived     \* arrived[n]: tokens that were put on the frontier for n

walkVars == <<status, frontier, current, attempt, waiting, invoked, hops,
              visits, failure, verdict, arrived>>
vars == <<wiring, caller, status, frontier, current, attempt, waiting, invoked,
          hops, visits, failure, verdict, answer, arrived>>

Kinds == {"terminal", "retry-exhausted", "invalid-input", "hop-limit",
          "unreleased-caller", "missing-dedup-id", "respond-without-caller",
          "second-verdict"}
NoFailure == [node |-> NoNode, kind |-> "none"]
Answers == {"respond", "emit", "discard", "failed", "cancelled"}

\* start: the entry node holds the delivery's payload.
Init ==
    /\ wiring \in Wirings /\ caller \in BOOLEAN
    /\ status = "running"
    /\ frontier = <<wiring.entry>>
    /\ current = NoNode
    /\ attempt = 0 /\ waiting = FALSE /\ invoked = FALSE /\ hops = 0
    /\ visits = [n \in Nodes |-> 0]
    /\ failure = NoFailure
    /\ verdict = "none" /\ answer = "none"
    /\ arrived = [n \in Nodes |-> IF n = wiring.entry THEN 1 ELSE 0]

-----------------------------------------------------------------------------
(* Helpers.                                                                 *)

Successors(n, p) == wiring.out[n][p]

\* How many of the tokens in s enter n.
Tokens(s, n) == Cardinality({i \in DOMAIN s : s[i] = n})

Arriving(s, counts) == [n \in Nodes |-> counts[n] + Tokens(s, n)]

\* Mutant of MayRetry: the budget counts retries, not attempts.
MayRetryLate(n) == attempt < (IF wiring.budget[n] = 0 THEN 1 ELSE wiring.budget[n])

\* RetryPolicy::may_retry; max_attempts 0 is treated as 1.
MayRetry(n) == attempt + 1 < (IF wiring.budget[n] = 0 THEN 1 ELSE wiring.budget[n])

\* enqueue_successors, after the active slot was cleared.
Enqueue(n, p) ==
    /\ frontier' = frontier \o Successors(n, p)
    /\ arrived' = Arriving(Successors(n, p), arrived)

Clear ==
    current' = NoNode /\ attempt' = 0 /\ waiting' = FALSE /\ invoked' = FALSE

Fail(n, kind) ==
    /\ status' = "failed"
    /\ failure' = [node |-> n, kind |-> kind]

\* Mutant of RouteError: an error-routed visit is not counted.
RouteErrorUncounted(n) ==
    /\ Enqueue(n, "error")
    /\ UNCHANGED <<visits, status, failure>>

\* route_error: an error-routed emission is a completed visit.
RouteError(n) ==
    /\ visits' = [visits EXCEPT ![n] = @ + 1]
    /\ Enqueue(n, "error")
    /\ UNCHANGED <<status, failure>>

\* error_or_fail: down the node's error edge, or the walk fails.
ErrorOrFail(n, kind) ==
    /\ Clear
    /\ IF Successors(n, "error") = <<>>
       THEN Fail(n, kind) /\ UNCHANGED <<visits, frontier, arrived>>
       ELSE RouteError(n)
    /\ UNCHANGED <<verdict, hops>>

-----------------------------------------------------------------------------
(* Wiring::next.                                                            *)

\* The token that next makes, or keeps, active.
Promoted == IF current = NoNode THEN Head(frontier) ELSE current
MayStep == status = "running" /\ ~invoked /\ (current # NoNode \/ frontier # <<>>)
Rest == IF current = NoNode THEN Tail(frontier) ELSE frontier

\* Mutant of NextInvoke: the retries of a visit are not counted as hops.
NextInvokeFreeRetry ==
    /\ MayStep /\ ~waiting /\ hops < wiring.hop_limit
    /\ current' = Promoted /\ frontier' = Rest
    /\ hops' = IF attempt > 0 THEN hops ELSE hops + 1
    /\ invoked' = TRUE
    /\ UNCHANGED <<wiring, caller, status, attempt, waiting, visits, failure, verdict,
                   answer, arrived>>

\* Hand out one invocation.
NextInvoke ==
    /\ MayStep /\ ~waiting /\ hops < wiring.hop_limit
    /\ current' = Promoted /\ frontier' = Rest
    /\ hops' = hops + 1
    /\ invoked' = TRUE
    /\ UNCHANGED <<wiring, caller, status, attempt, waiting, visits, failure, verdict,
                   answer, arrived>>

\* The hop limit is spent: failed, and never down an error edge.
NextHopLimit ==
    /\ MayStep /\ ~waiting /\ hops >= wiring.hop_limit
    /\ Clear
    /\ frontier' = Rest
    /\ Fail(Promoted, "hop-limit")
    /\ UNCHANGED <<wiring, caller, hops, visits, verdict, answer, arrived>>

\* Mutant of NextWait: the driver asks again on the clock it had.
NextWaitStale == MayStep /\ waiting /\ UNCHANGED vars

\* A scheduled retry that is not due: the driver sleeps until it is.
NextWait ==
    /\ MayStep /\ waiting
    /\ waiting' = FALSE
    /\ UNCHANGED <<wiring, caller, status, frontier, current, attempt, invoked, hops,
                   visits, failure, verdict, answer, arrived>>

\* Mutant of Settle: an empty frontier discards, caller or not.
SettleDiscards ==
    /\ status = "running" /\ ~invoked /\ current = NoNode /\ frontier = <<>>
    /\ status' = "completed"
    /\ verdict' = IF verdict = "none" THEN "discard" ELSE verdict
    /\ UNCHANGED <<wiring, caller, frontier, current, attempt, waiting, invoked, hops,
                   visits, failure, answer, arrived>>

\* settle: a recorded verdict stands; otherwise a discard, unless a caller is
\* still waiting.
Settle ==
    /\ status = "running" /\ ~invoked /\ current = NoNode /\ frontier = <<>>
    /\ IF verdict = "none" /\ caller
       THEN Fail(wiring.entry, "unreleased-caller") /\ UNCHANGED verdict
       ELSE /\ status' = "completed"
            /\ verdict' = IF verdict = "none" THEN "discard" ELSE verdict
            /\ UNCHANGED failure
    /\ UNCHANGED <<wiring, caller, frontier, current, attempt, waiting, invoked, hops,
                   visits, answer, arrived>>

-----------------------------------------------------------------------------
(* Wiring::apply, with the driver's fail_on_node_data when it refuses.      *)

\* terminal_verdict: why the success of terminal node n records no verdict.
Refusal(n, dedup) ==
    IF wiring.terminal[n] = "none" THEN "none"
    ELSE IF verdict # "none" THEN "second-verdict"
    ELSE IF wiring.terminal[n] = "respond" /\ ~caller THEN "respond-without-caller"
    ELSE IF wiring.terminal[n] = "emit" /\ ~dedup THEN "missing-dedup-id"
    ELSE "none"

\* The node emits on port p; dedup: the payload carries a dedup-id string.
ApplySuccess(p, dedup) ==
    LET n == current IN
    /\ invoked
    /\ IF Refusal(n, dedup) # "none"
       THEN ErrorOrFail(n, Refusal(n, dedup))
       ELSE /\ Clear
            /\ visits' = [visits EXCEPT ![n] = @ + 1]
            /\ verdict' = IF wiring.terminal[n] = "none" THEN verdict ELSE wiring.terminal[n]
            /\ Enqueue(n, p)
            /\ UNCHANGED <<status, failure, hops>>
    /\ UNCHANGED <<wiring, caller, answer>>

\* retryable or rate-limited: the same visit again, now or after a backoff,
\* until the budget is spent.
ApplyRetryable(delay) ==
    LET n == current IN
    /\ invoked
    /\ IF MayRetry(n)
       THEN /\ attempt' = attempt + 1
            /\ waiting' = delay /\ invoked' = FALSE
            /\ UNCHANGED <<current, frontier, arrived, visits, status, failure, verdict,
                           hops>>
       ELSE ~delay /\ ErrorOrFail(n, "retry-exhausted")
    /\ UNCHANGED <<wiring, caller, answer>>

\* terminal and invalid-input are never retried.
ApplyError(kind) ==
    /\ invoked
    /\ ErrorOrFail(current, kind)
    /\ UNCHANGED <<wiring, caller, answer>>

ApplyCancelled ==
    /\ invoked
    /\ Clear
    /\ status' = "cancelled"
    /\ UNCHANGED <<wiring, caller, frontier, hops, visits, failure, verdict, answer,
                   arrived>>

-----------------------------------------------------------------------------
(* The driver's return, and production_router_action.                       *)

\* Mutant of RouterAction: the status is read before the verdict.
RouterActionByStatus(s, f, v) ==
    IF s = "failed" THEN (IF f # NoFailure THEN "failed" ELSE "contract-error")
    ELSE IF s = "cancelled" THEN "cancelled"
    ELSE IF (v = "respond" /\ ~caller) \/ (v = "discard" /\ caller) THEN "contract-error"
    ELSE IF v # "none" THEN v ELSE "contract-error"

\* The verdict first: it stands even when later work failed or cancelled.
RouterAction(s, f, v) ==
    IF (v = "respond" /\ ~caller) \/ (v = "discard" /\ caller) THEN "contract-error"
    ELSE IF v # "none" THEN v
    ELSE IF s = "failed" /\ f # NoFailure THEN "failed"
    ELSE IF s = "cancelled" THEN "cancelled"
    ELSE "contract-error"

\* Step::Done.
Deliver ==
    /\ status # "running" /\ answer = "none"
    /\ answer' = RouterAction(status, failure, verdict)
    /\ UNCHANGED <<wiring, caller, walkVars>>

\* The invocation itself fails (authorization, a missing fact, a trap): a
\* recorded verdict is returned, on a failed walk without a failure; else the
\* error leaves the driver.
InvokeFails ==
    /\ invoked
    /\ Clear
    /\ status' = "failed"
    /\ answer' = IF verdict # "none" THEN RouterAction("failed", NoFailure, verdict)
                 ELSE "error"
    /\ UNCHANGED <<wiring, caller, frontier, hops, visits, failure, verdict, arrived>>

Done == answer # "none" /\ UNCHANGED vars

Next ==
    \/ NextInvoke \/ NextHopLimit \/ NextWait \/ Settle
    \/ \E p \in Ports, dedup \in BOOLEAN : ApplySuccess(p, dedup)
    \/ \E delay \in BOOLEAN : ApplyRetryable(delay)
    \/ \E kind \in {"terminal", "invalid-input"} : ApplyError(kind)
    \/ ApplyCancelled \/ InvokeFails
    \/ Deliver \/ Done

Spec == Init /\ [][Next]_vars

\* Every node call returns (its deadline bounds it) and every sleep ends.
LiveSpec == Spec /\ WF_vars(Next)

-----------------------------------------------------------------------------
(* Properties.                                                              *)

\* The walk's state and what the boundary does with it keep their types.
TypeOK ==
    /\ caller \in BOOLEAN
    /\ status \in {"running", "completed", "failed", "cancelled"}
    /\ frontier \in Seq(Nodes)
    /\ current \in Nodes \cup {NoNode}
    /\ attempt \in Nat /\ waiting \in BOOLEAN /\ invoked \in BOOLEAN /\ hops \in Nat
    /\ visits \in [Nodes -> Nat]
    /\ failure \in [node : Nodes \cup {NoNode}, kind : Kinds \cup {"none"}]
    /\ verdict \in {"none", "respond", "emit", "discard"}
    /\ answer \in Answers \cup {"none", "error", "contract-error"}
    /\ arrived \in [Nodes -> Nat]

\* WALK-3 and WALK-4 as an account of tokens: every token that ever arrived at
\* a node is on the frontier, is the active visit, is a completed visit, or is
\* the one that ended the walk; none runs twice and none is lost, through
\* retries, error routes, refused verdicts and merges.
TokensConserved ==
    \A n \in Nodes :
        LET ended == IF status \in {"failed", "cancelled"} THEN 1 ELSE 0
            kept  == visits[n] + Tokens(frontier, n) + (IF current = n THEN 1 ELSE 0)
        IN  arrived[n] \in kept .. (kept + ended)

\* WALK-4: no visit runs more often than its node's budget, 0 read as 1.
RetryBudget ==
    current # NoNode => attempt < (IF wiring.budget[current] = 0 THEN 1
                                   ELSE wiring.budget[current])

\* WALK-1: an invocation is a hop whether it starts a visit or retries one, so
\* the completed visits of a node and the invocations of its visit in progress
\* stay within the limit together, and a walk only fails by the limit when
\* every hop of it was spent.
HopsAccounted ==
    /\ \A n \in Nodes :
          visits[n] + (IF current = n THEN IF invoked THEN attempt + 1 ELSE attempt ELSE 0)
              <= hops
    /\ hops <= wiring.hop_limit
    /\ failure.kind = "hop-limit" => hops = wiring.hop_limit

\* production_router_action's four contract errors never happen: a response
\* has its caller, a discard has none, a completed walk has a verdict, a
\* failed one a failure or a verdict that stands.
BoundaryTotal == answer # "contract-error"

\* The first verdict is the boundary's truth: a response or an event that a
\* terminal node recorded is what the boundary does, whatever fails, cancels
\* or responds after it.
FirstVerdictDelivered ==
    answer # "none" /\ verdict # "none" => answer = verdict

\* One delivery ends once: a recorded verdict is never replaced.
VerdictStands == [][verdict # "none" => verdict' = verdict]_vars

\* WALK-1: every walk ends, cyclic wirings included.
WalkEnds == <>(answer # "none")

\* UnreleasedCaller's comment: a caller that no respond node released fails
\* the walk, so a completed walk has answered its caller.
CallerReleased ==
    status = "completed" /\ caller => verdict = "respond"
===============================================================================
