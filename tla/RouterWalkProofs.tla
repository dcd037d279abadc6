--------------------------- MODULE RouterWalkProofs ---------------------------
(***************************************************************************)
(* Proofs about RouterWalk for every wiring: any graph, any terminals, any *)
(* retry budgets and any hop limit.                                        *)
(***************************************************************************)
EXTENDS RouterWalk, FiniteSetTheorems, TLAPS

-----------------------------------------------------------------------------
(* The inductive invariant.                                                 *)

\* Where the driver's loop stands.
Loop ==
    /\ wiring \in Wirings
    /\ invoked => current # NoNode /\ status = "running" /\ ~waiting
    /\ status # "running" => current = NoNode
    /\ current = NoNode => attempt = 0 /\ ~waiting
    /\ answer # "none" => status # "running"

\* What the walk recorded, against how it stands.
Records ==
    /\ verdict = "respond" => caller
    /\ verdict = "discard" => ~caller /\ status = "completed"
    /\ status = "completed" => verdict # "none"
    /\ status = "failed" => failure # NoFailure \/ answer # "none"
    /\ failure # NoFailure => status = "failed"

\* An invocation in progress is a hop of its own.
Hops ==
    /\ \A n \in Nodes :
          visits[n] + (IF current = n THEN IF invoked THEN attempt + 1 ELSE attempt ELSE 0)
             <= hops
    /\ hops <= wiring.hop_limit
    /\ failure.kind = "hop-limit" => hops = wiring.hop_limit

IInv ==
    /\ TypeOK /\ Loop /\ Records /\ Hops /\ RetryBudget
    /\ BoundaryTotal /\ FirstVerdictDelivered

USE DEF Terminals, Kinds, NoFailure, Answers

\* Counting tokens gives numbers.
LEMMA TokensType ==
  ASSUME NEW s \in Seq(Nodes), NEW n
  PROVE  Tokens(s, n) \in Nat
<1>1. DOMAIN s = 1 .. Len(s) /\ Len(s) \in Nat
  OBVIOUS
<1>2. IsFiniteSet(1 .. Len(s))
  BY <1>1, FS_Interval
<1>3. IsFiniteSet({i \in DOMAIN s : s[i] = n})
  BY <1>1, <1>2, FS_Subset
<1> QED
  BY <1>3, FS_CardinalityType DEF Tokens

\* Counting arrivals gives numbers.
LEMMA ArrivingType ==
  ASSUME NEW s \in Seq(Nodes), NEW counts \in [Nodes -> Nat]
  PROVE  Arriving(s, counts) \in [Nodes -> Nat]
  BY TokensType DEF Arriving

\* What is put behind a queue is counted on top of what the queue held.
LEMMA TokensConcat ==
  ASSUME NEW s \in Seq(Nodes), NEW t \in Seq(Nodes), NEW n
  PROVE  Tokens(s \o t, n) = Tokens(s, n) + Tokens(t, n)
<1> DEFINE m == Len(s)
           k == Len(t)
           A == {i \in 1 .. m : s[i] = n}
           C == {j \in 1 .. k : t[j] = n}
           B == {i \in (m + 1) .. (m + k) : t[i - m] = n}
           f == [j \in C |-> j + m]
<1>1. m \in Nat /\ k \in Nat
  OBVIOUS
<1>2. /\ DOMAIN (s \o t) = 1 .. (m + k)
      /\ \A i \in 1 .. m : (s \o t)[i] = s[i]
      /\ \A i \in (m + 1) .. (m + k) : (s \o t)[i] = t[i - m]
  OBVIOUS
<1> HIDE DEF m, k
<1>3. IsFiniteSet(A) /\ IsFiniteSet(B) /\ IsFiniteSet(C)
  <2>1. IsFiniteSet(1 .. m) /\ IsFiniteSet(1 .. k) /\ IsFiniteSet((m + 1) .. (m + k))
    BY <1>1, FS_Interval
  <2> QED
    BY <2>1, FS_Subset
<1>4. Cardinality(B) = Cardinality(C)
  <2>1. f \in [C -> B]
    BY <1>1
  <2>2. \A x, y \in C : f[x] = f[y] => x = y
    BY <1>1
  <2>3. \A z \in B : \E x \in C : f[x] = z
    <3> TAKE z \in B
    <3>1. z - m \in C /\ (z - m) + m = z
      BY <1>1
    <3>2. f[z - m] = z
      BY <3>1
    <3> QED
      BY <3>1, <3>2
  <2> HIDE DEF f
  <2>4. f \in Bijection(C, B)
    BY <2>1, <2>2, <2>3 DEF Bijection, Injection, Surjection, IsInjective
  <2>5. ExistsBijection(C, B)
    BY <2>4 DEF ExistsBijection
  <2> QED
    BY <1>3, <2>5, FS_Bijection
<1>5. A \cap B = {}
  BY <1>1
<1>6. {i \in DOMAIN (s \o t) : (s \o t)[i] = n} = A \cup B
  <2> DEFINE q == s \o t
  <2>1. /\ DOMAIN q = 1 .. (m + k)
        /\ \A i \in 1 .. m : q[i] = s[i]
        /\ \A i \in (m + 1) .. (m + k) : q[i] = t[i - m]
    BY <1>2
  <2> HIDE DEF q
  <2>2. 1 .. (m + k) = (1 .. m) \cup ((m + 1) .. (m + k))
    BY <1>1
  <2>3. {i \in DOMAIN q : q[i] = n} = A \cup B
    BY <2>1, <2>2
  <2> QED
    BY <2>3 DEF q
<1>7. Cardinality(A \cup B) = Cardinality(A) + Cardinality(B)
  <2>1. Cardinality(A \cap B) = 0
    BY <1>5, FS_EmptySet
  <2>2. Cardinality(A) \in Nat /\ Cardinality(B) \in Nat
    BY <1>3, FS_CardinalityType
  <2>3. Cardinality(A \cup B) = Cardinality(A) + Cardinality(B) - Cardinality(A \cap B)
    BY <1>3, FS_Union
  <2> QED
    BY <2>1, <2>2, <2>3
<1>8. Tokens(s, n) = Cardinality(A) /\ Tokens(t, n) = Cardinality(C)
  <2>1. DOMAIN s = 1 .. m /\ DOMAIN t = 1 .. k
    BY DEF m, k
  <2> QED
    BY <2>1 DEF Tokens
<1> QED
  BY <1>4, <1>6, <1>7, <1>8 DEF Tokens

\* A frontier of one token counts it at its node only.
LEMMA TokensSingle ==
  ASSUME NEW x \in Nodes, NEW n
  PROVE  Tokens(<<x>>, n) = IF x = n THEN 1 ELSE 0
<1>1. {i \in DOMAIN <<x>> : <<x>>[i] = n} = IF x = n THEN {1} ELSE {}
  OBVIOUS
<1> QED
  BY <1>1, FS_Singleton, FS_EmptySet DEF Tokens

\* Taking the head of a queue takes one token of its node.
LEMMA TokensTail ==
  ASSUME NEW s \in Seq(Nodes), s # <<>>, NEW n
  PROVE  Tokens(s, n) = Tokens(Tail(s), n) + (IF Head(s) = n THEN 1 ELSE 0)
<1>1. Head(s) \in Nodes /\ Tail(s) \in Seq(Nodes) /\ <<Head(s)>> \in Seq(Nodes)
  OBVIOUS
<1>2. s = <<Head(s)>> \o Tail(s)
  OBVIOUS
<1>3. Tokens(<<Head(s)>> \o Tail(s), n) = Tokens(<<Head(s)>>, n) + Tokens(Tail(s), n)
  BY <1>1, TokensConcat
<1>4. Tokens(s, n) = Tokens(<<Head(s)>>, n) + Tokens(Tail(s), n)
  BY <1>2, <1>3, Zenon
<1>5. Tokens(<<Head(s)>>, n) = IF Head(s) = n THEN 1 ELSE 0
  BY <1>1, TokensSingle
<1>6. Tokens(Tail(s), n) \in Nat
  BY <1>1, TokensType
<1> HIDE DEF Tokens
<1> QED
  BY <1>4, <1>5, <1>6

\* The successors of a port are a sequence of nodes.
LEMMA SuccessorsType ==
  ASSUME Loop, NEW n \in Nodes, NEW p \in Ports
  PROVE  Successors(n, p) \in Seq(Nodes)
  BY WiringsAssumption DEF WiringsAssumption, Loop, Successors

\* The entry token alone satisfies the invariant.
LEMMA InitEstablishes == Init => IInv
<1> SUFFICES ASSUME Init PROVE IInv
  OBVIOUS
<1> USE WiringsAssumption DEF WiringsAssumption, Init
<1>1. wiring.entry \in Nodes /\ wiring.hop_limit \in Nat
  OBVIOUS
<1>2. TypeOK
  <2>1. arrived \in [Nodes -> Nat] /\ visits \in [Nodes -> Nat]
    OBVIOUS
  <2>2. failure \in [node : Nodes \cup {NoNode}, kind : Kinds \cup {"none"}]
    OBVIOUS
  <2>3. frontier \in Seq(Nodes)
    BY <1>1
  <2> QED
    BY <2>1, <2>2, <2>3 DEF TypeOK
<1>3. Loop /\ Records /\ Hops /\ RetryBudget /\ BoundaryTotal /\ FirstVerdictDelivered
  BY <1>1 DEF Loop, Records, Hops, RetryBudget, BoundaryTotal, FirstVerdictDelivered
<1> QED
  BY <1>2, <1>3 DEF IInv

\* The active visit gives up its slot, whether or not it counts as completed.
LEMMA ReleasedHops ==
  ASSUME IInv, invoked, current' = NoNode, UNCHANGED <<wiring, hops>>,
         visits' = visits \/ visits' = [visits EXCEPT ![current] = @ + 1],
         failure' = failure \/ failure'.kind # "hop-limit"
  PROVE  Hops'
<1>1. current \in Nodes /\ visits \in [Nodes -> Nat] /\ attempt \in Nat /\ hops \in Nat
  BY DEF IInv, TypeOK, Loop
<1>2. /\ \A n \in Nodes : visits[n] + (IF current = n THEN attempt + 1 ELSE 0) <= hops
      /\ hops <= wiring.hop_limit
      /\ failure.kind = "hop-limit" => hops = wiring.hop_limit
  BY DEF IInv, Hops
<1>3. \A n \in Nodes : visits'[n] <= hops /\ visits'[n] \in Nat
  BY <1>1, <1>2
<1>4. \A n \in Nodes : current' # n
  BY WiringsAssumption DEF WiringsAssumption
<1> QED
  BY <1>2, <1>3, <1>4 DEF Hops

\* What error_or_fail leaves behind, wherever it is called from.
LEMMA ErrorOrFailKeeps ==
  ASSUME IInv, invoked, NEW kind \in Kinds \ {"hop-limit"}, ErrorOrFail(current, kind),
         UNCHANGED <<wiring, caller, answer>>
  PROVE  IInv'
<1>1. current \in Nodes /\ status = "running" /\ answer = "none" /\ failure = NoFailure
  BY DEF IInv, TypeOK, Loop, Records
<1>2. visits \in [Nodes -> Nat] /\ frontier \in Seq(Nodes) /\ arrived \in [Nodes -> Nat]
  BY DEF IInv, TypeOK
<1>3. Successors(current, "error") \in Seq(Nodes)
  BY <1>1, SuccessorsType, WiringsAssumption DEF WiringsAssumption, IInv
<1>4. /\ current' = NoNode /\ attempt' = 0 /\ waiting' = FALSE /\ invoked' = FALSE
      /\ UNCHANGED <<verdict, hops>>
  BY DEF ErrorOrFail, Clear
<1>5. CASE Fail(current, kind) /\ UNCHANGED <<visits, frontier, arrived>>
  <2>1. failure' = [node |-> current, kind |-> kind] /\ status' = "failed"
    BY <1>5 DEF Fail
  <2>2. failure' \in [node : Nodes \cup {NoNode}, kind : Kinds \cup {"none"}]
    BY <1>1, <2>1
  <2>3. TypeOK'
    BY <1>4, <1>5, <2>1, <2>2 DEF IInv, TypeOK
  <2>4. Loop' /\ Records' /\ RetryBudget' /\ BoundaryTotal' /\ FirstVerdictDelivered'
    BY <1>1, <1>4, <2>1
    DEF IInv, TypeOK, Loop, Records, RetryBudget, BoundaryTotal, FirstVerdictDelivered
  <2>5. Hops'
    BY <1>4, <1>5, <2>1, ReleasedHops
  <2> QED
    BY <2>3, <2>4, <2>5 DEF IInv
<1>6. CASE RouteError(current)
  <2>1. visits' = [visits EXCEPT ![current] = @ + 1] /\ UNCHANGED <<status, failure>>
    BY <1>6 DEF RouteError
  <2>2. /\ frontier' = frontier \o Successors(current, "error")
        /\ arrived' = Arriving(Successors(current, "error"), arrived)
    BY <1>6 DEF RouteError, Enqueue
  <2>3. visits' \in [Nodes -> Nat] /\ frontier' \in Seq(Nodes) /\ arrived' \in [Nodes -> Nat]
    <3>1. visits' \in [Nodes -> Nat]
      BY <1>1, <1>2, <2>1
    <3>2. frontier' \in Seq(Nodes)
      BY <1>2, <1>3, <2>2
    <3>3. arrived' \in [Nodes -> Nat]
      BY <1>2, <1>3, <2>2, ArrivingType
    <3> QED
      BY <3>1, <3>2, <3>3
  <2>4. TypeOK'
    <3>1. /\ status' \in {"running", "completed", "failed", "cancelled"}
          /\ failure' \in [node : Nodes \cup {NoNode}, kind : Kinds \cup {"none"}]
          /\ verdict' \in {"none", "respond", "emit", "discard"}
          /\ answer' \in Answers \cup {"none", "error", "contract-error"}
          /\ hops' \in Nat /\ caller' \in BOOLEAN
      BY <1>4, <2>1 DEF IInv, TypeOK
    <3>2. attempt' \in Nat /\ current' \in Nodes \cup {NoNode}
      BY <1>4
    <3>3. waiting' \in BOOLEAN /\ invoked' \in BOOLEAN
      BY <1>4
    <3> QED
      BY <2>3, <3>1, <3>2, <3>3 DEF TypeOK
  <2>5. Loop' /\ Records' /\ RetryBudget' /\ BoundaryTotal' /\ FirstVerdictDelivered'
    BY <1>1, <1>4, <2>1
    DEF IInv, TypeOK, Loop, Records, RetryBudget, BoundaryTotal, FirstVerdictDelivered
  <2>6. Hops'
    BY <1>1, <1>4, <2>1, ReleasedHops
  <2> QED
    BY <2>4, <2>5, <2>6 DEF IInv
<1> QED
  BY <1>5, <1>6 DEF ErrorOrFail

\* An invocation takes a hop that the limit still has.
LEMMA NextInvokeKeeps == IInv /\ NextInvoke => IInv'
<1> SUFFICES ASSUME IInv, NextInvoke PROVE IInv'
  OBVIOUS
<1>1. Promoted \in Nodes /\ Rest \in Seq(Nodes) /\ (current # NoNode => Promoted = current)
  BY DEF IInv, NextInvoke, MayStep, Promoted, Rest, TypeOK
<1>2. Promoted # NoNode
  BY <1>1, WiringsAssumption DEF WiringsAssumption
<1>3. /\ current' = Promoted /\ frontier' = Rest /\ hops' = hops + 1 /\ invoked' = TRUE
      /\ ~waiting /\ ~invoked /\ status = "running" /\ hops < wiring.hop_limit
      /\ UNCHANGED <<wiring, caller, status, attempt, waiting, visits, failure, verdict,
                     answer, arrived>>
  BY DEF NextInvoke, MayStep
<1>4. /\ attempt \in Nat /\ hops \in Nat /\ visits \in [Nodes -> Nat]
      /\ wiring.hop_limit \in Nat /\ wiring.budget \in [Nodes -> Nat]
      /\ current = NoNode => attempt = 0
  BY WiringsAssumption DEF WiringsAssumption, IInv, TypeOK, Loop
<1>5. TypeOK'
  BY <1>1, <1>3 DEF IInv, TypeOK
<1>6. Loop' /\ Records' /\ BoundaryTotal' /\ FirstVerdictDelivered'
  BY <1>2, <1>3 DEF IInv, Loop, Records, BoundaryTotal, FirstVerdictDelivered
<1>7. Hops'
  <2>1. \A n \in Nodes : visits[n] + (IF current = n THEN attempt ELSE 0) <= hops
    BY <1>3 DEF IInv, Hops
  <2>2. \A n \in Nodes : visits[n] + (IF Promoted = n THEN attempt + 1 ELSE 0) <= hops + 1
    BY <1>1, <1>4, <2>1
  <2>3. failure.kind # "hop-limit"
    BY <1>3 DEF IInv, Records
  <2> QED
    BY <1>3, <1>4, <2>2, <2>3 DEF Hops
<1>8. RetryBudget'
  BY <1>1, <1>2, <1>3, <1>4 DEF IInv, RetryBudget
<1> QED
  BY <1>5, <1>6, <1>7, <1>8 DEF IInv

\* The hop limit fails the walk with every hop spent.
LEMMA NextHopLimitKeeps == IInv /\ NextHopLimit => IInv'
<1> SUFFICES ASSUME IInv, NextHopLimit PROVE IInv'
  OBVIOUS
<1> USE DEF IInv, NextHopLimit, Clear, Fail
<1>1. Promoted \in Nodes /\ Rest \in Seq(Nodes) /\ status = "running" /\ answer = "none"
  BY DEF MayStep, Promoted, Rest, TypeOK, Loop
<1>2. TypeOK'
  <2>1. failure' \in [node : Nodes \cup {NoNode}, kind : Kinds \cup {"none"}]
    BY <1>1
  <2> QED
    BY <1>1, <2>1 DEF TypeOK
<1>3. Loop' /\ Records' /\ BoundaryTotal' /\ FirstVerdictDelivered' /\ RetryBudget'
  BY <1>1 DEF Loop, Records, BoundaryTotal, FirstVerdictDelivered, RetryBudget
<1>4. Hops'
  BY WiringsAssumption DEF WiringsAssumption, MayStep, TypeOK, Loop, Hops
<1> QED
  BY <1>2, <1>3, <1>4

\* A sleep ends and changes nothing that was recorded.
LEMMA NextWaitKeeps == IInv /\ NextWait => IInv'
<1> SUFFICES ASSUME IInv, NextWait PROVE IInv'
  OBVIOUS
<1>1. /\ waiting' = FALSE /\ ~invoked
      /\ UNCHANGED <<wiring, caller, status, frontier, current, attempt, invoked, hops,
                     visits, failure, verdict, answer, arrived>>
  BY DEF NextWait, MayStep
<1>2. TypeOK'
  <2>1. waiting' \in BOOLEAN
    BY <1>1
  <2> QED
    BY <1>1, <2>1 DEF IInv, TypeOK
<1>3. Loop' /\ Records'
  <2>1. Loop'
    BY <1>1 DEF IInv, Loop
  <2>2. Records'
    BY <1>1 DEF IInv, Records
  <2> QED
    BY <2>1, <2>2
<1>4. Hops' /\ RetryBudget' /\ BoundaryTotal' /\ FirstVerdictDelivered'
  BY <1>1 DEF IInv, Hops, RetryBudget, BoundaryTotal, FirstVerdictDelivered
<1> QED
  BY <1>2, <1>3, <1>4 DEF IInv

\* An empty frontier settles to a verdict or to an unreleased caller.
LEMMA SettleKeeps == IInv /\ Settle => IInv'
<1> SUFFICES ASSUME IInv, Settle PROVE IInv'
  OBVIOUS
<1> USE DEF IInv, Settle, Fail
<1>1. wiring.entry \in Nodes /\ answer = "none" /\ failure = NoFailure
  BY WiringsAssumption DEF WiringsAssumption, Loop, Records
<1>2. TypeOK'
  <2>1. failure' \in [node : Nodes \cup {NoNode}, kind : Kinds \cup {"none"}]
    BY <1>1 DEF TypeOK
  <2> QED
    BY <2>1 DEF TypeOK
<1>3. Loop' /\ BoundaryTotal' /\ FirstVerdictDelivered' /\ RetryBudget'
  BY <1>1 DEF Loop, BoundaryTotal, FirstVerdictDelivered, RetryBudget
<1>4. Records'
  BY <1>1 DEF TypeOK, Records
<1>5. Hops'
  BY DEF Hops
<1> QED
  BY <1>2, <1>3, <1>4, <1>5

\* A success records the first verdict, is refused, or moves on.
LEMMA ApplySuccessKeeps ==
  ASSUME IInv, NEW p \in Ports, NEW dedup \in BOOLEAN, ApplySuccess(p, dedup)
  PROVE  IInv'
<1> USE DEF ApplySuccess
<1>1. current \in Nodes /\ status = "running" /\ answer = "none" /\ failure = NoFailure
  BY DEF IInv, TypeOK, Loop, Records
<1>3. CASE Refusal(current, dedup) # "none"
  <2>1. Refusal(current, dedup) \in Kinds \ {"hop-limit"}
    BY <1>3 DEF Refusal
  <2> QED
    BY <1>3, <2>1, ErrorOrFailKeeps
<1>4. CASE Refusal(current, dedup) = "none"
  <2>1. /\ current' = NoNode /\ attempt' = 0 /\ waiting' = FALSE /\ invoked' = FALSE
        /\ visits' = [visits EXCEPT ![current] = @ + 1]
        /\ frontier' = frontier \o Successors(current, p)
        /\ arrived' = Arriving(Successors(current, p), arrived)
        /\ verdict' = IF wiring.terminal[current] = "none" THEN verdict
                      ELSE wiring.terminal[current]
        /\ UNCHANGED <<wiring, caller, answer, status, failure, hops>>
    BY <1>4 DEF Clear, Enqueue
  <2>2. wiring.terminal[current] \in Terminals
    BY <1>1, WiringsAssumption DEF WiringsAssumption, IInv, Loop
  <2>3. Successors(current, p) \in Seq(Nodes)
    BY <1>1, SuccessorsType DEF IInv
  <2>4. visits \in [Nodes -> Nat] /\ frontier \in Seq(Nodes) /\ arrived \in [Nodes -> Nat]
    BY DEF IInv, TypeOK
  <2>5. visits' \in [Nodes -> Nat] /\ frontier' \in Seq(Nodes) /\ arrived' \in [Nodes -> Nat]
    <3>1. visits' \in [Nodes -> Nat]
      BY <1>1, <2>1, <2>4
    <3>2. frontier' \in Seq(Nodes)
      BY <2>1, <2>3, <2>4
    <3>3. arrived' \in [Nodes -> Nat]
      BY <2>1, <2>3, <2>4, ArrivingType
    <3> QED
      BY <3>1, <3>2, <3>3
  <2>6. TypeOK'
    BY <2>1, <2>2, <2>5 DEF IInv, TypeOK
  <2>7. Loop' /\ BoundaryTotal' /\ FirstVerdictDelivered' /\ RetryBudget'
    BY <1>1, <2>1 DEF IInv, Loop, BoundaryTotal, FirstVerdictDelivered, RetryBudget
  <2>8. Records'
    BY <1>1, <1>4, <2>1, <2>2 DEF IInv, TypeOK, Records, Refusal
  <2>9. Hops'
    BY <2>1, ReleasedHops
  <2> QED
    BY <2>6, <2>7, <2>8, <2>9 DEF IInv
<1> QED
  BY <1>3, <1>4

\* A retry is scheduled within the budget, or the error is routed.
LEMMA ApplyRetryableKeeps ==
  ASSUME IInv, NEW delay \in BOOLEAN, ApplyRetryable(delay)
  PROVE  IInv'
<1> USE DEF ApplyRetryable
<1>1. current \in Nodes /\ status = "running" /\ answer = "none"
  BY DEF IInv, TypeOK, Loop
<1>2. CASE MayRetry(current)
  <2>1. /\ attempt' = attempt + 1 /\ waiting' = delay /\ invoked' = FALSE /\ invoked
        /\ UNCHANGED <<wiring, caller, answer, current, frontier, arrived, visits, status,
                       failure, verdict, hops>>
    BY <1>2
  <2>2. attempt \in Nat /\ hops \in Nat /\ visits \in [Nodes -> Nat] /\ current # NoNode
    BY <1>1, WiringsAssumption DEF WiringsAssumption, IInv, TypeOK
  <2>3. TypeOK'
    <3>1. attempt' \in Nat
      BY <2>1, <2>2
    <3>2. waiting' \in BOOLEAN /\ invoked' \in BOOLEAN
      BY <2>1
    <3> HIDE DEF ApplyRetryable
    <3> QED
      BY <2>1, <3>1, <3>2 DEF IInv, TypeOK
  <2>4. Loop' /\ Records' /\ BoundaryTotal' /\ FirstVerdictDelivered'
    BY <1>1, <2>1, <2>2 DEF IInv, Loop, Records, BoundaryTotal, FirstVerdictDelivered
  <2>5. Hops'
    BY <2>1, <2>2 DEF IInv, Hops
  <2>6. RetryBudget'
    BY <1>2, <2>1, <2>2 DEF RetryBudget, MayRetry
  <2> QED
    BY <2>3, <2>4, <2>5, <2>6 DEF IInv
<1>3. CASE ~MayRetry(current)
  BY <1>3, ErrorOrFailKeeps
<1> QED
  BY <1>2, <1>3

\* A node's error follows its error edge or fails the walk.
LEMMA ApplyErrorKeeps ==
  ASSUME IInv, NEW kind \in {"terminal", "invalid-input"}, ApplyError(kind)
  PROVE  IInv'
  BY ErrorOrFailKeeps DEF ApplyError

\* A cancellation ends the walk and leaves the verdict.
LEMMA ApplyCancelledKeeps == IInv /\ ApplyCancelled => IInv'
<1> SUFFICES ASSUME IInv, ApplyCancelled PROVE IInv'
  OBVIOUS
<1> USE DEF IInv, ApplyCancelled, Clear
<1>1. TypeOK' /\ Loop' /\ BoundaryTotal' /\ FirstVerdictDelivered' /\ RetryBudget'
  BY DEF TypeOK, Loop, BoundaryTotal, FirstVerdictDelivered, RetryBudget
<1>2. Records'
  BY DEF TypeOK, Loop, Records
<1>3. Hops'
  BY WiringsAssumption DEF WiringsAssumption, TypeOK, Loop, Hops
<1> QED
  BY <1>1, <1>2, <1>3

\* The boundary's answer follows the recorded outcome.
LEMMA DeliverKeeps == IInv /\ Deliver => IInv'
<1> SUFFICES ASSUME IInv, Deliver PROVE IInv'
  OBVIOUS
<1> USE DEF IInv, Deliver, walkVars
<1>1. RouterAction(status, failure, verdict) \in Answers
  BY DEF TypeOK, Records, RouterAction
<1>2. verdict # "none" => RouterAction(status, failure, verdict) = verdict
  BY DEF TypeOK, Records, RouterAction
<1> QED
  BY <1>1, <1>2 DEF TypeOK, Loop, Records, Hops, RetryBudget, BoundaryTotal,
                    FirstVerdictDelivered

\* An invocation that errs ends the walk and leaves the verdict.
LEMMA InvokeFailsKeeps == IInv /\ InvokeFails => IInv'
<1> SUFFICES ASSUME IInv, InvokeFails PROVE IInv'
  OBVIOUS
<1> USE DEF IInv, InvokeFails, Clear
<1>1. status = "running" /\ verdict # "discard" /\ (verdict = "respond" => caller)
  BY DEF Loop, Records
<1>2. verdict # "none" => RouterAction("failed", NoFailure, verdict) = verdict
  BY <1>1 DEF TypeOK, RouterAction
<1>3. TypeOK' /\ Loop' /\ RetryBudget'
  BY <1>2 DEF TypeOK, Loop, RetryBudget
<1>4. Records' /\ BoundaryTotal' /\ FirstVerdictDelivered'
  BY <1>1, <1>2 DEF TypeOK, Records, BoundaryTotal, FirstVerdictDelivered
<1>5. Hops'
  BY WiringsAssumption DEF WiringsAssumption, TypeOK, Loop, Hops
<1> QED
  BY <1>3, <1>4, <1>5

\* Every step preserves the invariant: one case per action.
LEMMA NextKeeps == IInv /\ [Next]_vars => IInv'
<1> SUFFICES ASSUME IInv, [Next]_vars PROVE IInv'
  OBVIOUS
<1>1. CASE UNCHANGED vars \/ Done
  BY <1>1 DEF Done, vars, IInv, TypeOK, Loop, Records, Hops, RetryBudget, BoundaryTotal,
              FirstVerdictDelivered
<1>2. CASE NextInvoke \/ NextHopLimit \/ NextWait \/ Settle
  BY <1>2, NextInvokeKeeps, NextHopLimitKeeps, NextWaitKeeps, SettleKeeps
<1>3. CASE \E p \in Ports, dedup \in BOOLEAN : ApplySuccess(p, dedup)
  BY <1>3, ApplySuccessKeeps
<1>4. CASE \E delay \in BOOLEAN : ApplyRetryable(delay)
  BY <1>4, ApplyRetryableKeeps
<1>5. CASE \E kind \in {"terminal", "invalid-input"} : ApplyError(kind)
  BY <1>5, ApplyErrorKeeps
<1>6. CASE ApplyCancelled \/ InvokeFails \/ Deliver
  BY <1>6, ApplyCancelledKeeps, InvokeFailsKeeps, DeliverKeeps
<1> QED
  BY <1>1, <1>2, <1>3, <1>4, <1>5, <1>6 DEF Next

-----------------------------------------------------------------------------
(* The account of tokens.                                                   *)

Active(n) == IF current = n THEN 1 ELSE 0

\* While the walk runs, the account of tokens has no slack.
LEMMA RunningIsExact ==
  ASSUME IInv, TokensConserved, status = "running"
  PROVE  \A n \in Nodes :
            /\ arrived[n] = visits[n] + Tokens(frontier, n) + Active(n)
            /\ arrived[n] \in Nat /\ visits[n] \in Nat /\ Tokens(frontier, n) \in Nat
<1> TAKE n \in Nodes
<1>1. arrived[n] \in Nat /\ visits[n] \in Nat /\ frontier \in Seq(Nodes)
  BY DEF IInv, TypeOK
<1>2. Tokens(frontier, n) \in Nat
  BY <1>1, TokensType
<1>3. LET kept == visits[n] + Tokens(frontier, n) + Active(n)
      IN  arrived[n] \in kept .. (kept + 0)
  BY DEF TokensConserved, Active
<1> QED
  BY <1>1, <1>2, <1>3 DEF Active

\* A completed visit's token becomes the tokens behind its port.
LEMMA RoutedConserves ==
  ASSUME IInv, TokensConserved, invoked, NEW q \in Seq(Nodes), current' = NoNode,
         visits' = [visits EXCEPT ![current] = @ + 1], frontier' = frontier \o q,
         arrived' = Arriving(q, arrived), status' = "running"
  PROVE  TokensConserved'
<1>1. current \in Nodes /\ status = "running" /\ frontier \in Seq(Nodes)
      /\ visits \in [Nodes -> Nat]
  BY DEF IInv, TypeOK, Loop
<1> SUFFICES ASSUME NEW n \in Nodes
             PROVE  /\ arrived'[n] = visits'[n] + Tokens(frontier', n)
                    /\ visits'[n] \in Nat /\ Tokens(frontier', n) \in Nat /\ current' # n
  BY DEF TokensConserved
<1>2. current' # n
  BY WiringsAssumption DEF WiringsAssumption
<1>3. Tokens(frontier', n) = Tokens(frontier, n) + Tokens(q, n) /\ Tokens(q, n) \in Nat
  BY <1>1, TokensConcat, TokensType
<1>4. /\ arrived[n] = visits[n] + Tokens(frontier, n) + Active(n)
      /\ arrived[n] \in Nat /\ visits[n] \in Nat /\ Tokens(frontier, n) \in Nat
  BY <1>1, RunningIsExact
<1>5. arrived'[n] = arrived[n] + Tokens(q, n)
  BY DEF Arriving
<1>6. visits'[n] = visits[n] + Active(n)
  BY <1>1, <1>4 DEF Active
<1>7. Active(n) \in {0, 1}
  BY DEF Active
<1> QED
  BY <1>2, <1>3, <1>4, <1>5, <1>6, <1>7

\* The visit that ends the walk is the one token nobody accounts for.
LEMMA DroppedConserves ==
  ASSUME IInv, TokensConserved, status = "running", current' = NoNode,
         status' \in {"failed", "cancelled"}, UNCHANGED <<visits, arrived>>,
         NEW x \in Nodes,
         \A n \in Nodes : /\ Tokens(frontier', n) \in Nat
                          /\ Tokens(frontier, n) + Active(n)
                                = Tokens(frontier', n) + (IF x = n THEN 1 ELSE 0)
  PROVE  TokensConserved'
<1> SUFFICES ASSUME NEW n \in Nodes
             PROVE  /\ arrived[n] \in (visits[n] + Tokens(frontier', n)) ..
                                      (visits[n] + Tokens(frontier', n) + 1)
                    /\ visits[n] \in Nat /\ Tokens(frontier', n) \in Nat /\ current' # n
  BY DEF TokensConserved
<1>1. current' # n
  BY WiringsAssumption DEF WiringsAssumption
<1>2. /\ arrived[n] = visits[n] + Tokens(frontier, n) + Active(n)
      /\ arrived[n] \in Nat /\ visits[n] \in Nat /\ Tokens(frontier, n) \in Nat
  BY RunningIsExact
<1>3. Active(n) \in {0, 1}
  BY DEF Active
<1> QED
  BY <1>1, <1>2, <1>3

\* A walk that ends drops at most the token it was on.
LEMMA CutConserves ==
  ASSUME IInv, TokensConserved, invoked, current' = NoNode,
         status' \in {"failed", "cancelled"}, UNCHANGED <<visits, arrived, frontier>>
  PROVE  TokensConserved'
<1>1. status = "running" /\ current \in Nodes /\ frontier \in Seq(Nodes)
  BY DEF IInv, TypeOK, Loop
<1>2. \A n \in Nodes : /\ Tokens(frontier', n) \in Nat
                        /\ Tokens(frontier, n) + Active(n)
                              = Tokens(frontier', n) + (IF current = n THEN 1 ELSE 0)
  BY <1>1, TokensType DEF Active
<1> QED
  BY <1>1, <1>2, DroppedConserves

\* An error route moves the active token, a failure drops it.
LEMMA ErrorOrFailConserves ==
  ASSUME IInv, TokensConserved, invoked, NEW kind, ErrorOrFail(current, kind)
  PROVE  TokensConserved'
<1>1. current \in Nodes /\ status = "running" /\ current' = NoNode
  BY DEF IInv, TypeOK, Loop, ErrorOrFail, Clear
<1>2. Successors(current, "error") \in Seq(Nodes)
  BY <1>1, SuccessorsType, WiringsAssumption DEF WiringsAssumption, IInv
<1>3. CASE Fail(current, kind) /\ UNCHANGED <<visits, frontier, arrived>>
  BY <1>1, <1>3, CutConserves DEF Fail
<1>4. CASE RouteError(current)
  BY <1>1, <1>2, <1>4, RoutedConserves DEF RouteError, Enqueue
<1> QED
  BY <1>3, <1>4 DEF ErrorOrFail

\* Promotion moves one token from the queue's head to the active slot.
LEMMA PromotionConserves ==
  ASSUME IInv, MayStep
  PROVE  /\ Promoted \in Nodes /\ Rest \in Seq(Nodes)
         /\ \A n \in Nodes :
               /\ Tokens(frontier, n) \in Nat /\ Tokens(Rest, n) \in Nat
               /\ Tokens(frontier, n) + Active(n)
                     = Tokens(Rest, n) + (IF Promoted = n THEN 1 ELSE 0)
<1>1. frontier \in Seq(Nodes) /\ NoNode \notin Nodes
  BY WiringsAssumption DEF WiringsAssumption, IInv, TypeOK
<1>2. Promoted \in Nodes /\ Rest \in Seq(Nodes)
  BY DEF IInv, TypeOK, MayStep, Promoted, Rest
<1>3. ASSUME NEW n \in Nodes
      PROVE  /\ Tokens(frontier, n) \in Nat /\ Tokens(Rest, n) \in Nat
             /\ Tokens(frontier, n) + Active(n)
                   = Tokens(Rest, n) + (IF Promoted = n THEN 1 ELSE 0)
  <2>1. Tokens(frontier, n) \in Nat /\ Tokens(Rest, n) \in Nat
    BY <1>1, <1>2, TokensType
  <2>2. CASE current = NoNode
    <3>1. frontier # <<>> /\ Rest = Tail(frontier) /\ Promoted = Head(frontier)
      BY <2>2 DEF MayStep, Rest, Promoted
    <3>2. Tokens(frontier, n) = Tokens(Tail(frontier), n)
                                  + (IF Head(frontier) = n THEN 1 ELSE 0)
      BY <1>1, <3>1, TokensTail
    <3>3. Active(n) = 0
      BY <1>1, <2>2 DEF Active
    <3> QED
      BY <2>1, <3>1, <3>2, <3>3
  <2>3. CASE current # NoNode
    BY <2>1, <2>3 DEF Rest, Promoted, Active
  <2> QED
    BY <2>1, <2>2, <2>3
<1> QED
  BY <1>2, <1>3

\* Every step conserves tokens.
LEMMA StepConserves ==
  ASSUME IInv, TokensConserved, [Next]_vars
  PROVE  TokensConserved'
<1>1. CASE NextInvoke
  <2> SUFFICES ASSUME NEW n \in Nodes
               PROVE  /\ arrived'[n] = visits'[n] + Tokens(frontier', n)
                                          + (IF current' = n THEN 1 ELSE 0)
                      /\ visits'[n] \in Nat /\ Tokens(frontier', n) \in Nat
                      /\ status' = "running"
    BY DEF TokensConserved
  <2>1. /\ MayStep /\ current' = Promoted /\ frontier' = Rest /\ status = "running"
        /\ UNCHANGED <<visits, arrived, status>>
    BY <1>1 DEF NextInvoke, MayStep
  <2>2. /\ Tokens(frontier, n) + Active(n) = Tokens(Rest, n) + (IF Promoted = n THEN 1 ELSE 0)
        /\ Tokens(Rest, n) \in Nat
    BY <2>1, PromotionConserves
  <2>3. /\ arrived[n] = visits[n] + Tokens(frontier, n) + Active(n)
        /\ visits[n] \in Nat /\ Tokens(frontier, n) \in Nat
    BY <2>1, RunningIsExact
  <2>4. Active(n) \in {0, 1}
    BY DEF Active
  <2> QED
    BY <2>1, <2>2, <2>3, <2>4
<1>2. CASE NextHopLimit
  <2>1. /\ MayStep /\ current' = NoNode /\ frontier' = Rest /\ status = "running"
        /\ UNCHANGED <<visits, arrived>> /\ status' = "failed"
    BY <1>2 DEF NextHopLimit, MayStep, Clear, Fail
  <2>2. /\ Promoted \in Nodes
        /\ \A n \in Nodes :
              /\ Tokens(frontier', n) \in Nat
              /\ Tokens(frontier, n) + Active(n)
                    = Tokens(frontier', n) + (IF Promoted = n THEN 1 ELSE 0)
    BY <2>1, PromotionConserves
  <2> QED
    BY <2>1, <2>2, DroppedConserves
<1>3. CASE NextWait \/ Deliver \/ Done \/ UNCHANGED vars
  BY <1>3 DEF NextWait, Deliver, Done, vars, walkVars, TokensConserved
<1>4. CASE Settle
  <2>1. UNCHANGED <<visits, arrived, frontier, current>> /\ status = "running"
    BY <1>4 DEF Settle
  <2> SUFFICES ASSUME NEW n \in Nodes
               PROVE  /\ arrived[n] = visits[n] + Tokens(frontier, n)
                                         + (IF current = n THEN 1 ELSE 0)
                      /\ visits[n] \in Nat /\ Tokens(frontier, n) \in Nat
    BY <2>1 DEF TokensConserved
  <2> QED
    BY <2>1, RunningIsExact DEF Active
<1>5. ASSUME NEW p \in Ports, NEW dedup \in BOOLEAN, ApplySuccess(p, dedup)
      PROVE  TokensConserved'
  <2>1. current \in Nodes /\ status = "running" /\ invoked
    BY <1>5 DEF IInv, TypeOK, Loop, ApplySuccess
  <2>2. CASE Refusal(current, dedup) # "none"
    BY <1>5, <2>1, <2>2, ErrorOrFailConserves DEF ApplySuccess
  <2>3. CASE Refusal(current, dedup) = "none"
    <3>1. Successors(current, p) \in Seq(Nodes)
      BY <2>1, SuccessorsType DEF IInv
    <3>2. /\ current' = NoNode /\ visits' = [visits EXCEPT ![current] = @ + 1]
          /\ frontier' = frontier \o Successors(current, p)
          /\ arrived' = Arriving(Successors(current, p), arrived) /\ status' = status
      BY <1>5, <2>3 DEF ApplySuccess, Clear, Enqueue
    <3> QED
      BY <2>1, <3>1, <3>2, RoutedConserves
  <2> QED
    BY <2>2, <2>3
<1>6. ASSUME NEW delay \in BOOLEAN, ApplyRetryable(delay)
      PROVE  TokensConserved'
  <2>1. CASE MayRetry(current)
    BY <1>6, <2>1 DEF ApplyRetryable, TokensConserved
  <2>2. CASE ~MayRetry(current)
    BY <1>6, <2>2, ErrorOrFailConserves DEF ApplyRetryable
  <2> QED
    BY <2>1, <2>2
<1>7. ASSUME NEW kind \in {"terminal", "invalid-input"}, ApplyError(kind)
      PROVE  TokensConserved'
  BY <1>7, ErrorOrFailConserves DEF ApplyError
<1>8. CASE ApplyCancelled \/ InvokeFails
  BY <1>8, CutConserves DEF ApplyCancelled, InvokeFails, Clear
<1> QED
  BY <1>1, <1>2, <1>3, <1>4, <1>5, <1>6, <1>7, <1>8 DEF Next

-----------------------------------------------------------------------------
(* The theorems.                                                            *)

\* The inductive invariant holds on every walk of every wiring.
THEOREM WalkInvariance == Spec => []IInv
<1>1. Init => IInv
  BY InitEstablishes
<1>2. IInv /\ [Next]_vars => IInv'
  BY NextKeeps
<1> QED
  BY <1>1, <1>2, PTL DEF Spec

\* The walk's variables keep their types.
THEOREM WalkTypeCorrect == Spec => []TypeOK
<1>1. IInv => TypeOK
  BY DEF IInv
<1> QED
  BY <1>1, WalkInvariance, PTL

\* WALK-1: visits and retries stay within the hop limit.
THEOREM HopLimitHolds == Spec => []HopsAccounted
<1>1. IInv => HopsAccounted
  BY DEF IInv, TypeOK, Hops, HopsAccounted
<1> QED
  BY <1>1, WalkInvariance, PTL

\* WALK-3 and WALK-4: no token runs twice and none is lost.
THEOREM TokensAreConserved == Spec => []TokensConserved
<1>1. Init => TokensConserved
  <2> SUFFICES ASSUME Init PROVE TokensConserved
    OBVIOUS
  <2>1. wiring.entry \in Nodes /\ NoNode \notin Nodes /\ status = "running"
    BY WiringsAssumption DEF WiringsAssumption, Init
  <2>2. ASSUME NEW n \in Nodes
        PROVE  /\ arrived[n] = Tokens(frontier, n) /\ Tokens(frontier, n) \in Nat
               /\ visits[n] = 0 /\ current # n
    <3>1. Tokens(frontier, n) = IF wiring.entry = n THEN 1 ELSE 0
      BY <2>1, TokensSingle DEF Init
    <3> QED
      BY <2>1, <3>1 DEF Init
  <2> QED
    BY <2>1, <2>2 DEF TokensConserved
<1>2. IInv /\ TokensConserved /\ [Next]_vars => TokensConserved'
  BY StepConserves
<1> QED
  BY <1>1, <1>2, WalkInvariance, PTL DEF Spec

\* WALK-4: no visit passes its node's retry budget.
THEOREM RetryBudgetHolds == Spec => []RetryBudget
<1>1. IInv => RetryBudget
  BY DEF IInv
<1> QED
  BY <1>1, WalkInvariance, PTL

\* No walk of any wiring ends in an outcome that production_router_action
\* refuses as a contract error.
THEOREM BoundaryIsTotal == Spec => []BoundaryTotal
<1>1. IInv => BoundaryTotal
  BY DEF IInv
<1> QED
  BY <1>1, WalkInvariance, PTL

\* What the boundary does is what the first terminal node recorded.
THEOREM FirstVerdictIsDelivered == Spec => []FirstVerdictDelivered
<1>1. IInv => FirstVerdictDelivered
  BY DEF IInv
<1> QED
  BY <1>1, WalkInvariance, PTL

\* A recorded verdict is never replaced.
THEOREM VerdictIsFinal == Spec => VerdictStands
<1>1. IInv /\ [Next]_vars => [verdict # "none" => verdict' = verdict]_vars
  <2> SUFFICES ASSUME IInv, [Next]_vars, verdict # "none" PROVE verdict' = verdict
    OBVIOUS
  <2>1. ASSUME NEW p \in Ports, NEW dedup \in BOOLEAN, ApplySuccess(p, dedup)
        PROVE  verdict' = verdict
    BY <2>1 DEF ApplySuccess, Refusal, ErrorOrFail
  <2>2. CASE ~\E p \in Ports, dedup \in BOOLEAN : ApplySuccess(p, dedup)
    BY <2>2 DEF Next, vars, walkVars, NextInvoke, NextHopLimit, NextWait, Settle, ApplyRetryable,
       ApplyError, ErrorOrFail, ApplyCancelled, InvokeFails, Deliver, Done
  <2> QED
    BY <2>1, <2>2
<1> QED
  BY <1>1, WalkInvariance, PTL DEF Spec, VerdictStands

===============================================================================
