---------------------------- MODULE RunQueueProofs ----------------------------
(***************************************************************************)
(* Proofs about RunQueue for every set of hosts, runs and releases, every  *)
(* assignment of owner names, and every attempt budget.                    *)
(***************************************************************************)
EXTENDS RunQueue, TLAPS

-----------------------------------------------------------------------------
(* The inductive invariant.                                                 *)

\* What the run row says about its queue row.
Rows ==
    \A r \in Runs :
        /\ r \in queued <=> status[r] \in Runnable
        /\ r \notin queued => lease[r] = "none"
        /\ status[r] \in {"absent", "dispatched"} =>
              gen[r] = 0 /\ attempts[r] = 0 /\ lease[r] = "none"
        /\ status[r] \notin {"absent", "dispatched"} => gen[r] > 0
        /\ avail[r] = "parked" => status[r] = "dispatched"

\* What a host's step says about its run and its plan.
Steps ==
    \A h \in Hosts :
        /\ held[h] # NoRun <=> pc[h] \in Working
        /\ pc[h] = "publish" => plan[h] = "event"
        /\ pc[h] = "report" => plan[h] \in Plans
        /\ pc[h] = "commit" => plan[h] \in Outcomes
        /\ pc[h] = "commit" /\ plan[h] = "event" => held[h] \in published

\* A host's fence is a generation that was granted, and granted to it only.
Tokens ==
    /\ \A h \in Hosts : held[h] # NoRun => fence[h] > 0 /\ fence[h] <= gen[held[h]]
    /\ \A a, b \in Hosts :
          a # b /\ held[a] # NoRun /\ held[a] = held[b] => fence[a] # fence[b]

\* What a generation says about the events and the reports of its run.
Effects ==
    \A r \in Runs :
        /\ r \in published => gen[r] > 0
        /\ report[r] <= gen[r]
        /\ reason[r] = "event" => r \in published

IInv ==
    TypeOK /\ Rows /\ Steps /\ Tokens /\ Effects /\ RedeliveryBudget

USE DEF Runnable, Terminal, Outcomes, Plans, Reasons, Working, PCs,
        runVars, queueVars, hostVars

\* Empty tables and idle hosts satisfy the invariant.
LEMMA InitEstablishes == Init => IInv
  BY ConstantsAssumption
  DEF ConstantsAssumption, Init, IInv, TypeOK, RunsType, QueueType, HostType,
      Rows, Steps, Tokens, Effects, RedeliveryBudget

\* A step that leaves both tables and the stream alone disturbs only what is
\* said of the hosts.
LEMMA TablesUntouched ==
  ASSUME IInv, UNCHANGED <<runVars, queueVars, published>>, HostType', Steps', Tokens'
  PROVE  IInv'
  BY DEF IInv, TypeOK, RunsType, QueueType, Rows, Effects, RedeliveryBudget

\* A step that leaves the hosts and the generations alone disturbs only what
\* is said of the tables.
LEMMA HostsUntouched ==
  ASSUME IInv, UNCHANGED <<hostVars, gen, published>>,
         RunsType', QueueType', HostType', Rows', Effects', RedeliveryBudget'
  PROVE  IInv'
  BY DEF IInv, TypeOK, Steps, Tokens

\* A host that gives up its run gives up its fence.
LEMMA IdleHost ==
  ASSUME IInv, NEW h \in Hosts, Idle(h), UNCHANGED admitting,
         published \subseteq published', \A r \in Runs : gen[r] <= gen'[r], QueueType'
  PROVE  HostType' /\ Steps' /\ Tokens'
<1> USE ConstantsAssumption DEF ConstantsAssumption, Idle, IInv, TypeOK, HostType, QueueType
<1>1. HostType'
  OBVIOUS
<1>2. Steps'
  BY DEF Steps
<1>3. Tokens'
  BY DEF Tokens
<1> QED
  BY <1>1, <1>2, <1>3

\* A host that moves on keeps its run and its fence.
LEMMA AdvancingHost ==
  ASSUME IInv, NEW h \in Hosts, NEW p \in PCs, Advance(h, p), UNCHANGED <<admitting, gen>>,
         held[h] # NoRun <=> p \in Working
  PROVE  HostType' /\ Tokens'
  BY DEF IInv, TypeOK, HostType, QueueType, Advance, Tokens

\* A turn of the serve loop begins without a run.
LEMMA BeginTurnKeeps ==
  ASSUME IInv, NEW h \in Hosts, BeginTurn(h)
  PROVE  IInv'
<1> USE DEF BeginTurn
<1>1. HostType' /\ Tokens'
  BY AdvancingHost DEF IInv, Steps
<1>2. Steps'
  BY DEF IInv, TypeOK, RunsType, QueueType, HostType, Steps, Advance
<1> QED
  BY <1>1, <1>2, TablesUntouched

\* A turn of the drain begins without a run.
LEMMA DrainTurnKeeps ==
  ASSUME IInv, NEW h \in Hosts, DrainTurn(h)
  PROVE  IInv'
<1> USE DEF DrainTurn
<1>1. HostType' /\ Tokens'
  BY AdvancingHost DEF IInv, Steps
<1>2. Steps'
  BY DEF IInv, TypeOK, RunsType, QueueType, HostType, Steps, Advance
<1> QED
  BY <1>1, <1>2, TablesUntouched

\* A host whose drain ends holds no run.
LEMMA DrainExitKeeps ==
  ASSUME IInv, NEW h \in Hosts, DrainExit(h)
  PROVE  IInv'
<1> USE DEF DrainExit
<1>1. HostType' /\ Tokens'
  BY AdvancingHost DEF IInv, Steps
<1>2. Steps'
  BY DEF IInv, TypeOK, RunsType, QueueType, HostType, Steps, Advance
<1> QED
  BY <1>1, <1>2, TablesUntouched

\* A janitor pass that ends nothing goes on to the claim.
LEMMA ReapEmptyKeeps ==
  ASSUME IInv, NEW h \in Hosts, ReapEmpty(h)
  PROVE  IInv'
<1> USE DEF ReapEmpty
<1>1. HostType' /\ Tokens'
  BY AdvancingHost DEF IInv, Steps
<1>2. Steps'
  BY DEF IInv, TypeOK, RunsType, QueueType, HostType, Steps, Advance
<1> QED
  BY <1>1, <1>2, TablesUntouched

\* The resolved principal changes the step and keeps the fence.
LEMMA CallerResolvedKeeps ==
  ASSUME IInv, NEW h \in Hosts, CallerResolved(h)
  PROVE  IInv'
<1> USE DEF CallerResolved
<1>1. HostType' /\ Tokens'
  BY AdvancingHost DEF IInv, Steps
<1>2. Steps'
  BY DEF IInv, TypeOK, RunsType, QueueType, HostType, Steps, Advance
<1> QED
  BY <1>1, <1>2, TablesUntouched

\* A claim that finds nothing ends the turn.
LEMMA ClaimEmptyKeeps ==
  ASSUME IInv, NEW h \in Hosts, ClaimEmpty(h)
  PROVE  IInv'
<1>1. HostType' /\ Steps' /\ Tokens'
  BY IdleHost DEF ClaimEmpty, IInv, TypeOK, QueueType
<1> QED
  BY <1>1, TablesUntouched DEF ClaimEmpty

\* A holder that lost its lease gives up its run.
LEMMA HeartbeatLostKeeps ==
  ASSUME IInv, NEW h \in Hosts, HeartbeatLost(h)
  PROVE  IInv'
<1>1. HostType' /\ Steps' /\ Tokens'
  BY IdleHost DEF HeartbeatLost, IInv, TypeOK, QueueType
<1> QED
  BY <1>1, TablesUntouched DEF HeartbeatLost

\* An error of the turn gives up the run and leaves its rows.
LEMMA TurnErrorKeeps ==
  ASSUME IInv, NEW h \in Hosts, TurnError(h)
  PROVE  IInv'
<1>1. HostType' /\ Steps' /\ Tokens'
  BY IdleHost DEF TurnError, IInv, TypeOK, QueueType
<1> QED
  BY <1>1, TablesUntouched DEF TurnError

\* The stop signal changes the phase alone.
LEMMA StopKeeps ==
  ASSUME IInv, NEW h \in Hosts, Stop(h)
  PROVE  IInv'
<1>1. HostType'
  BY ConstantsAssumption DEF ConstantsAssumption, Stop, IInv, TypeOK, HostType
<1>2. Steps' /\ Tokens'
  BY ConstantsAssumption DEF ConstantsAssumption, Stop, IInv, TypeOK, HostType, QueueType, Steps, Tokens
<1> QED
  BY <1>1, <1>2, TablesUntouched DEF Stop

\* The closed ingress changes the phase alone.
LEMMA AdmissionClosedKeeps ==
  ASSUME IInv, NEW h \in Hosts, AdmissionClosed(h)
  PROVE  IInv'
<1>1. HostType'
  BY ConstantsAssumption DEF ConstantsAssumption, AdmissionClosed, IInv, TypeOK, HostType
<1>2. Steps' /\ Tokens'
  BY ConstantsAssumption DEF ConstantsAssumption, AdmissionClosed, IInv, TypeOK, HostType, QueueType, Steps, Tokens
<1> QED
  BY <1>1, <1>2, TablesUntouched DEF AdmissionClosed

\* A dead process holds no run and no fence.
LEMMA CrashKeeps ==
  ASSUME IInv, NEW h \in Hosts, Crash(h)
  PROVE  IInv'
<1>1. HostType'
  BY ConstantsAssumption DEF ConstantsAssumption, Crash, IInv, TypeOK, HostType
<1>2. Steps' /\ Tokens'
  BY ConstantsAssumption DEF ConstantsAssumption, Crash, IInv, TypeOK, HostType, QueueType, Steps, Tokens
<1> QED
  BY <1>1, <1>2, TablesUntouched DEF Crash

\* A new process starts without a run.
LEMMA RestartKeeps ==
  ASSUME IInv, NEW h \in Hosts, Restart(h)
  PROVE  IInv'
<1>1. HostType'
  BY ConstantsAssumption DEF ConstantsAssumption, Restart, IInv, TypeOK, HostType
<1>2. Steps' /\ Tokens'
  BY ConstantsAssumption DEF ConstantsAssumption, Restart, IInv, TypeOK, HostType, QueueType, Steps, Tokens
<1> QED
  BY <1>1, <1>2, TablesUntouched DEF Restart

\* A schedule admission that is dropped wrote nothing.
LEMMA ScheduleDropKeeps ==
  ASSUME IInv, NEW h \in Hosts, ScheduleDrop(h)
  PROVE  IInv'
<1>1. HostType'
  BY ConstantsAssumption DEF ConstantsAssumption, ScheduleDrop, IInv, TypeOK, HostType
<1>2. Steps' /\ Tokens'
  BY ConstantsAssumption DEF ConstantsAssumption, ScheduleDrop, IInv, TypeOK, HostType, QueueType, Steps, Tokens
<1> QED
  BY <1>1, <1>2, TablesUntouched DEF ScheduleDrop

\* A schedule admission that is open wrote nothing yet.
LEMMA ScheduleBeginKeeps ==
  ASSUME IInv, NEW h \in Hosts, NEW r \in Runs, ScheduleBegin(h, r)
  PROVE  IInv'
<1>1. HostType' /\ Steps' /\ Tokens'
  BY DEF ScheduleBegin, IInv, TypeOK, HostType, QueueType, Steps, Tokens
<1> QED
  BY <1>1, TablesUntouched DEF ScheduleBegin

\* The walk's outcome becomes a plan that fits the next step.
LEMMA WalkEndsKeeps ==
  ASSUME IInv, NEW h \in Hosts, NEW p \in Plans, NEW adjusted \in BOOLEAN, WalkEnds(h, p, adjusted)
  PROVE  IInv'
<1> USE DEF WalkEnds
<1>1. CASE p = "left" /\ ~adjusted
  <2>1. HostType' /\ Steps' /\ Tokens'
    BY <1>1, IdleHost DEF IInv, TypeOK, QueueType
  <2> QED
    BY <2>1, TablesUntouched
<1>2. CASE ~(p = "left" /\ ~adjusted)
  <2>1. NextStep(p) \in {"publish", "commit"} \/ adjusted
    BY <1>2 DEF NextStep
  <2>2. HostType'
    BY <1>2, <2>1 DEF IInv, TypeOK, HostType
  <2>3. Steps'
    BY <1>2 DEF IInv, TypeOK, HostType, Steps, NextStep
  <2>4. Tokens'
    BY <1>2 DEF IInv, TypeOK, HostType, QueueType, Tokens
  <2> QED
    BY <2>2, <2>3, <2>4, TablesUntouched
<1> QED
  BY <1>1, <1>2

\* A park meets a dispatched run only, which was never leased.
LEMMA ParkKeeps ==
  ASSUME IInv, NEW r \in Runs, Park(r)
  PROVE  IInv'
<1> USE DEF Park, Leave, IInv, TypeOK, QueueType
<1>1. RunsType' /\ HostType' /\ Effects'
  BY DEF RunsType, HostType, Effects
<1>2. QueueType'
  OBVIOUS
<1>3. Rows'
  BY DEF RunsType, Rows
<1>4. RedeliveryBudget'
  BY DEF RunsType, RedeliveryBudget
<1> QED
  BY <1>1, <1>2, <1>3, <1>4, HostsUntouched

\* The release of a parked run makes its row visible again.
LEMMA ReleaseParkedKeeps ==
  ASSUME IInv, NEW r \in Runs, ReleaseParked(r)
  PROVE  IInv'
<1> USE DEF ReleaseParked, Append, VisibleRows, IInv, TypeOK, QueueType
<1>1. RunsType' /\ HostType' /\ Effects'
  BY DEF RunsType, HostType, Effects
<1>2. QueueType'
  OBVIOUS
<1>3. Rows'
  BY DEF RunsType, Rows
<1>4. RedeliveryBudget'
  BY DEF RunsType, RedeliveryBudget
<1> QED
  BY <1>1, <1>2, <1>3, <1>4, HostsUntouched

\* The end of a backoff makes the row visible again.
LEMMA BackoffElapsesKeeps ==
  ASSUME IInv, NEW r \in Runs, BackoffElapses(r)
  PROVE  IInv'
<1> USE DEF BackoffElapses, Append, VisibleRows, IInv, TypeOK, QueueType
<1>1. RunsType' /\ HostType' /\ Effects'
  BY DEF RunsType, HostType, Effects
<1>2. QueueType'
  OBVIOUS
<1>3. Rows'
  BY DEF RunsType, Rows
<1>4. RedeliveryBudget'
  BY DEF RunsType, RedeliveryBudget
<1> QED
  BY <1>1, <1>2, <1>3, <1>4, HostsUntouched

\* An expiry changes no fence, since the fence does not read it.
LEMMA LeaseAgesKeeps ==
  ASSUME IInv, NEW r \in Runs, LeaseAges(r)
  PROVE  IInv'
<1> USE DEF LeaseAges, IInv, TypeOK, QueueType
<1>1. RunsType' /\ HostType' /\ Effects'
  BY DEF RunsType, HostType, Effects
<1>2. QueueType'
  OBVIOUS
<1>3. Rows'
  BY DEF RunsType, Rows
<1>4. RedeliveryBudget'
  BY DEF RunsType, RedeliveryBudget
<1> QED
  BY <1>1, <1>2, <1>3, <1>4, HostsUntouched

\* An ingress admission inserts a fresh run row and queue row.
LEMMA AdmitKeeps ==
  ASSUME IInv, NEW h \in Hosts, NEW r \in Runs, Admit(h, r)
  PROVE  IInv'
<1> USE ConstantsAssumption
        DEF ConstantsAssumption, Admit, InsertRun, Append, VisibleRows, IInv, TypeOK, QueueType
<1>1. RunsType'
  BY DEF RunsType
<1>2. QueueType'
  OBVIOUS
<1>3. HostType'
  BY DEF HostType
<1>4. Rows'
  BY DEF RunsType, Rows
<1>5. Effects'
  BY DEF RunsType, Effects
<1>6. RedeliveryBudget'
  BY DEF RunsType, Rows, RedeliveryBudget
<1> QED
  BY <1>1, <1>2, <1>3, <1>4, <1>5, <1>6, HostsUntouched

\* A schedule commit inserts both rows, or finds the first admission.
LEMMA ScheduleCommitKeeps ==
  ASSUME IInv, NEW h \in Hosts, ScheduleCommit(h)
  PROVE  IInv'
<1> DEFINE r == admitting[h]
<1> USE DEF ScheduleCommit
<1>1. r \in Runs
  BY DEF IInv, TypeOK, HostType
<1>2. CASE status[r] # "absent"
  BY <1>2, <1>1, TablesUntouched, ConstantsAssumption
  DEF ConstantsAssumption, IInv, TypeOK, HostType, Steps, Tokens
<1>3. CASE status[r] = "absent"
  <2> HIDE DEF r
  <2> USE <1>1, <1>3, ConstantsAssumption
      DEF ConstantsAssumption, InsertRun, Append, VisibleRows, IInv, TypeOK, QueueType
  <2>0. InsertRun(h, r) /\ UNCHANGED <<hostVars, published>>
    BY DEF r
  <2>1. RunsType'
    BY <2>0 DEF RunsType
  <2>2. QueueType'
    BY <2>0
  <2>3. HostType'
    BY DEF HostType
  <2>4. Rows'
    BY <2>0 DEF RunsType, Rows
  <2>5. Effects'
    BY <2>0 DEF RunsType, Effects
  <2>6. RedeliveryBudget'
    BY <2>0 DEF RunsType, Rows, RedeliveryBudget
  <2> QED
    BY <2>0, <2>1, <2>2, <2>3, <2>4, <2>5, <2>6, HostsUntouched
<1> QED
  BY <1>2, <1>3

\* The janitor ends an exhausted run and deletes its queue row.
LEMMA ReapKeeps ==
  ASSUME IInv, NEW h \in Hosts, NEW r \in Runs, Reap(h, r)
  PROVE  IInv'
<1> USE DEF Reap, Exhausted, Finish, Leave, IInv, TypeOK, RunsType, QueueType
<1>1. RunsType' /\ QueueType'
  BY ConstantsAssumption DEF ConstantsAssumption
<1>2. HostType' /\ Tokens'
  BY AdvancingHost DEF Steps
<1>3. Rows'
  BY DEF Rows
<1>4. Steps'
  BY DEF HostType, Steps, Advance
<1>5. Effects' /\ RedeliveryBudget'
  BY DEF Effects, RedeliveryBudget
<1> QED
  BY <1>1, <1>2, <1>3, <1>4, <1>5

\* The fence is a fresh generation, and crash evidence pays for it.
LEMMA ClaimKeeps ==
  ASSUME IInv, NEW h \in Hosts, NEW r \in Runs, Claim(h, r)
  PROVE  IInv'
<1> USE DEF Claim, Selected, Claimable, AdvanceAttempts, Grant, IInv, TypeOK, RunsType, QueueType
<1>1. RunsType'
  OBVIOUS
<1>2. QueueType'
  <2>1. Owner[h] \in Owners
    BY ConstantsAssumption DEF ConstantsAssumption
  <2>2. owner' \in [Runs -> Owners \cup {NoOwner}] /\ lease' \in [Runs -> {"none", "live", "expired", "lapsed"}]
    BY <2>1
  <2>3. gen' \in [Runs -> Nat] /\ attempts' \in [Runs -> Nat]
    OBVIOUS
  <2> QED
    BY <2>2, <2>3
<1>3. HostType'
  BY DEF HostType
<1>4. Rows'
  BY DEF Rows
<1>5. Steps'
  BY ConstantsAssumption DEF ConstantsAssumption, HostType, Steps
<1>6. Tokens'
  BY ConstantsAssumption DEF ConstantsAssumption, HostType, Tokens
<1>7. Effects'
  BY DEF Effects
<1>8. RedeliveryBudget'
  BY ConstantsAssumption DEF ConstantsAssumption, Rows, RedeliveryBudget
<1> QED
  BY <1>1, <1>2, <1>3, <1>4, <1>5, <1>6, <1>7, <1>8

\* A grant whose reply is lost leaves a generation that no host holds.
LEMMA ClaimReplyLostKeeps ==
  ASSUME IInv, NEW h \in Hosts, NEW r \in Runs, ClaimReplyLost(h, r)
  PROVE  IInv'
<1> USE DEF ClaimReplyLost, Selected, Claimable, AdvanceAttempts, Grant, IInv, TypeOK, RunsType, QueueType
<1>1. RunsType'
  OBVIOUS
<1>2. QueueType'
  <2>1. Owner[h] \in Owners
    BY ConstantsAssumption DEF ConstantsAssumption
  <2>2. owner' \in [Runs -> Owners \cup {NoOwner}] /\ lease' \in [Runs -> {"none", "live", "expired", "lapsed"}]
    BY <2>1
  <2>3. gen' \in [Runs -> Nat] /\ attempts' \in [Runs -> Nat]
    OBVIOUS
  <2> QED
    BY <2>2, <2>3
<1>3. HostType' /\ Steps' /\ Tokens'
  <2>1. \A x \in Runs : gen[x] <= gen'[x]
    OBVIOUS
  <2> QED
    BY <1>2, <2>1, IdleHost
<1>4. Rows'
  BY DEF Rows
<1>5. Effects'
  BY DEF Effects
<1>6. RedeliveryBudget'
  BY ConstantsAssumption DEF ConstantsAssumption, Rows, RedeliveryBudget
<1> QED
  BY <1>1, <1>2, <1>3, <1>4, <1>5, <1>6

\* A refused grant spends the budget of a prior lease alone.
LEMMA GrantRefusedKeeps ==
  ASSUME IInv, NEW h \in Hosts, NEW r \in Runs, GrantRefused(h, r)
  PROVE  IInv'
<1> USE DEF GrantRefused, Selected, Claimable, AdvanceAttempts, IInv, TypeOK, RunsType, QueueType
<1>1. RunsType' /\ QueueType'
  OBVIOUS
<1>2. HostType' /\ Steps' /\ Tokens'
  BY <1>1, IdleHost
<1>3. Rows'
  BY DEF Rows
<1>4. Effects'
  BY DEF Effects
<1>5. RedeliveryBudget'
  BY ConstantsAssumption DEF ConstantsAssumption, Rows, RedeliveryBudget
<1> QED
  BY <1>1, <1>2, <1>3, <1>4, <1>5

\* A release spends one attempt, or ends the run when it spent the last.
LEMMA ReleaseClaimKeeps ==
  ASSUME IInv, NEW h \in Hosts, ReleaseClaim(h)
  PROVE  IInv'
<1> DEFINE r == held[h]
<1> USE DEF ReleaseClaim
<1>1. r \in Runs /\ plan[h] \in Plans \cup {"none"}
  BY ConstantsAssumption DEF ConstantsAssumption, IInv, TypeOK, HostType, Steps
<1>2. CASE ~(Fenced(h, r) /\ lease[r] = "live")
  <2>1. UNCHANGED <<runVars, queueVars, published, admitting>> /\ Idle(h)
    BY <1>2
  <2>2. HostType' /\ Steps' /\ Tokens'
    BY <2>1, IdleHost DEF IInv, TypeOK, QueueType
  <2> QED
    BY <2>1, <2>2, TablesUntouched
<1>3. CASE Fenced(h, r) /\ lease[r] = "live"
  <2>0. /\ status[r] \in Runnable /\ r \in queued /\ lease[r] = "live"
        /\ attempts' = [attempts EXCEPT ![r] = @ + 1]
        /\ UNCHANGED <<gen, report, pin, admitting, published>> /\ Idle(h)
    BY <1>3 DEF Fenced
  <2> USE <1>1, <2>0, ConstantsAssumption
      DEF ConstantsAssumption, IInv, TypeOK, RunsType, QueueType
  <2>1. CASE attempts[r] + 1 >= MaxAttempts
    <3>0. Finish(r, "failed", "retry-exhausted")
      BY <1>3, <2>1
    <3> HIDE DEF ReleaseClaim, r
    <3> USE <3>0 DEF Finish, Leave
    <3>1. RunsType' /\ QueueType'
      OBVIOUS
    <3>2. HostType' /\ Steps' /\ Tokens'
      BY <3>1, IdleHost
    <3>3. Rows'
      BY DEF Rows
    <3>4. Effects'
      BY DEF Effects
    <3>5. RedeliveryBudget'
      BY DEF RedeliveryBudget
    <3> QED
      BY <3>1, <3>2, <3>3, <3>4, <3>5
  <2>2. CASE ~(attempts[r] + 1 >= MaxAttempts)
    <3>0. /\ owner' = [owner EXCEPT ![r] = NoOwner]
          /\ lease' = [lease EXCEPT ![r] = "none"]
          /\ avail' = [avail EXCEPT ![r] = "backoff"]
          /\ ahead' = Leave(r)
          /\ UNCHANGED <<status, reason, queued>>
      BY <1>3, <2>2
    <3> HIDE DEF ReleaseClaim, r
    <3> USE <3>0 DEF Leave
    <3>1. RunsType' /\ QueueType'
      OBVIOUS
    <3>2. HostType' /\ Steps' /\ Tokens'
      BY <3>1, IdleHost
    <3>3. Rows'
      BY DEF Rows
    <3>4. Effects'
      BY DEF Effects
    <3>5. RedeliveryBudget'
      BY <2>2 DEF Rows, RedeliveryBudget
    <3> QED
      BY <3>1, <3>2, <3>3, <3>4, <3>5
  <2> QED
    BY <2>1, <2>2
<1> QED
  BY <1>2, <1>3

\* A report is stored under the generation of its holder.
LEMMA RecordAdjustmentsKeeps ==
  ASSUME IInv, NEW h \in Hosts, RecordAdjustments(h)
  PROVE  IInv'
<1> DEFINE r == held[h]
<1> USE DEF RecordAdjustments
<1>1. r \in Runs /\ fence[h] \in Nat
  BY ConstantsAssumption DEF ConstantsAssumption, IInv, TypeOK, HostType, Steps
<1>2. CASE ~Fenced(h, r)
  <2>1. UNCHANGED <<runVars, queueVars, published, admitting>> /\ Idle(h)
    BY <1>2
  <2>2. HostType' /\ Steps' /\ Tokens'
    BY <2>1, IdleHost DEF IInv, TypeOK, QueueType
  <2> QED
    BY <2>1, <2>2, TablesUntouched
<1>3. CASE Fenced(h, r)
  <2>0. /\ report' = [report EXCEPT ![r] = fence[h]] /\ gen[r] = fence[h]
        /\ UNCHANGED <<status, reason, pin, queueVars, admitting, published>>
    BY <1>3 DEF Fenced
  <2>1. RunsType' /\ QueueType' /\ Rows' /\ RedeliveryBudget'
    BY <1>1, <2>0 DEF IInv, TypeOK, RunsType, QueueType, Rows, RedeliveryBudget
  <2>2. Effects'
    BY <1>1, <2>0 DEF IInv, TypeOK, RunsType, QueueType, Effects
  <2>3. HostType' /\ Steps' /\ Tokens'
    <3>1. CASE plan[h] = "left"
      <4>1. Idle(h)
        BY <1>3, <3>1
      <4> QED
        BY <2>0, <2>1, <4>1, IdleHost DEF IInv, TypeOK, QueueType
    <3>2. CASE plan[h] # "left"
      <4>0. plan[h] \in Outcomes
        BY <3>2 DEF IInv, Steps
      <4>1. Advance(h, NextStep(plan[h])) /\ NextStep(plan[h]) \in {"publish", "commit"}
        BY <1>3, <3>2 DEF NextStep
      <4>2. HostType' /\ Tokens'
        BY <2>0, <4>1, AdvancingHost DEF IInv, Steps
      <4>3. Steps'
        BY <2>0, <4>0, <4>1 DEF IInv, TypeOK, HostType, Steps, Advance, NextStep
      <4> QED
        BY <4>2, <4>3
    <3> QED
      BY <3>1, <3>2
  <2> QED
    BY <2>1, <2>2, <2>3 DEF IInv, TypeOK
<1> QED
  BY <1>2, <1>3

\* The acknowledged event precedes the commit step.
LEMMA PublishKeeps ==
  ASSUME IInv, NEW h \in Hosts, Publish(h)
  PROVE  IInv'
<1> USE DEF Publish
<1>1. held[h] \in Runs /\ gen[held[h]] > 0
  BY ConstantsAssumption DEF ConstantsAssumption, IInv, TypeOK, HostType, QueueType, Steps, Tokens
<1>2. RunsType' /\ QueueType' /\ Rows' /\ RedeliveryBudget'
  BY <1>1 DEF IInv, TypeOK, RunsType, QueueType, Rows, RedeliveryBudget
<1>3. HostType' /\ Tokens'
  BY AdvancingHost DEF IInv, Steps
<1>4. Steps'
  BY DEF IInv, TypeOK, HostType, Steps, Advance
<1>5. Effects'
  BY <1>1 DEF IInv, Effects
<1> QED
  BY <1>2, <1>3, <1>4, <1>5 DEF IInv, TypeOK

\* An event without its acknowledgement gives up the run.
LEMMA PublishUnacknowledgedKeeps ==
  ASSUME IInv, NEW h \in Hosts, PublishUnacknowledged(h)
  PROVE  IInv'
<1> USE DEF PublishUnacknowledged
<1>1. held[h] \in Runs /\ gen[held[h]] > 0
  BY ConstantsAssumption DEF ConstantsAssumption, IInv, TypeOK, HostType, QueueType, Steps, Tokens
<1>2. RunsType' /\ QueueType' /\ Rows' /\ RedeliveryBudget'
  BY <1>1 DEF IInv, TypeOK, RunsType, QueueType, Rows, RedeliveryBudget
<1>3. HostType' /\ Steps' /\ Tokens'
  BY IdleHost DEF IInv, TypeOK, QueueType
<1>4. Effects'
  BY <1>1 DEF IInv, Effects
<1> QED
  BY <1>2, <1>3, <1>4 DEF IInv, TypeOK

\* Only the holder of the current fence ends the run.
LEMMA CommitKeeps ==
  ASSUME IInv, NEW h \in Hosts, Commit(h)
  PROVE  IInv'
<1> DEFINE r == held[h]
           s == IF plan[h] \in {"discard", "event"} THEN "completed" ELSE "failed"
<1> USE DEF Commit
<1>1. r \in Runs /\ plan[h] \in Outcomes /\ (plan[h] = "event" => r \in published)
  BY ConstantsAssumption DEF ConstantsAssumption, IInv, TypeOK, HostType, Steps
<1>2. CASE ~Fenced(h, r)
  <2>1. UNCHANGED <<runVars, queueVars, published, admitting>> /\ Idle(h)
    BY <1>2
  <2>2. HostType' /\ Steps' /\ Tokens'
    BY <2>1, IdleHost DEF IInv, TypeOK, QueueType
  <2> QED
    BY <2>1, <2>2, TablesUntouched
<1>3. CASE Fenced(h, r)
  <2>0. /\ status[r] \in Runnable /\ r \in queued /\ s \in Terminal
        /\ gen[r] = fence[h] /\ Finish(r, s, plan[h])
        /\ UNCHANGED <<pin, report, gen, attempts, admitting, published>> /\ Idle(h)
    BY <1>3 DEF Fenced
  <2>1. gen[r] > 0
    BY <1>1, <2>0, ConstantsAssumption DEF ConstantsAssumption, IInv, Tokens, TypeOK, HostType
  <2> HIDE DEF Commit, r, s
  <2> USE <1>1, <2>0, ConstantsAssumption
      DEF ConstantsAssumption, Finish, Leave, IInv, TypeOK, RunsType, QueueType
  <2>2. RunsType' /\ QueueType'
    OBVIOUS
  <2>3. HostType' /\ Steps' /\ Tokens'
    BY <2>2, IdleHost
  <2>4. Rows'
    BY <2>1 DEF Rows
  <2>5. Effects' /\ RedeliveryBudget'
    BY DEF Effects, RedeliveryBudget
  <2> QED
    BY <2>2, <2>3, <2>4, <2>5
<1> QED
  BY <1>2, <1>3

\* Every step preserves the invariant: one case per action.
LEMMA NextKeeps == IInv /\ [Next]_vars => IInv'
<1> SUFFICES ASSUME IInv, [Next]_vars PROVE IInv'
  OBVIOUS
<1>1. CASE UNCHANGED vars
  BY <1>1 DEF vars, IInv, TypeOK, RunsType, QueueType, HostType, Rows, Steps, Tokens,
              Effects, RedeliveryBudget
<1>2. ASSUME NEW h \in Hosts, NEW r \in Runs,
             \/ Admit(h, r) \/ ScheduleBegin(h, r) \/ Reap(h, r)
             \/ Claim(h, r) \/ ClaimReplyLost(h, r) \/ GrantRefused(h, r)
      PROVE  IInv'
  BY <1>2, AdmitKeeps, ScheduleBeginKeeps, ReapKeeps, ClaimKeeps, ClaimReplyLostKeeps,
     GrantRefusedKeeps
<1>3. ASSUME NEW h \in Hosts, NEW p \in Plans, NEW adjusted \in BOOLEAN,
             WalkEnds(h, p, adjusted)
      PROVE  IInv'
  BY <1>3, WalkEndsKeeps
<1>4. ASSUME NEW h \in Hosts,
             \/ ScheduleCommit(h) \/ ScheduleDrop(h)
             \/ BeginTurn(h) \/ DrainTurn(h) \/ DrainExit(h)
             \/ ReapEmpty(h) \/ ClaimEmpty(h)
      PROVE  IInv'
  BY <1>4, ScheduleCommitKeeps, ScheduleDropKeeps, BeginTurnKeeps, DrainTurnKeeps,
     DrainExitKeeps, ReapEmptyKeeps, ClaimEmptyKeeps
<1>5. ASSUME NEW h \in Hosts,
             \/ CallerResolved(h) \/ ReleaseClaim(h) \/ HeartbeatLost(h)
             \/ RecordAdjustments(h) \/ Publish(h) \/ PublishUnacknowledged(h)
             \/ Commit(h) \/ TurnError(h)
             \/ Stop(h) \/ AdmissionClosed(h) \/ Crash(h) \/ Restart(h)
      PROVE  IInv'
  BY <1>5, CallerResolvedKeeps, ReleaseClaimKeeps, HeartbeatLostKeeps,
     RecordAdjustmentsKeeps, PublishKeeps, PublishUnacknowledgedKeeps, CommitKeeps,
     TurnErrorKeeps, StopKeeps, AdmissionClosedKeeps, CrashKeeps, RestartKeeps
<1>6. ASSUME NEW r \in Runs,
             Park(r) \/ ReleaseParked(r) \/ BackoffElapses(r) \/ LeaseAges(r)
      PROVE  IInv'
  BY <1>6, ParkKeeps, ReleaseParkedKeeps, BackoffElapsesKeeps, LeaseAgesKeeps
<1> QED
  BY <1>1, <1>2, <1>3, <1>4, <1>5, <1>6 DEF Next

-----------------------------------------------------------------------------
(* The theorems.                                                            *)

\* The inductive invariant holds in every reachable state.
THEOREM Invariance == Spec => []IInv
<1>1. Init => IInv
  BY InitEstablishes
<1>2. IInv /\ [Next]_vars => IInv'
  BY NextKeeps
<1> QED
  BY <1>1, <1>2, PTL DEF Spec

\* Every column and every host variable keeps its type.
THEOREM TypeCorrect == Spec => []TypeOK
<1>1. IInv => TypeOK
  BY DEF IInv
<1> QED
  BY <1>1, Invariance, PTL

\* RUN-1: a queue row exists exactly while the run has not ended.
THEOREM QueueRows == Spec => []QueueRowIffLive
<1>1. IInv => QueueRowIffLive
  BY DEF IInv, Rows, QueueRowIffLive
<1> QED
  BY <1>1, Invariance, PTL

\* The fence of the completion, release, renewal and report statements picks
\* out at most one host, for any assignment of owner names to replicas.
THEOREM FenceIsSole == Spec => []SoleFence
<1>1. IInv => SoleFence
  BY DEF IInv, Tokens, SoleFence, Fenced
<1> QED
  BY <1>1, Invariance, PTL

\* RUN-4: crashes and credential releases spend one budget, and a run is
\* leased at most MaxAttempts + 1 times.
THEOREM BudgetHolds == Spec => []RedeliveryBudget
<1>1. IInv => RedeliveryBudget
  BY DEF IInv
<1> QED
  BY <1>1, Invariance, PTL

\* A run that the operator parked was never leased.
THEOREM ParkedIsClean == Spec => []ParkedNeverRan
<1>1. IInv => ParkedNeverRan
  <2> SUFFICES ASSUME IInv, NEW r \in queued, avail[r] = "parked"
               PROVE  gen[r] = 0 /\ (\A h \in Hosts : held[h] # r) /\ r \notin published
    BY DEF ParkedNeverRan
  <2>1. r \in Runs /\ r # NoRun
    BY ConstantsAssumption DEF ConstantsAssumption, IInv, TypeOK, QueueType
  <2>2. gen[r] = 0
    BY <2>1 DEF IInv, Rows
  <2>3. r \notin published
    BY <2>1, <2>2 DEF IInv, Effects
  <2>4. ASSUME NEW h \in Hosts, held[h] = r PROVE FALSE
    <3>1. fence[h] > 0 /\ fence[h] <= gen[r] /\ fence[h] \in Nat
      BY <2>1, <2>4 DEF IInv, TypeOK, HostType, Tokens
    <3> QED
      BY <2>2, <3>1
  <2> QED
    BY <2>2, <2>3, <2>4
<1> QED
  BY <1>1, Invariance, PTL

\* A run whose outcome is an emitted event has that event on the stream.
THEOREM EmitPrecedesEnd == Spec => []EmitBeforeComplete
<1>1. IInv => EmitBeforeComplete
  BY DEF IInv, Effects, EmitBeforeComplete
<1> QED
  BY <1>1, Invariance, PTL

-----------------------------------------------------------------------------
(* Action properties.                                                       *)

\* Only Admit, ScheduleCommit, Claim, ClaimReplyLost, ReleaseClaim, Commit,
\* Reap and RecordAdjustments write a runs row.
LEMMA RunRowWriters ==
  ASSUME IInv, [Next]_vars
  PROVE  \/ UNCHANGED <<status, reason, report, queued>>
         \/ \E h \in Hosts, r \in Runs :
               \/ Admit(h, r) \/ Reap(h, r) \/ Claim(h, r) \/ ClaimReplyLost(h, r)
         \/ \E h \in Hosts :
               \/ ScheduleCommit(h) \/ ReleaseClaim(h) \/ RecordAdjustments(h) \/ Commit(h)
<1>1. CASE UNCHANGED vars
  BY <1>1 DEF vars
<1>2. CASE Next
  BY <1>2 DEF Next, ScheduleBegin, GrantRefused, WalkEnds, ScheduleDrop, BeginTurn, DrainTurn,
     DrainExit, ReapEmpty, ClaimEmpty, CallerResolved, HeartbeatLost, Publish,
     PublishUnacknowledged, TurnError, Stop, AdmissionClosed, Crash, Restart, Park,
     ReleaseParked, BackoffElapses, LeaseAges
<1> QED
  BY <1>1, <1>2

\* A terminal run row is never written again.
LEMMA TerminalStep ==
  ASSUME IInv, [Next]_vars, NEW x \in Runs, status[x] \in Terminal
  PROVE  /\ status'[x] = status[x] /\ reason'[x] = reason[x]
         /\ report'[x] = report[x] /\ x \notin queued'
<1> USE DEF IInv, TypeOK, RunsType, QueueType
<1>0. x \notin queued
  BY DEF Rows
<1>1. CASE UNCHANGED <<status, reason, report, queued>>
  BY <1>0, <1>1
<1>2. ASSUME NEW h \in Hosts, NEW r \in Runs,
             Admit(h, r) \/ Reap(h, r) \/ Claim(h, r) \/ ClaimReplyLost(h, r)
      PROVE  /\ status'[x] = status[x] /\ reason'[x] = reason[x]
             /\ report'[x] = report[x] /\ x \notin queued'
  BY <1>0, <1>2 DEF Admit, InsertRun, Reap, Exhausted, Finish, Claim, ClaimReplyLost, Selected,
     Claimable, Grant
<1>3. ASSUME NEW h \in Hosts, ScheduleCommit(h)
      PROVE  /\ status'[x] = status[x] /\ reason'[x] = reason[x]
             /\ report'[x] = report[x] /\ x \notin queued'
  BY <1>0, <1>3 DEF ScheduleCommit, InsertRun
<1>4. ASSUME NEW h \in Hosts, ReleaseClaim(h) \/ RecordAdjustments(h) \/ Commit(h)
      PROVE  /\ status'[x] = status[x] /\ reason'[x] = reason[x]
             /\ report'[x] = report[x] /\ x \notin queued'
  BY <1>0, <1>4 DEF ReleaseClaim, RecordAdjustments, Commit, Finish, Fenced
<1> QED
  BY <1>1, <1>2, <1>3, <1>4, RunRowWriters

\* RUN-5: the outcome and the report of an ended run stand.
THEOREM TerminalIsFinal == Spec => TerminalStands
<1>1. IInv /\ [Next]_vars =>
        [\A r \in Runs : status[r] \in Terminal =>
            /\ status'[r] = status[r] /\ reason'[r] = reason[r]
            /\ report'[r] = report[r] /\ r \notin queued']_vars
  BY TerminalStep
<1> QED
  BY <1>1, Invariance, PTL DEF Spec, TerminalStands

\* The report of a run never falls back to an older attempt's.
LEMMA ReportStep ==
  ASSUME IInv, [Next]_vars, NEW x \in Runs
  PROVE  report'[x] >= report[x]
<1> USE DEF IInv, TypeOK, RunsType, QueueType
<1>1. CASE UNCHANGED report
  BY <1>1
<1>2. ASSUME NEW h \in Hosts, RecordAdjustments(h)
      PROVE  report'[x] >= report[x]
  BY <1>2 DEF RecordAdjustments, Fenced, HostType, Effects
<1>3. UNCHANGED report \/ \E h \in Hosts : RecordAdjustments(h)
  BY RunRowWriters DEF Admit, InsertRun, Reap, Claim, ClaimReplyLost, ScheduleCommit, runVars,
     ReleaseClaim, Commit
<1> QED
  BY <1>1, <1>2, <1>3

\* The stored deadline report is that of the latest attempt that reported.
THEOREM LatestReportWins == Spec => LatestReportStands
<1>1. IInv /\ [Next]_vars => [\A r \in Runs : report'[r] >= report[r]]_vars
  BY ReportStep
<1> QED
  BY <1>1, Invariance, PTL DEF Spec, LatestReportStands

-----------------------------------------------------------------------------
(* The queue implements RunContract.                                        *)

\* The initial tables map to the contract's initial state.
LEMMA ContractInit == Init => Contract!Init
  BY DEF Init, Contract!Init, Stage

\* A run row that goes from absent to dispatched is an admission.
LEMMA InsertAdmits ==
  ASSUME IInv, NEW h \in Hosts, NEW r \in Runs, status[r] = "absent", InsertRun(h, r),
         UNCHANGED published
  PROVE  Contract!Admit(r)
  BY DEF IInv, TypeOK, RunsType, InsertRun, Contract!Admit, Stage

\* A terminal write of a leased run is the run's one end.
LEMMA FinishEnds ==
  ASSUME IInv, NEW r \in Runs, NEW s \in Terminal, NEW why \in Reasons \ {"none"},
         status[r] = "running", Finish(r, s, why), UNCHANGED <<gen, published>>,
         why = "event" => r \in published
  PROVE  Contract!End(r, why)
<1>1. Stage[r] = "pending" /\ gen[r] > 0
  BY DEF IInv, Rows, Stage
<1>2. Stage' = [Stage EXCEPT ![r] = "done"]
  BY DEF IInv, TypeOK, RunsType, Finish, Stage
<1> QED
  BY <1>1, <1>2 DEF Finish, Contract!End

\* A grant is a lease within the budget.
LEMMA GrantLeases ==
  ASSUME IInv, NEW h \in Hosts, NEW r \in Runs, Selected(h, r), Grant(h, r),
         UNCHANGED <<reason, published>>
  PROVE  Contract!Lease(r)
<1> USE DEF IInv, TypeOK, RunsType, QueueType, Selected, Claimable
<1>1. Stage[r] = "pending"
  BY DEF Stage
<1>2. gen[r] < MaxAttempts + 1
  BY ConstantsAssumption DEF ConstantsAssumption, RedeliveryBudget
<1>3. Stage' = Stage
  BY DEF Grant, Stage
<1> QED
  BY <1>1, <1>2, <1>3 DEF Grant, Contract!Lease

\* A run that a host's fence matches is leased.
LEMMA FencedIsRunning ==
  ASSUME IInv, NEW h \in Hosts, held[h] \in Runs, Fenced(h, held[h])
  PROVE  status[held[h]] = "running"
<1>1. fence[h] > 0 /\ fence[h] \in Nat
  BY ConstantsAssumption DEF ConstantsAssumption, IInv, TypeOK, HostType, Tokens
<1>2. gen[held[h]] = fence[h] /\ status[held[h]] \in Runnable
  BY DEF Fenced
<1> QED
  BY <1>1, <1>2 DEF IInv, Rows

\* Every step maps to one step of the contract or to none.
LEMMA ContractStep ==
  ASSUME IInv, [Next]_vars
  PROVE  [Contract!Next]_(Contract!vars)
<1> DEFINE Same == UNCHANGED <<status, reason, gen, published>>
<1>0. ASSUME Same PROVE UNCHANGED Contract!vars
  BY <1>0 DEF Contract!vars, Stage
<1>1. CASE UNCHANGED vars
  BY <1>0, <1>1 DEF vars
<1>2. ASSUME NEW h \in Hosts, NEW r \in Runs, Admit(h, r)
      PROVE  Contract!Next
  BY <1>2, InsertAdmits DEF Admit, Contract!Next
<1>3. ASSUME NEW h \in Hosts, NEW r \in Runs, Reap(h, r)
      PROVE  Contract!Next
  <2>1. status[r] = "running"
    BY <1>3 DEF Reap, Exhausted, IInv, Rows
  <2>2. Contract!End(r, "infrastructure-failure")
    BY <1>3, <2>1, FinishEnds DEF Reap
  <2> QED
    BY <2>2 DEF Contract!Next
<1>4. ASSUME NEW h \in Hosts, NEW r \in Runs, Claim(h, r) \/ ClaimReplyLost(h, r)
      PROVE  Contract!Next
  BY <1>4, GrantLeases DEF Claim, ClaimReplyLost, Contract!Next
<1>5. ASSUME NEW h \in Hosts, ScheduleCommit(h)
      PROVE  Contract!Next \/ Same
  <2>1. admitting[h] \in Runs
    BY <1>5 DEF ScheduleCommit, IInv, TypeOK, HostType
  <2> QED
    BY <1>5, <2>1, InsertAdmits DEF ScheduleCommit, Contract!Next
<1>6. ASSUME NEW h \in Hosts, ReleaseClaim(h)
      PROVE  Contract!Next \/ Same
  <2>1. held[h] \in Runs
    BY <1>6 DEF ReleaseClaim, IInv, TypeOK, HostType, Steps
  <2>2. CASE Fenced(h, held[h]) /\ Finish(held[h], "failed", "retry-exhausted")
    <3>1. status[held[h]] = "running"
      BY <2>1, <2>2, FencedIsRunning
    <3>2. Contract!End(held[h], "retry-exhausted")
      BY <1>6, <2>1, <2>2, <3>1, FinishEnds DEF ReleaseClaim
    <3> QED
      BY <2>1, <3>2 DEF Contract!Next
  <2>3. CASE ~(Fenced(h, held[h]) /\ Finish(held[h], "failed", "retry-exhausted"))
    BY <1>6, <2>3 DEF ReleaseClaim
  <2> QED
    BY <2>2, <2>3
<1>7. ASSUME NEW h \in Hosts, Commit(h)
      PROVE  Contract!Next \/ Same
  <2>1. held[h] \in Runs /\ plan[h] \in Outcomes
    BY <1>7 DEF Commit, IInv, TypeOK, HostType, Steps
  <2>2. CASE Fenced(h, held[h])
    <3>1. status[held[h]] = "running"
      BY <2>1, <2>2, FencedIsRunning
    <3>2. plan[h] = "event" => held[h] \in published
      BY <1>7 DEF Commit, IInv, Steps
    <3>3. Contract!End(held[h], plan[h])
      BY <1>7, <2>1, <2>2, <3>1, <3>2, FinishEnds DEF Commit
    <3> QED
      BY <2>1, <3>3 DEF Contract!Next
  <2>3. CASE ~Fenced(h, held[h])
    BY <1>7, <2>3 DEF Commit
  <2> QED
    BY <2>2, <2>3
<1>8. ASSUME NEW h \in Hosts, Publish(h) \/ PublishUnacknowledged(h)
      PROVE  Contract!Next \/ Same
  <2>1. held[h] \in Runs /\ gen[held[h]] > 0
    BY <1>8 DEF Publish, PublishUnacknowledged, IInv, TypeOK, QueueType, HostType, Steps, Tokens
  <2>2. UNCHANGED <<status, reason, gen>>
    BY <1>8 DEF Publish, PublishUnacknowledged
  <2>3. Contract!Emit(held[h]) \/ UNCHANGED published
    BY <1>8, <2>1, <2>2 DEF Publish, PublishUnacknowledged, Contract!Emit, Stage
  <2> QED
    BY <2>1, <2>2, <2>3 DEF Contract!Next
<1>9. ASSUME NEW h \in Hosts, NEW r \in Runs, ScheduleBegin(h, r) \/ GrantRefused(h, r)
      PROVE  Same
  BY <1>9 DEF ScheduleBegin, GrantRefused
<1>10. ASSUME NEW h \in Hosts, NEW p \in Plans, NEW adjusted \in BOOLEAN, WalkEnds(h, p, adjusted)
       PROVE  Same
  BY <1>10 DEF WalkEnds
<1>11. ASSUME NEW h \in Hosts,
              \/ ScheduleDrop(h) \/ BeginTurn(h) \/ DrainTurn(h) \/ DrainExit(h)
              \/ ReapEmpty(h) \/ ClaimEmpty(h) \/ CallerResolved(h) \/ HeartbeatLost(h)
              \/ RecordAdjustments(h) \/ TurnError(h)
              \/ Stop(h) \/ AdmissionClosed(h) \/ Crash(h) \/ Restart(h)
       PROVE  Same
  BY <1>11 DEF ScheduleDrop, BeginTurn, DrainTurn, DrainExit, ReapEmpty, ClaimEmpty,
     CallerResolved, HeartbeatLost, RecordAdjustments, TurnError, Stop, AdmissionClosed,
     Crash, Restart
<1>12. ASSUME NEW r \in Runs,
              Park(r) \/ ReleaseParked(r) \/ BackoffElapses(r) \/ LeaseAges(r)
       PROVE  Same
  BY <1>12 DEF Park, ReleaseParked, BackoffElapses, LeaseAges
<1> HIDE DEF Same
<1> QED
  BY <1>0, <1>1, <1>2, <1>3, <1>4, <1>5, <1>6, <1>7, <1>8, <1>9, <1>10, <1>11, <1>12 DEF Next

\* The hosts, the janitor, the operator and time together implement the
\* contract, with the generation as the number of leases granted.
THEOREM QueueKeepsContract == Spec => KeepsContract
<1>1. Init => Contract!Init
  BY ContractInit
<1>2. IInv /\ [Next]_vars => [Contract!Next]_(Contract!vars)
  BY ContractStep
<1> QED
  BY <1>1, <1>2, Invariance, PTL DEF Spec, KeepsContract, Contract!Spec

-----------------------------------------------------------------------------
(* The drain of a release.                                                  *)

\* A run that ingress admitted, or that was ever leased, has a host of its
\* release that has not exited.
Carried ==
    \A r \in queued : r \notin Scheduled \/ gen[r] > 0 =>
        \E h \in Hosts : Release[h] = pin[r] /\ pc[h] # "exited"

\* The open admissions of the schedule task are of scheduled runs.
SchedulesOnly == \A h \in Hosts : admitting[h] \in Scheduled \cup {NoRun}

\* A row enters the queue by an admission of ingress, on a host that runs, or
\* by the schedule task, which leases nothing; and a row is leased by a host
\* of its release that runs.
LEMMA RowEnters ==
  ASSUME IInv, SchedulesOnly, [Next]_vars, NEW x \in queued', x \notin Scheduled \/ gen'[x] > 0
  PROVE  \/ x \in queued /\ pin'[x] = pin[x] /\ gen'[x] = gen[x]
         \/ \E h \in Hosts : pc'[h] # "exited" /\ pin'[x] = Release[h]
<1> USE DEF IInv, TypeOK, RunsType, QueueType, HostType
<1> DEFINE Stays == x \in queued /\ pin'[x] = pin[x] /\ gen'[x] = gen[x]
<1>1. CASE UNCHANGED <<queued, pin, gen>>
  BY <1>1
<1>2. ASSUME NEW h \in Hosts, NEW r \in Runs, Admit(h, r)
      PROVE  Stays \/ (pc'[h] # "exited" /\ pin'[x] = Release[h])
  BY <1>2 DEF Admit, InsertRun
<1>3. ASSUME NEW h \in Hosts, ScheduleCommit(h)
      PROVE  Stays
  <2>1. CASE status[admitting[h]] # "absent"
    BY <1>3, <2>1 DEF ScheduleCommit
  <2>2. CASE status[admitting[h]] = "absent"
    <3>1. admitting[h] \in Scheduled /\ admitting[h] \in Runs
      BY <1>3 DEF ScheduleCommit, SchedulesOnly
    <3>2. InsertRun(h, admitting[h]) /\ gen[admitting[h]] = 0
      BY <1>3, <2>2, <3>1 DEF ScheduleCommit, Rows
    <3> QED  BY <3>1, <3>2 DEF InsertRun
  <2> QED  BY <2>1, <2>2
<1>4. ASSUME NEW h \in Hosts, NEW r \in Runs, Reap(h, r)
      PROVE  Stays
  BY <1>4 DEF Reap, Finish
<1>5. ASSUME NEW h \in Hosts, NEW r \in Runs, Claim(h, r) \/ ClaimReplyLost(h, r)
      PROVE  Stays \/ (pc'[h] # "exited" /\ pin'[x] = Release[h])
  <2>1. pc'[h] # "exited" /\ queued' = queued /\ pin' = pin
    BY <1>5 DEF Claim, ClaimReplyLost, Idle
  <2>2. pin[r] = Release[h] /\ gen' = [gen EXCEPT ![r] = @ + 1]
    BY <1>5 DEF Claim, ClaimReplyLost, Selected, Claimable, Grant
  <2> QED  BY <2>1, <2>2
<1>6. ASSUME NEW h \in Hosts, ReleaseClaim(h) \/ RecordAdjustments(h) \/ Commit(h)
      PROVE  Stays
  BY <1>6 DEF ReleaseClaim, RecordAdjustments, Commit, Finish
<1>7. CASE Next
  BY <1>1, <1>2, <1>3, <1>4, <1>5, <1>6, <1>7 DEF Next, ScheduleBegin, GrantRefused, WalkEnds,
     ScheduleDrop, BeginTurn, DrainTurn, DrainExit, ReapEmpty, ClaimEmpty, CallerResolved,
     HeartbeatLost, Publish, PublishUnacknowledged, TurnError, Stop, AdmissionClosed, Crash,
     Restart, Park, ReleaseParked, BackoffElapses, LeaseAges
<1>8. CASE UNCHANGED vars
  BY <1>1, <1>8 DEF vars
<1> QED
  BY <1>7, <1>8

\* A host exits by DrainExit only.
LEMMA HostExits ==
  ASSUME IInv, [Next]_vars, NEW o \in Hosts, pc'[o] = "exited"
  PROVE  pc[o] = "exited" \/ DrainExit(o)
<1> USE DEF IInv, TypeOK, HostType
<1>1. CASE UNCHANGED pc
  BY <1>1
<1>2. ASSUME NEW h \in Hosts, Idle(h)
      PROVE  pc[o] = "exited"
  BY <1>2 DEF Idle
<1>3. ASSUME NEW h \in Hosts, NEW q, Advance(h, q), q # "exited"
      PROVE  pc[o] = "exited"
  BY <1>3 DEF Advance
<1>4. ASSUME NEW h \in Hosts, NEW r \in Runs, Claim(h, r)
      PROVE  pc[o] = "exited"
  BY <1>4 DEF Claim
<1>5. ASSUME NEW h \in Hosts, NEW p \in Plans, NEW adjusted \in BOOLEAN, WalkEnds(h, p, adjusted)
      PROVE  pc[o] = "exited"
  BY <1>2, <1>5 DEF WalkEnds, NextStep
<1>6. ASSUME NEW h \in Hosts, RecordAdjustments(h)
      PROVE  pc[o] = "exited"
  BY <1>2, <1>3, <1>6 DEF RecordAdjustments, NextStep
<1>7. ASSUME NEW h \in Hosts, Crash(h) \/ Restart(h)
      PROVE  pc[o] = "exited"
  BY <1>7 DEF Crash, Restart
<1>8. ASSUME NEW h \in Hosts, DrainExit(h)
      PROVE  pc[o] = "exited" \/ DrainExit(o)
  BY <1>8 DEF DrainExit, Advance
<1>9. CASE \E h \in Hosts, r \in Runs :
              \/ Admit(h, r) \/ ScheduleBegin(h, r)
              \/ Reap(h, r) \/ Claim(h, r) \/ ClaimReplyLost(h, r) \/ GrantRefused(h, r)
  BY <1>1, <1>2, <1>3, <1>4, <1>9 DEF Admit, ScheduleBegin, Reap, ClaimReplyLost, GrantRefused
<1>10. CASE \E h \in Hosts :
              \/ ScheduleCommit(h) \/ ScheduleDrop(h)
              \/ BeginTurn(h) \/ DrainTurn(h) \/ DrainExit(h)
              \/ ReapEmpty(h) \/ ClaimEmpty(h)
              \/ CallerResolved(h) \/ ReleaseClaim(h) \/ HeartbeatLost(h)
              \/ RecordAdjustments(h) \/ Publish(h) \/ PublishUnacknowledged(h)
              \/ Commit(h) \/ TurnError(h)
              \/ Stop(h) \/ AdmissionClosed(h) \/ Crash(h) \/ Restart(h)
  BY <1>1, <1>2, <1>3, <1>6, <1>7, <1>8, <1>10 DEF ScheduleCommit, ScheduleDrop, BeginTurn, DrainTurn,
     ReapEmpty, ClaimEmpty, CallerResolved, ReleaseClaim, HeartbeatLost, Publish,
     PublishUnacknowledged, Commit, TurnError, Stop, AdmissionClosed
<1>11. CASE \E r \in Runs : Park(r) \/ ReleaseParked(r) \/ BackoffElapses(r) \/ LeaseAges(r)
  BY <1>1, <1>11 DEF Park, ReleaseParked, BackoffElapses, LeaseAges
<1>12. CASE UNCHANGED vars
  BY <1>1, <1>12 DEF vars
<1> QED
  BY <1>5, <1>9, <1>10, <1>11, <1>12 DEF Next

LEMMA SchedulesStep ==
  ASSUME IInv, SchedulesOnly, [Next]_vars
  PROVE  SchedulesOnly'
<1> USE DEF IInv, TypeOK, HostType, SchedulesOnly
<1>1. CASE UNCHANGED admitting
  BY <1>1
<1>2. ASSUME NEW h \in Hosts, NEW r \in Runs, ScheduleBegin(h, r)
      PROVE  SchedulesOnly'
  BY <1>2 DEF ScheduleBegin
<1>3. ASSUME NEW h \in Hosts, ScheduleCommit(h) \/ ScheduleDrop(h)
      PROVE  SchedulesOnly'
  BY <1>3 DEF ScheduleCommit, ScheduleDrop
<1>4. CASE Next
  BY <1>1, <1>2, <1>3, <1>4 DEF Next, Admit, Reap, Claim, ClaimReplyLost, GrantRefused, WalkEnds,
     BeginTurn, DrainTurn, DrainExit, ReapEmpty, ClaimEmpty, CallerResolved, ReleaseClaim,
     HeartbeatLost, RecordAdjustments, Publish, PublishUnacknowledged, Commit, TurnError, Stop,
     AdmissionClosed, Crash, Restart, Park, ReleaseParked, BackoffElapses, LeaseAges
<1> QED
  BY <1>1, <1>4 DEF vars

LEMMA CarriedStep ==
  ASSUME IInv, SchedulesOnly, Carried, [Next]_vars
  PROVE  Carried'
<1>1. SUFFICES ASSUME NEW x \in queued', x \notin Scheduled \/ gen'[x] > 0
               PROVE  \E h \in Hosts : Release[h] = pin'[x] /\ pc'[h] # "exited"
  BY DEF Carried
<1>2. CASE \E h \in Hosts : pc'[h] # "exited" /\ pin'[x] = Release[h]
  BY <1>2
<1>3. CASE x \in queued /\ pin'[x] = pin[x] /\ gen'[x] = gen[x]
  <2>1. PICK h \in Hosts : Release[h] = pin[x] /\ pc[h] # "exited"
    BY <1>1, <1>3 DEF Carried
  <2>2. pc'[h] # "exited"
    <3>1. SUFFICES ASSUME DrainExit(h)  PROVE FALSE
      BY <2>1, HostExits
    <3>2. status[x] \in Runnable
      BY <1>3 DEF IInv, TypeOK, QueueType, Rows
    <3> QED  BY <1>3, <2>1, <3>1, <3>2 DEF DrainExit, PinnedBacklog
  <2> QED  BY <1>3, <2>1, <2>2
<1> QED
  BY <1>1, <1>2, <1>3, RowEnters

\* A run that ingress admitted, or that was ever leased, keeps a host of its
\* release until it ends (host.rs serves the queue until the pinned backlog is
\* empty), whatever the schedule task commits meanwhile.
THEOREM RunIsCarried == Spec => []Carried
<1>1. Init => SchedulesOnly /\ Carried
  BY DEF Init, SchedulesOnly, Carried
<1>2. IInv /\ SchedulesOnly /\ Carried /\ [Next]_vars => SchedulesOnly' /\ Carried'
  BY SchedulesStep, CarriedStep
<1> QED
  BY <1>1, <1>2, Invariance, PTL DEF Spec

\* The drain of the last host of a release leaves nothing of it in the queue
\* but runs that the schedule task committed and nobody ever leased.
THEOREM DrainLeavesNoBacklog == Spec => []DrainedReleaseHasNoBacklog
<1>1. IInv /\ Carried => DrainedReleaseHasNoBacklog
  BY DEF IInv, TypeOK, QueueType, Carried, DrainedReleaseHasNoBacklog, Drained
<1> QED
  BY <1>1, Invariance, RunIsCarried, PTL

===============================================================================
