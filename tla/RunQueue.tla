------------------------------- MODULE RunQueue -------------------------------
(***************************************************************************)
(* The durable run queue: the tables wamn_run.runs and wamn_run.run_queue, *)
(* the hosts that claim, walk and settle queued runs under a fenced lease, *)
(* the janitor, the operator's park and release, the admission services,   *)
(* and the shutdown sequence of a host.                                    *)
(*                                                                         *)
(* One PostgreSQL transaction is one step.  Time is abstract: a lease is   *)
(* live, expired, or lapsed (expired for longer than the janitor's grace), *)
(* and a row is visible, in backoff, or parked, so a host clock never has  *)
(* to be counted.  A renewal that succeeds only restarts the lease's       *)
(* clock, which here is a stuttering step.                                 *)
(***************************************************************************)
EXTENDS Naturals, FiniteSets

CONSTANTS
    Hosts,        \* host replicas
    Owners,       \* lease owner names (WAMN_RUNNER, HOSTNAME or "wamn-host")
    Owner,        \* Owner[h]: the owner name of h; replicas may share one
    Runs,         \* run ids: one producer idempotency key each
    Releases,     \* manifest digests
    Release,      \* Release[h]: the release that host h carries
    MaxAttempts,  \* run_queue.max_attempts
    Scheduled,    \* runs that the schedule task admits (the rest: ingress)
    Automation,   \* runs admitted without workflow facts
    Parkable,     \* runs that the operator may park
    Stoppable,    \* hosts that may receive SIGTERM
    Steady,       \* hosts that fairness is assumed of; the rest may hang
    NoOwner, NoRun, NoRelease

ASSUME ConstantsAssumption ==
    /\ MaxAttempts \in Nat \ {0}
    /\ Release \in [Hosts -> Releases] /\ Owner \in [Hosts -> Owners]
    /\ Scheduled \subseteq Runs /\ Automation \subseteq Runs
    /\ Parkable \subseteq Runs /\ Stoppable \subseteq Hosts /\ Steady \subseteq Hosts
    /\ NoOwner \notin Owners /\ NoRun \notin Runs /\ NoRelease \notin Releases

VARIABLES
    \* wamn_run.runs
    status,     \* status[r]: "absent" before the row exists
    reason,     \* reason[r]: why the run ended
    pin,        \* pin[r]: manifest_digest, set at admission
    report,     \* report[r]: generation that stored deadline_adjustments_json
    \* wamn_run.run_queue
    queued,     \* the runs that have a queue row
    avail,      \* avail[r]: available_at against now()
    ahead,      \* ahead[r]: visible rows with an earlier available_at
    owner, lease, gen, attempts,
    \* hosts
    pc, held, fence, plan, phase,
    admitting,  \* admitting[h]: the run of h's open schedule admission
    \* JetStream
    published   \* runs whose derived event the server acknowledged

runVars   == <<status, reason, pin, report>>
queueVars == <<queued, avail, ahead, owner, lease, gen, attempts>>
hostVars  == <<pc, held, fence, plan, phase>>
vars == <<status, reason, pin, report, queued, avail, ahead, owner, lease,
          gen, attempts, pc, held, fence, plan, phase, admitting, published>>

Runnable == {"dispatched", "running"}
Terminal == {"completed", "failed", "infrastructure-failure"}
Outcomes == {"discard", "event", "failed", "refused"}
Plans    == Outcomes \cup {"left"}
Reasons  == Outcomes \cup {"none", "retry-exhausted", "infrastructure-failure"}
Working  == {"caller", "walk", "report", "publish", "commit"}
PCs      == {"down", "loop", "reap", "claim", "exited"} \cup Working

Init ==
    /\ status = [r \in Runs |-> "absent"]
    /\ reason = [r \in Runs |-> "none"]
    /\ pin = [r \in Runs |-> NoRelease]
    /\ report = [r \in Runs |-> 0]
    /\ queued = {}
    /\ avail = [r \in Runs |-> "visible"]
    /\ ahead = [r \in Runs |-> {}]
    /\ owner = [r \in Runs |-> NoOwner]
    /\ lease = [r \in Runs |-> "none"]
    /\ gen = [r \in Runs |-> 0]
    /\ attempts = [r \in Runs |-> 0]
    /\ pc = [h \in Hosts |-> "loop"]
    /\ held = [h \in Hosts |-> NoRun]
    /\ fence = [h \in Hosts |-> 0]
    /\ plan = [h \in Hosts |-> "none"]
    /\ phase = [h \in Hosts |-> "up"]
    /\ admitting = [h \in Hosts |-> NoRun]
    /\ published = {}

-----------------------------------------------------------------------------
(* Queue order: available_at is assigned when the row becomes visible, and  *)
(* a claim never changes it.                                                *)

VisibleRows == {x \in queued : avail[x] = "visible"}

\* r joins the end of the order.
Append(r) == [ahead EXCEPT ![r] = VisibleRows \ {r}]

\* r leaves the order.
Leave(r) == [x \in Runs |-> IF x = r THEN {} ELSE ahead[x] \ {r}]

\* The host is alive and its queue future is polled.  While the shutdown
\* sequence closes ingress, the pinned queue future is not polled at all, so
\* a turn in progress neither walks nor renews.
Polled(h) == pc[h] \notin {"down", "exited"} /\ phase[h] # "closing"

\* The host drops its run and returns to the serve loop.
Idle(h) ==
    /\ pc' = [pc EXCEPT ![h] = "loop"]
    /\ held' = [held EXCEPT ![h] = NoRun]
    /\ fence' = [fence EXCEPT ![h] = 0]
    /\ plan' = [plan EXCEPT ![h] = "none"]
    /\ UNCHANGED phase

\* The host moves to step p of the turn and keeps its run.
Advance(h, p) ==
    /\ pc' = [pc EXCEPT ![h] = p]
    /\ UNCHANGED <<held, fence, plan, phase>>

-----------------------------------------------------------------------------
(* Admission.                                                               *)

\* Insert the runs row, pinned to the admitting host's release, and the
\* queue row in one transaction.  A repeated key finds the first row.
InsertRun(h, r) ==
    /\ status' = [status EXCEPT ![r] = "dispatched"]
    /\ pin' = [pin EXCEPT ![r] = Release[h]]
    /\ queued' = queued \cup {r}
    /\ ahead' = Append(r)
    /\ UNCHANGED <<reason, report, avail, owner, lease, gen, attempts>>

\* Ingress admission (a manual start or an event batch) runs until the
\* shutdown sequence has closed ingress.
Admit(h, r) ==
    /\ r \notin Scheduled /\ status[r] = "absent"
    /\ pc[h] \notin {"down", "exited"} /\ phase[h] \in {"up", "closing"}
    /\ InsertRun(h, r)
    /\ UNCHANGED <<hostVars, admitting, published>>

\* The schedule task opens the admission of one due moment.
ScheduleBegin(h, r) ==
    /\ r \in Scheduled /\ admitting[h] = NoRun /\ status[r] = "absent"
    /\ pc[h] \notin {"down", "exited"} /\ phase[h] = "up"
    /\ admitting' = [admitting EXCEPT ![h] = r]
    /\ UNCHANGED <<runVars, queueVars, hostVars, published>>

\* The server executes the COMMIT.  The stop signal drops the task's future
\* but cannot recall a COMMIT that was sent.
ScheduleCommit(h) ==
    /\ admitting[h] # NoRun
    /\ admitting' = [admitting EXCEPT ![h] = NoRun]
    /\ IF status[admitting[h]] = "absent"
       THEN InsertRun(h, admitting[h])
       ELSE UNCHANGED <<runVars, queueVars>>
    /\ UNCHANGED <<hostVars, published>>

\* The task is dropped, or refused, before its COMMIT.
ScheduleDrop(h) ==
    /\ admitting[h] # NoRun
    /\ admitting' = [admitting EXCEPT ![h] = NoRun]
    /\ UNCHANGED <<runVars, queueVars, hostVars, published>>

-----------------------------------------------------------------------------
(* The serve loop.                                                          *)

BeginTurn(h) ==
    /\ pc[h] = "loop" /\ phase[h] = "up"
    /\ Advance(h, "reap")
    /\ UNCHANGED <<runVars, queueVars, admitting, published>>

\* Mutants of PinnedBacklog: leased runs, or ended runs, are miscounted.
PinnedDispatched(h) ==
    \E r \in queued : pin[r] = Release[h] /\ status[r] = "dispatched"
PinnedEver(h) == \E r \in Runs : pin[r] = Release[h]

\* A run pinned to the host's release is still dispatched or running.
PinnedBacklog(h) ==
    \E r \in queued : pin[r] = Release[h] /\ status[r] \in Runnable

\* The drain takes a turn while a backlog remains, or its read failed.
DrainTurn(h) ==
    /\ pc[h] = "loop" /\ phase[h] = "draining"
    /\ Advance(h, "reap")
    /\ UNCHANGED <<runVars, queueVars, admitting, published>>

\* The drain ends when the pinned backlog is empty.
DrainExit(h) ==
    /\ pc[h] = "loop" /\ phase[h] = "draining" /\ ~PinnedBacklog(h)
    /\ Advance(h, "exited")
    /\ UNCHANGED <<runVars, queueVars, admitting, published>>

\* Mutant of Finish: the queue row is not deleted.
FinishKeepsRow(r, s, why) ==
    /\ status' = [status EXCEPT ![r] = s]
    /\ reason' = [reason EXCEPT ![r] = why]
    /\ UNCHANGED <<queued, ahead, owner, lease, avail>>

\* A terminal write: the runs row ends and its queue row is deleted (gen and
\* attempts keep the deleted row's last values, which nothing reads again).
Finish(r, s, why) ==
    /\ status' = [status EXCEPT ![r] = s]
    /\ reason' = [reason EXCEPT ![r] = why]
    /\ queued' = queued \ {r}
    /\ ahead' = Leave(r)
    /\ owner' = [owner EXCEPT ![r] = NoOwner]
    /\ lease' = [lease EXCEPT ![r] = "none"]
    /\ avail' = [avail EXCEPT ![r] = "visible"]

\* Mutant of Exhausted: the janitor looks at released rows only.
ExhaustedReleased(r) ==
    /\ r \in queued /\ status[r] \in Runnable
    /\ lease[r] = "none" /\ attempts[r] >= MaxAttempts

\* select_exhausted_production_sql: any release's row.
Exhausted(r) ==
    /\ r \in queued /\ status[r] \in Runnable
    /\ lease[r] = "lapsed" /\ attempts[r] >= MaxAttempts

\* Another host's open transaction may hold the row's lock, so that a select
\* with SKIP LOCKED passes over it: a transaction of step p, or one that
\* settles the run.
MayBeLocked(h, r, p) ==
    \E o \in Hosts \ {h} : pc[o] = p \/ held[o] = r

\* The janitor pass that opens a turn ends one exhausted run.
Reap(h, r) ==
    /\ Polled(h) /\ pc[h] = "reap" /\ Exhausted(r)
    /\ Finish(r, "infrastructure-failure", "infrastructure-failure")
    /\ Advance(h, "claim")
    /\ UNCHANGED <<pin, report, gen, attempts, admitting, published>>

\* The pass finds no exhausted run that it can lock.
ReapEmpty(h) ==
    /\ Polled(h) /\ pc[h] = "reap"
    /\ \A r \in Runs : Exhausted(r) => MayBeLocked(h, r, "reap")
    /\ Advance(h, "claim")
    /\ UNCHANGED <<runVars, queueVars, admitting, published>>

-----------------------------------------------------------------------------
(* The claim.                                                               *)

\* Mutants of Claimable: the park, or the budget, is not read.
ClaimableParked(h, r) ==
    /\ r \in queued /\ status[r] \in Runnable /\ pin[r] = Release[h]
    /\ lease[r] \in {"none", "expired", "lapsed"}
    /\ attempts[r] < MaxAttempts \/ lease[r] = "none"
ClaimableForever(h, r) ==
    /\ r \in queued /\ status[r] \in Runnable /\ pin[r] = Release[h]
    /\ avail[r] = "visible"
    /\ lease[r] \in {"none", "expired", "lapsed"} /\ attempts[r] <= MaxAttempts

\* select_production_claim_sql's predicate, with the status check after it.
Claimable(h, r) ==
    /\ r \in queued /\ status[r] \in Runnable /\ pin[r] = Release[h]
    /\ avail[r] = "visible"
    /\ lease[r] \in {"none", "expired", "lapsed"}
    /\ attempts[r] < MaxAttempts \/ lease[r] = "none"

\* r is the first row of the order that the select does not skip.
Selected(h, r) ==
    /\ Claimable(h, r)
    /\ \A x \in ahead[r] : Claimable(h, x) => MayBeLocked(h, x, "claim")

\* Mutants of AdvanceAttempts: a crash is free; a released row is refunded.
AdvanceNothing(r) == UNCHANGED attempts
AdvanceRefunds(r) ==
    attempts' = [attempts EXCEPT ![r] = IF lease[r] = "none" THEN @ - 1 ELSE @ + 1]

\* advance_claim_attempts_sql: a prior lease is crash evidence.
AdvanceAttempts(r) ==
    attempts' = [attempts EXCEPT ![r] = IF lease[r] = "none" THEN @ ELSE @ + 1]

\* Mutant of Grant: the generation does not change.
GrantSameGeneration(h, r) ==
    /\ owner' = [owner EXCEPT ![r] = Owner[h]]
    /\ lease' = [lease EXCEPT ![r] = "live"]
    /\ gen' = [gen EXCEPT ![r] = IF @ = 0 THEN 1 ELSE @]
    /\ status' = [status EXCEPT ![r] = "running"]

\* grant_production_claim_sql.
Grant(h, r) ==
    /\ owner' = [owner EXCEPT ![r] = Owner[h]]
    /\ lease' = [lease EXCEPT ![r] = "live"]
    /\ gen' = [gen EXCEPT ![r] = @ + 1]
    /\ status' = [status EXCEPT ![r] = "running"]

\* The claim commits and the host starts on the run.  A row without workflow
\* facts goes straight to its failed completion.
Claim(h, r) ==
    /\ Polled(h) /\ pc[h] = "claim" /\ Selected(h, r)
    /\ AdvanceAttempts(r)
    /\ Grant(h, r)
    /\ held' = [held EXCEPT ![h] = r]
    /\ fence' = [fence EXCEPT ![h] = gen'[r]]
    /\ plan' = [plan EXCEPT ![h] = IF r \in Automation THEN "refused" ELSE "none"]
    /\ pc' = [pc EXCEPT ![h] = IF r \in Automation THEN "commit" ELSE "caller"]
    /\ UNCHANGED <<phase, reason, pin, report, queued, avail, ahead, admitting, published>>

\* The claim commits but its reply is lost: nobody works on the lease.
ClaimReplyLost(h, r) ==
    /\ Polled(h) /\ pc[h] = "claim" /\ Selected(h, r)
    /\ AdvanceAttempts(r)
    /\ Grant(h, r)
    /\ Idle(h)
    /\ UNCHANGED <<reason, pin, report, queued, avail, ahead, admitting, published>>

\* Mutant of GrantRefused: the whole claim transaction rolls back.
GrantRefusedRollsBack(h, r) ==
    /\ Polled(h) /\ pc[h] = "claim" /\ Selected(h, r)
    /\ Idle(h)
    /\ UNCHANGED <<runVars, queueVars, admitting, published>>

\* A database guard refuses the grant: the savepoint rolls back, and the
\* attempt count advanced before it commits.
GrantRefused(h, r) ==
    /\ Polled(h) /\ pc[h] = "claim" /\ Selected(h, r)
    /\ AdvanceAttempts(r)
    /\ Idle(h)
    /\ UNCHANGED <<runVars, queued, avail, ahead, owner, lease, gen, admitting, published>>

\* No row qualifies, or another transaction locks every one that does.
ClaimEmpty(h) ==
    /\ Polled(h) /\ pc[h] = "claim"
    /\ \A r \in Runs : Claimable(h, r) => MayBeLocked(h, r, "claim")
    /\ Idle(h)
    /\ UNCHANGED <<runVars, queueVars, admitting, published>>

-----------------------------------------------------------------------------
(* The claimed run.                                                         *)

\* Mutants of Fenced: only the owner, or only the generation, is compared.
FencedByOwner(h, r) ==
    status[r] \in Runnable /\ r \in queued /\ owner[r] = Owner[h]
FencedByGeneration(h, r) == gen[r] = fence[h]

\* FENCED_PREFIX: the presented owner and generation are the row's.  The
\* lease's expiry is not part of the fence.
Fenced(h, r) ==
    /\ status[r] \in Runnable /\ r \in queued
    /\ owner[r] = Owner[h] /\ gen[r] = fence[h]

\* The run's principal resolves and the walk begins.
CallerResolved(h) ==
    /\ Polled(h) /\ pc[h] = "caller"
    /\ Advance(h, "walk")
    /\ UNCHANGED <<runVars, queueVars, admitting, published>>

\* The credential or pool is unavailable: the claim is released, or failed
\* when it spent the last attempt.  A release whose fence is lost does
\* nothing.
ReleaseClaim(h) ==
    LET r == held[h] IN
    /\ Polled(h) /\ pc[h] = "caller"
    /\ IF Fenced(h, r) /\ lease[r] = "live"
       THEN /\ attempts' = [attempts EXCEPT ![r] = @ + 1]
            /\ IF attempts[r] + 1 >= MaxAttempts
               THEN Finish(r, "failed", "retry-exhausted")
               ELSE /\ owner' = [owner EXCEPT ![r] = NoOwner]
                    /\ lease' = [lease EXCEPT ![r] = "none"]
                    /\ avail' = [avail EXCEPT ![r] = "backoff"]
                    /\ ahead' = Leave(r)
                    /\ UNCHANGED <<status, reason, queued>>
       ELSE UNCHANGED <<status, reason, queued, ahead, owner, lease, avail, attempts>>
    /\ Idle(h)
    /\ UNCHANGED <<pin, report, gen, admitting, published>>

\* A heartbeat finds the lease expired or the fence gone: the walk stops.
HeartbeatLost(h) ==
    /\ Polled(h) /\ pc[h] = "walk"
    /\ ~(Fenced(h, held[h]) /\ lease[held[h]] = "live")
    /\ Idle(h)
    /\ UNCHANGED <<runVars, queueVars, admitting, published>>

\* The step after the walk (and after the deadline report).
NextStep(p) ==
    CASE p = "left"  -> "loop"
      [] p = "event" -> "publish"
      [] OTHER       -> "commit"

\* The walk returns: a discard, an event to emit, a failure, a refusal that no
\* retry changes, or (left) a cancellation or another error.
WalkEnds(h, p, adjusted) ==
    /\ Polled(h) /\ pc[h] = "walk"
    /\ IF p = "left" /\ ~adjusted
       THEN Idle(h)
       ELSE /\ plan' = [plan EXCEPT ![h] = p]
            /\ pc' = [pc EXCEPT ![h] = IF adjusted THEN "report" ELSE NextStep(p)]
            /\ UNCHANGED <<held, fence, phase>>
    /\ UNCHANGED <<runVars, queueVars, admitting, published>>

\* Store the walk's deadline adjustments under the fence, or stop there.
RecordAdjustments(h) ==
    LET r == held[h] IN
    /\ Polled(h) /\ pc[h] = "report"
    /\ IF Fenced(h, r)
       THEN /\ report' = [report EXCEPT ![r] = fence[h]]
            /\ IF plan[h] = "left" THEN Idle(h) ELSE Advance(h, NextStep(plan[h]))
       ELSE Idle(h) /\ UNCHANGED report
    /\ UNCHANGED <<status, reason, pin, queueVars, admitting, published>>

\* The server acknowledges the derived event, under its dedup id.
Publish(h) ==
    /\ Polled(h) /\ pc[h] = "publish"
    /\ published' = published \cup {held[h]}
    /\ Advance(h, "commit")
    /\ UNCHANGED <<runVars, queueVars, admitting>>

\* No acknowledgement: the server may have stored the event.  The lease is
\* left for replay.
PublishUnacknowledged(h) ==
    /\ Polled(h) /\ pc[h] = "publish"
    /\ published' \in {published, published \cup {held[h]}}
    /\ Idle(h)
    /\ UNCHANGED <<runVars, queueVars, admitting>>

\* complete: terminalize under the fence.  A terminal run answers
\* AlreadyTerminal and a lost fence FenceLost; both end the turn.
Commit(h) ==
    LET r == held[h] IN
    /\ Polled(h) /\ pc[h] = "commit"
    /\ IF Fenced(h, r)
       THEN Finish(r, IF plan[h] \in {"discard", "event"} THEN "completed" ELSE "failed", plan[h])
       ELSE UNCHANGED <<status, reason, queued, ahead, owner, lease, avail>>
    /\ Idle(h)
    /\ UNCHANGED <<pin, report, gen, attempts, admitting, published>>

\* Any other error ends the turn and leaves the lease: storage, contract, a
\* transaction rolled back (a host clock behind created_at included).
TurnError(h) ==
    /\ Polled(h) /\ pc[h] \in {"reap", "claim"} \cup Working
    /\ Idle(h)
    /\ UNCHANGED <<runVars, queueVars, admitting, published>>

-----------------------------------------------------------------------------
(* Processes: SIGTERM, the drain bound, a crash, a new process.             *)

Stop(h) ==
    /\ h \in Stoppable /\ pc[h] \notin {"down", "exited"} /\ phase[h] = "up"
    /\ phase' = [phase EXCEPT ![h] = "closing"]
    /\ UNCHANGED <<pc, held, fence, plan, runVars, queueVars, admitting, published>>

\* Ingress is stopped and its connections drained; the queue turns to its
\* drain.  The schedule task is not joined here.
AdmissionClosed(h) ==
    /\ pc[h] # "down" /\ phase[h] = "closing"
    /\ phase' = [phase EXCEPT ![h] = "draining"]
    /\ UNCHANGED <<pc, held, fence, plan, runVars, queueVars, admitting, published>>

\* The process dies: a crash, or the drain bound passed.
Crash(h) ==
    /\ pc[h] \notin {"down", "exited"}
    /\ pc' = [pc EXCEPT ![h] = "down"]
    /\ held' = [held EXCEPT ![h] = NoRun]
    /\ fence' = [fence EXCEPT ![h] = 0]
    /\ plan' = [plan EXCEPT ![h] = "none"]
    /\ UNCHANGED <<phase, runVars, queueVars, admitting, published>>

\* A new process serves under the same owner name.
Restart(h) ==
    /\ pc[h] = "down"
    /\ pc' = [pc EXCEPT ![h] = "loop"]
    /\ phase' = [phase EXCEPT ![h] = "up"]
    /\ UNCHANGED <<held, fence, plan, runVars, queueVars, admitting, published>>

-----------------------------------------------------------------------------
(* The operator, and time.                                                  *)

Park(r) ==
    /\ r \in Parkable /\ r \in queued /\ status[r] = "dispatched"
    /\ lease[r] # "live" /\ avail[r] # "parked"
    /\ avail' = [avail EXCEPT ![r] = "parked"]
    /\ ahead' = Leave(r)
    /\ UNCHANGED <<runVars, queued, owner, lease, gen, attempts, hostVars, admitting, published>>

ReleaseParked(r) ==
    /\ r \in queued /\ avail[r] = "parked"
    /\ avail' = [avail EXCEPT ![r] = "visible"]
    /\ ahead' = Append(r)
    /\ UNCHANGED <<runVars, queued, owner, lease, gen, attempts, hostVars, admitting, published>>

\* The backoff of a released row passes.
BackoffElapses(r) ==
    /\ r \in queued /\ avail[r] = "backoff"
    /\ avail' = [avail EXCEPT ![r] = "visible"]
    /\ ahead' = Append(r)
    /\ UNCHANGED <<runVars, queued, owner, lease, gen, attempts, hostVars, admitting, published>>

\* lease_expires_at passes; then the janitor's grace passes.
LeaseAges(r) ==
    /\ r \in queued /\ lease[r] \in {"live", "expired"}
    /\ lease' = [lease EXCEPT ![r] = IF @ = "live" THEN "expired" ELSE "lapsed"]
    /\ UNCHANGED <<runVars, queued, avail, ahead, owner, gen, attempts, hostVars, admitting, published>>

-----------------------------------------------------------------------------
Next ==
    \/ \E h \in Hosts, r \in Runs :
          \/ Admit(h, r) \/ ScheduleBegin(h, r)
          \/ Reap(h, r) \/ Claim(h, r) \/ ClaimReplyLost(h, r) \/ GrantRefused(h, r)
    \/ \E h \in Hosts, p \in Plans, adjusted \in BOOLEAN : WalkEnds(h, p, adjusted)
    \/ \E h \in Hosts :
          \/ ScheduleCommit(h) \/ ScheduleDrop(h)
          \/ BeginTurn(h) \/ DrainTurn(h) \/ DrainExit(h)
          \/ ReapEmpty(h) \/ ClaimEmpty(h)
          \/ CallerResolved(h) \/ ReleaseClaim(h) \/ HeartbeatLost(h)
          \/ RecordAdjustments(h) \/ Publish(h) \/ PublishUnacknowledged(h)
          \/ Commit(h) \/ TurnError(h)
          \/ Stop(h) \/ AdmissionClosed(h) \/ Crash(h) \/ Restart(h)
    \/ \E r \in Runs :
          Park(r) \/ ReleaseParked(r) \/ BackoffElapses(r) \/ LeaseAges(r)

Spec == Init /\ [][Next]_vars

-----------------------------------------------------------------------------
(* Fairness.                                                                *)

\* Time passes; a node's deadline and the hop limit end every walk; a storage
\* call returns; Kubernetes restarts a dead process.  Strong fairness on the
\* steps before a lease: a crash or an error may interrupt them, but not the
\* same step forever.  A host outside Steady may stop at any step for good.
TurnFairness ==
    /\ \A r \in Runs : WF_vars(LeaseAges(r)) /\ WF_vars(BackoffElapses(r))
    /\ \A h \in Steady :
          /\ WF_vars(Restart(h))
          /\ WF_vars(AdmissionClosed(h))
          /\ SF_vars(BeginTurn(h))
          /\ SF_vars(DrainTurn(h) \/ DrainExit(h)) /\ SF_vars(DrainExit(h))
          /\ SF_vars(ReapEmpty(h) \/ \E r \in Runs : Reap(h, r))
          /\ SF_vars(\E r \in Runs : Reap(h, r))
          /\ WF_vars(ClaimEmpty(h))
          /\ WF_vars(CallerResolved(h) \/ ReleaseClaim(h))
          /\ WF_vars(\E p \in Plans, adjusted \in BOOLEAN : WalkEnds(h, p, adjusted))
          /\ WF_vars(RecordAdjustments(h))
          /\ WF_vars(Publish(h) \/ PublishUnacknowledged(h))
          /\ WF_vars(Commit(h))

\* A database guard may refuse every grant; a claim attempt still happens.
LiveSpec ==
    /\ Spec /\ TurnFairness
    /\ \A h \in Steady : SF_vars(\E r \in Runs : Claim(h, r) \/ GrantRefused(h, r))

\* No database guard refuses the grants forever.
GrantsSucceed == \A h \in Steady : SF_vars(\E r \in Runs : Claim(h, r))

-----------------------------------------------------------------------------
(* Properties.                                                              *)

RunsType ==
    /\ status \in [Runs -> {"absent"} \cup Runnable \cup Terminal]
    /\ reason \in [Runs -> Reasons]
    /\ pin \in [Runs -> Releases \cup {NoRelease}]
    /\ report \in [Runs -> Nat]
    /\ published \subseteq Runs

QueueType ==
    /\ queued \subseteq Runs
    /\ avail \in [Runs -> {"visible", "backoff", "parked"}]
    /\ ahead \in [Runs -> SUBSET Runs]
    /\ owner \in [Runs -> Owners \cup {NoOwner}]
    /\ lease \in [Runs -> {"none", "live", "expired", "lapsed"}]
    /\ gen \in [Runs -> Nat]
    /\ attempts \in [Runs -> Nat]

HostType ==
    /\ pc \in [Hosts -> PCs]
    /\ held \in [Hosts -> Runs \cup {NoRun}]
    /\ fence \in [Hosts -> Nat]
    /\ plan \in [Hosts -> Plans \cup {"none"}]
    /\ phase \in [Hosts -> {"up", "closing", "draining"}]
    /\ admitting \in [Hosts -> Runs \cup {NoRun}]

\* Every column of both tables, and every variable of a host, keeps its type.
TypeOK == RunsType /\ QueueType /\ HostType

\* RUN-1: a run that was admitted and has not ended has a queue row, and a run
\* that ended has none, whichever of the four terminal writes ended it.
QueueRowIffLive ==
    \A r \in Runs : r \in queued <=> status[r] \in Runnable

\* Of all the hosts that still work on a run (the stale ones included), at
\* most one can settle it, even when replicas share an owner name.
SoleFence ==
    \A a, b \in Hosts :
        /\ held[a] # NoRun /\ held[a] = held[b]
        /\ Fenced(a, held[a]) /\ Fenced(b, held[b])
        => a = b

\* RUN-4 over a whole history: every lease after the first was paid for by one
\* unit of the shared budget, through a crash or through a credential
\* release, so a run is leased at most MaxAttempts + 1 times; and the claim
\* predicate's arm for a budget-spent row with a NULL lease never applies.
RedeliveryBudget ==
    \A r \in queued :
        /\ attempts[r] <= MaxAttempts /\ gen[r] <= attempts[r] + 1
        /\ lease[r] = "none" => gen[r] <= attempts[r] /\ attempts[r] < MaxAttempts

\* A parked run was never leased, so no host works on it and no effect of it
\* is behind the park.
ParkedNeverRan ==
    \A r \in queued : avail[r] = "parked" =>
        gen[r] = 0 /\ (\A h \in Hosts : held[h] # r) /\ r \notin published

\* A run completed by an emit has its derived event on the stream.
EmitBeforeComplete ==
    \A r \in Runs : reason[r] = "event" => r \in published

Drained(rel) ==
    /\ \E h \in Hosts : Release[h] = rel
    /\ \A h \in Hosts : Release[h] = rel => pc[h] = "exited"

\* The host drain: when every host of a release ended its drain, no run that
\* ingress admitted under it and no run that was ever leased is left in the
\* queue, where no other host would claim it.  All that can be left is the
\* late COMMIT of the schedule task, which the shutdown does not join.
DrainedReleaseHasNoBacklog ==
    \A r \in queued : Drained(pin[r]) => r \in Scheduled /\ gen[r] = 0

\* The host drain as its documentation states it: a release that was drained
\* leaves no run at all.
DrainedReleaseIsEmpty == \A r \in queued : ~Drained(pin[r])

\* RUN-5: no step of any host changes the status, the reason or the deadline
\* report of a run that ended, late completions and the janitor included.
TerminalStands ==
    [][\A r \in Runs : status[r] \in Terminal =>
          /\ status'[r] = status[r] /\ reason'[r] = reason[r]
          /\ report'[r] = report[r] /\ r \notin queued']_vars

\* deadline_adjustments_json keeps the latest attempt that reported a change:
\* a stale attempt never overwrites the report of a newer one.
LatestReportStands ==
    [][\A r \in Runs : report'[r] >= report[r]]_vars

\* The queue keeps the producer's contract: see RunContract.
Stage == [r \in Runs |-> IF status[r] = "absent" THEN "absent"
                         ELSE IF status[r] \in Runnable THEN "pending" ELSE "done"]

Contract == INSTANCE RunContract WITH
    MaxLeases <- MaxAttempts + 1, Outcomes <- Reasons \ {"none"},
    stage <- Stage, epoch <- gen, outcome <- reason, emitted <- published

\* Every step of the hosts, the janitor, the operator and time is a step of
\* the contract or leaves it alone: at most MaxAttempts + 1 leases, one end,
\* no end without a lease, no event outcome without the event.
KeepsContract == Contract!Spec

SteadyExited == \A h \in Steady : pc[h] = "exited"

\* RUN-3: if no guard refuses the grants forever, a run that is admitted ends,
\* whatever crashes, drains, lost replies, refused grants and unavailable
\* credentials come in between, unless every steady host has drained and exited.
AdmittedRunEnds ==
    GrantsSucceed =>
        \A r \in Runs : status[r] = "dispatched" ~>
            (status[r] \in Terminal \/ SteadyExited)

\* A lease always ends, even if a database guard refuses every later grant:
\* the refused grants spend the budget and the janitor takes the run.
LeaseEnds ==
    \A r \in Runs : lease[r] # "none" ~> (lease[r] = "none" \/ SteadyExited)

\* If no guard refuses the grants forever, a host that is told to stop exits (or
\* dies and serves again): its drain ends.
StoppedHostExits ==
    GrantsSucceed =>
        \A h \in Steady : phase[h] = "closing" ~> (pc[h] = "exited" \/ phase[h] = "up")

\* No refused run stays at the head of the queue forever.
NoEternalHead ==
    \A r \in Runs : []<>(status[r] # "dispatched" \/ avail[r] # "visible")
===============================================================================
