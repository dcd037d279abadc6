# A TLA+ development of WAMN

WAMN runs applications on wasmCloud.  An application declares its data and
operations; PostgreSQL keeps all durable state; NATS JetStream carries events.
This directory holds TLA+ models of the parts in which several processes, a
database and a message broker have to agree through crashes, stale leases, lost
replies and restarts, the TLC runs that check them, and TLAPS proofs of every
safety property the runs check.  `PROJECT.json` maps every definition to the
source lines it models.

Contents: [the system](#the-system) - [modules](#modules-and-the-code) -
[runs](#runs) - [fairness](#fairness) - [proofs](#proofs) -
[findings](#where-code-and-text-disagree) - [limits](#what-is-not-modelled) -
[plan](#plan)

## The system

```
 HTTP / manual start --+                                   +--> caller
 schedule task --------+--> runs + run_queue --> host turn: claim, walk, settle
 event materializer ---+      (PostgreSQL)        |   (router: next/invoke/apply)
   ^        ^                      ^              v
   |        | enable / disable     |         derived event
   |        +-- workflow verbs  janitor, park     |
   |                                              v
 entity streams  <---------------------------- JetStream
   ^
 CDC reader <-- replication slot <-- WAL of the project-env database
   ^
 recover-capture-gap / close-capture-gap (registry.capture_gap, system database)

 device --> edge box: intents + samples (SQLite) --forward--> route --> engine
                                             write log of the application database
 component call --> lease of a resource (PostgreSQL session) --> integration
 request --> auth memory (replica of a NATS KV bucket) <-- drops of the writers
```

| Component | State it keeps | Operations | What makes it correct |
| --- | --- | --- | --- |
| Durable run queue (`run-state`, `runtime/.../production_claim.rs`, `workflow/src/queue.rs`) | `wamn_run.runs`, `wamn_run.run_queue`; per host: the step of its turn, the run and generation it holds | admit, claim, renew, release on a missing credential, complete, store the deadline report, reap, park and release | one holder can settle a run; the redelivery budget bounds leases; a run ends once and keeps its end; queue row iff live; an emitted outcome is true; an admitted run ends |
| Schedule task | one open admission per host | admit a due moment, be cancelled | a moment is admitted once, and not after the drain |
| Host shutdown | phase: up, closing ingress, draining | stop, close ingress, drain, exit | a stopped host exits; a drained release leaves no run behind |
| Router walk and driver (`workflow/router`, `router_driver.rs`, `router_action.rs`) | frontier, active node, attempt, hops, verdict, failure | start, next, invoke, apply, settle, translate at the boundary | no token lost or repeated; budgets and the hop limit hold; the first verdict is what happens; every walk ends |
| CDC reader (`services/cdc-reader`) and its client (`vendor/pg-walstream`) | session, buffered transaction, held acknowledgements, feedback position; the slot | preflight, gap wait, open, receive, publish, confirm, reconnect, end | nothing confirmed before it is published; stream order is commit order; the slot follows the WAL |
| Capture-gap verbs (`capture_gap.rs`) | `registry.capture_gap` rows | recover (read, drop, create, read back, insert), close | a gap row covers what was missed; capture waits for the resync |
| Operation intents and write log (`engine/.../intent.rs`, `write_log.rs`, `operation_transaction.rs`) | `write_log` rows: begun, finished; open host transactions | claim, read, run, finish, commit, release, expire after 30 days | the work under a key is done once while its row is kept; an answered value is true; two calls never wait for each other |
| Edge samples and forwarding (`services/edge`) | sample rows: pending, forwarded, refused, resolved; intents; a credential-failure count; the stored wake | take a frame, store outcome and sample, forward, record, back off, stop, restart, resolve | what is marked forwarded is recorded; outcome and sample agree; samples settle in order, and every one settles |
| Event materializer (`apps/platform/.../materializer`, `event_batch.rs`) and workflow lifecycle (`workflow_lifecycle.rs`) | consumer state of the entity stream; trigger rows with their boundary; run rows | sweep, fetch, prepare, admit, acknowledge; enable, disable | a message starts a workflow once; a workflow that is enabled misses no later message |
| Resource leases (`resource_lease.rs`, `connection_facts.rs`) | one PostgreSQL session per host, a lease, epoch and mutex per connection | enter, call, check, revoke, acquire in turn, lose, shut down | one call at a time per resource; the lock follows the lease; a revoked lease ends; a free key is acquired |
| Auth memory (`auth_cache.rs`, `kv_memory.rs`, `auth_changes.rs`) | replica of a NATS KV bucket, per-key revisions, kept tokens | read, put under the revision before the read, drop after the commit, watch, expire | no answer outlives a drop that its host applied |

All rows are modelled.  The remaining components (schema generator, catalog and
package artifacts, package, release and environment control, provisioning, schema
control, identity, component engine and composition, HTTP connections and ingress,
plugins, scenario worker, command line, web shell, applications, deployment and
tests) are listed in `PROJECT.json` with the reason each is left out: they parse,
compare, generate or transform immutable facts, or are one-shot commands whose
concurrency is a unique key of PostgreSQL.

What is hard here: hosts that lost their lease and do not know it, and may share
an owner name with the host that has it now; commits whose reply is lost; a
transaction that a savepoint rolls back in part; row locks that make a select
skip the only row; a shutdown that stops polling a turn in the middle;
acknowledgements that fail out of order; a duplicate window that expires; a
verb that writes to two databases; a request that its client gave up and that still
runs; a grant that arrives while it is being cancelled; a put that overtakes the
watch of the drop that forbids it.  `PROJECT.json` lists each hazard at its line
with the properties that would catch it.

## Modules and the code

| Module | Models |
| --- | --- |
| `RunQueue` | the run queue, the hosts' turns, the janitor, the operator's park, schedule admission and host shutdown |
| `RunContract` | what the queue promises the producer of a run; `RunQueue` is shown to implement it |
| `RunQueueProofs` | theorems about `RunQueue` |
| `RouterWalk` | one delivery through one wiring: `Wiring::next`, `Wiring::apply`, the driver's loop, `production_router_action` |
| `RouterWalkProofs` | theorems about `RouterWalk` |
| `EventCapture` | WAL, slot, CDC reader, JetStream stream and duplicate window, `recover-capture-gap`, `close-capture-gap` |
| `EventCaptureProofs` | theorems about `EventCapture` |
| `WriteLog` | the write log: claims, two-step intents and host transactions of concurrent calls |
| `WriteLogClients` | clients that send calls of several elements to `WriteLog`, repeat them and change their inputs |
| `WriteLogProofs` | theorems about `WriteLog` under `WriteLogClients` |
| `EdgeForward` | the edge box, a client of the platform's `WriteLog` |
| `EdgeForwardProofs` | theorems about `EdgeForward`: it implements `WriteLogClients`, and what follows for its samples |
| `EventWorkflows` | entity stream, consumer, enable and disable, materializer replicas, batch admission |
| `EventWorkflowsProofs` | theorems about `EventWorkflows` |
| `ResourceLease` | leases of the hosts over their PostgreSQL sessions, calls, connection changes, shutdown |
| `ResourceLeaseProofs` | theorems about `ResourceLease` |
| `AuthMemory` | auth facts of a principal in the hosts' memory, the bucket, the writers' drops, the watches |
| `AuthMemoryProofs` | theorems about `AuthMemory` |
| `MC...` | constants for TLC, one module per specification |

The modules meet at their interfaces.  `WalkEnds(h, p, adjusted)` of `RunQueue`
chooses freely among the outcomes that `RouterWalk`'s boundary can produce for a
queued run (a queued run has no caller: discard, event, failed, refused, or left for
replay).  `Admit` stands for every ingress producer, the admission of
`EventWorkflows` among them, whose stream is the one `EventCapture` fills.
`EdgeForward` extends `WriteLogClients`: each step of the platform on a forwarded
sample is a step of the write log, and the edge box is one of the clients whose calls
`WriteLogClients` leaves free.  That its steps are theirs is the theorem
`EdgeIsClient`.

### RunQueue

*State.*  One variable per column that a decision reads: `status`, `reason`,
`pin` (`manifest_digest`) and `report` (the generation whose
`deadline_adjustments_json` is stored) of `runs`; `queued`, `avail`, `owner`,
`lease`, `gen` (`claim_generation`) and `attempts` of `run_queue`.  `ahead[r]` is the
order of `available_at`: the visible rows that became visible before `r`.  A
host has `pc` (the step of `drain_one` it is in), `held` and `fence` (run and
generation of its claim), `plan` (what the walk decided), `phase` (shutdown) and
`admitting` (its open schedule transaction).  `published` is the set of runs whose
derived event is on the stream.

*Time* is abstract.  A lease is `none`, `live`, `expired` or `lapsed` (expired
longer than the janitor's grace); a row is `visible`, in `backoff` or `parked`.
`LeaseAges` and `BackoffElapses` are the clock.  A successful renewal restarts
a clock that is not counted, so it is a stuttering step; a failed one is
`HeartbeatLost`.

*Steps.*  One PostgreSQL transaction is one action; everything it does is in it.
A turn is `BeginTurn`, `Reap` or `ReapEmpty`, `Claim` (or `ClaimReplyLost`,
`GrantRefused`, `ClaimEmpty`), `CallerResolved` or `ReleaseClaim`, `WalkEnds` (or
`HeartbeatLost`), `RecordAdjustments`, `Publish` (or `PublishUnacknowledged`),
`Commit`.  `TurnError` ends a turn at any step and leaves the lease, as the `?` of the
code does.  `MayBeLocked` is the nondeterminism of `FOR UPDATE SKIP LOCKED`: a row
that another host may be holding may be passed over.  `Fenced` is `FENCED_PREFIX`:
owner and generation, not the expiry, which only renewal and `ReleaseClaim` also read.

*Shutdown.*  `Stop` makes the host `closing`: the pinned queue future is not polled
while ingress closes, so none of its turn steps is enabled and its lease ages.
`AdmissionClosed` starts the drain, and `DrainExit` ends it when
`pinned_backlog` reads empty.  The schedule task is dropped by the same signal but
a COMMIT already sent cannot be recalled: `ScheduleCommit` has no guard on the
phase.  `DrainedReleaseHasNoBacklog` says what the drain achieves beside it: nothing that
ingress admitted and nothing that was ever leased is left.

### RunContract

Four variables (`stage`, `epoch`, `outcome`, `emitted`) and four actions: a run is
admitted once, leased at most `MaxLeases` times, may emit once leased, and ends
once, never without a lease and with the outcome `event` only if the event is on
the stream.  `RunQueue` maps `status` to `stage`, `gen` to `epoch`, `reason` to
`outcome`, `published` to `emitted`, and `MaxAttempts + 1` to `MaxLeases`.

### RouterWalk

*State* follows `Walk`: `frontier`, the active node `current` with `attempt` and
its scheduled retry (`waiting`: the clock is the one bit that matters), `hops`,
`visits`, `failure`, `verdict`; `invoked` is the driver between a `NodeCall` and
its answer, `answer` what the boundary did.  `arrived` counts tokens put on
the frontier and exists for the account `TokensConserved`; no action reads it.

*Steps.*  `NextInvoke`, `NextWait`, `NextHopLimit` and `Settle` are `Wiring::next`;
`ApplySuccess`, `ApplyRetryable`, `ApplyError` and `ApplyCancelled` are
`Wiring::apply` with `fail_on_node_data` for its refusals; `Deliver` and
`InvokeFails` are the two ways the driver returns.  The outcomes of a node are
free, and so is the wiring among `Wirings`.

### EventCapture

*State.*  A WAL position is an index into `wal`; an entry is a transaction of this
database with its published rows, or a write of another database.  A row event is
`<<transaction, row>>`, which is also its message id.  `slot` has its state, first and
confirmed position and who created it.  The reader has its place in the loop
(`pc`, `polling`), its `session` and `cursor`, the feedback position `flushed`, the
buffered `txn`, and the publish pipeline (`acked`, `held`, `late`).  `ctl` is
the progress of one `recover-capture-gap`.

*Steps.*  The loop (`LoopTop`, `ReadGap`, `Preflight`, `SlotDrift`, `Poll`,
`OpenSession`, `OpenFails`), the drain (`ReceiveBegin`, `ReceiveCommit`,
`Keepalive`, `Feedback`, `ConnectionDrops`, `Reconnect`, `Sever`), the pipeline
(`SendAcked`, `SendUnacked`, `SendFails`, `SettleAll`, `Acknowledged`), the ends of the
process (`Crash`, `Shutdown`, `Restart`), and each verb step by step with
`RecoverFails` possible between any two.  PostgreSQL (WAL, slot, keepalive
positions) and JetStream (storage, duplicate window, a client buffer that
delivers late) are external and modelled from how the reader uses them.  The
ladder's counters are the choice between `OpenFails` (try again) and `Crash`.

### WriteLog, WriteLogClients

*State.*  `row[k]` is the committed row of an operation and idempotency key (state
and request hash), `claim[k]` the uncommitted row of an open transaction, `effects[k]`
the inputs whose work stands, once per execution.  A call has its `elements`, the
`answers` so far and its `phase`.  `Transacted` are the keys whose operation has SQL:
claim, work and outcome of such a key commit in one host transaction; a key without
SQL is claimed by one statement and finished by another.  `aged` are the keys whose row
is older than 30 days (only keys of `Ageing` get there), `expired[k]` the inputs whose
work stands although their row was deleted, and `stray` the keys under which a failed
export without SQL left work that no row names.

*Steps.*  One statement is one action: `ClaimKey` (CLAIM_SQL, which waits for an
uncommitted row of another transaction), `ReadClaim`, the outcomes of the export
(`RunValue`, `RunRefused`, `RunFailed`, `RunSilent`), `Finish`, and the ends of the
transaction (`Commit`, `CommitRolledBack`, `CommitUnread`).  `CallFails` is every end
without an answer: trap, deadline, cancellation, storage error, dead host.  A COMMIT
whose connection is gone is in `Limbo` until the server ends it
(`LimboCommits`, `LimboRollsBack`).  `Prune` is the write-log part of
`prune-record-history` (`audit_retention.rs:32-34`): it deletes the finished rows that
`RowAges` made old, at any moment, also between a claim and its read.  An error of an
export without SQL releases its claim (`intent.rs:418-424`, `:449-451`) although the export may have
changed something before it failed, so `Release` may leave the key in `stray`; a repeat
then works again.  Only the silent export keeps its claim.  What the log promises is
therefore bounded by the retention, and by the errors of exports without SQL; the
properties say so.  A call is of one operation, so its elements all have SQL or none
(`CallsAssumption`).  `WriteLogClients` adds clients that send any call of
`Calls` and forget its answer (`ClientsNext`, `ClientsSpec`).

### EdgeForward

*State.*  The edge's file (`intent`, `sample`), the device loop, the stored permit of
the `Notify` between store and forward, and the step of the forward with its sample,
its request at the platform and its count of credential failures.  A transaction of
the file is one step; a power loss (`Crash`) may come between any two.  A request that
the edge gave up (`Unreachable`, `ForwardDropped`) stays a call of the write log and
may still do its work, until `AnswerDropped`.

*Steps.*  `TakeFrame`, `StoreSample`, `Notify`, `StoreNothing`; `ReadPending`,
`WaitStored`, `Woken`, `Send`, `RouteRefuses`, `Receive`, `Unreachable`,
`CredentialRefused`, `Record`, `BackoffElapses`; `Stop`, `Stopped`, `Crash`,
`Restart`; the operator's `ResolveIntent` and `ResolveSample`; and the platform's
`PlatformRuns`, `PlatformFails`, `PlatformSettles`, `PlatformForgets`.  `Verdict` is `answer()`: what the
forward makes of each status.

### EventWorkflows

*State.*  The stream's messages by what triggers tell apart in them, the consumer's
state and delivery count of each, the trigger row of each workflow (version and
`enable_sequence`), the run rows by idempotency key, and for each replica its step, the
triggers its sweep read, the rest of its batch and the runs it is about to insert.
`since` records the tail at which an enable committed; no action reads it.

*Steps.*  `EnableReads` and `EnableCommits` are the two halves of an enable around its
commit, `Disable` one transaction; a replica takes `Sweep`, `Fetch`, `Prepare`,
`Terminate` or `AdmitReads`, `AdmitCommits`, then `Acknowledge` or `Nack`.  The
admission's transaction is two steps: what it reads and what it commits.
Acknowledgement waits pass at any time (`AckWaitPasses`), answers are lost
(`AdmitFails`), replicas die (`Crash`), and after `MaxDeliver` deliveries the broker
gives a message up.

### ResourceLease

*State.*  The registry's active connections, the deletes on their way to a host (`due`) and
the one that its memory is applying (`applying`);
per host the lease of each connection (state, active, epoch), the holder of its mutex,
the revoke tasks that wait for it, and the session task: its channel, `needed`,
`pending`, the lock statement that runs and whether the server granted it.  At the
server: which sessions live, how often each holds each advisory lock, abandoned
backends (`ghost`) and the session of a host outside the model (`rival`).  A call has
its connection, epoch and step; `broken` marks a call whose session was lost under it.

*Steps* follow `exclusive_call` (`ReadFact`, `Enter`, `Refuse`, `LockCall`,
`CheckLease`, `CheckRevision`) and the integration's call (`Resolve`, which reads the fact
again, and `Return`), `database_session` (`Connect`,
`NextPending`, `Acquired`, `AcquireTurn`, `CancelForCommand`, `HandleAcquire`,
`HandleRelease`, `HandleStop`, `SessionBreaks`) and `shutdown`.  A cancelled statement
may have been granted already: `CancelFoundGrant`.  The code's queue of turns holds
lease objects and passes over one that is no longer active; the model has one lease per
connection, so a new lease of a connection makes the old one's turn a turn of nobody
(`Forget`), which `NextPending` passes over.  A delete is applied in two steps, as in
`ConnectionMemory::apply`: `DeliverDelete` invalidates the lease and counts the revision,
`DropFact` drops the fact, and in between a call reads the new revision with the old
fact.  `WatchBreaks` (`ConnectionMemory::clear`, facts first, then leases) is one step at the
second of the two, because a call between them reads the fact from the registry, as it may
in any state in which the delete is due.

### AuthMemory

*State.*  The committed changes of one principal and the progress of each drop; the
bucket's entry with its revision; per host the watch, the messages it has not applied,
the replica's entry, the kept token answer; per request the ticket it took and where
its read stands.  Versions of grants and user row count the commits.

*Steps.*  `CommitChange` and the drop of one key (`DropKey`) or of everything under a
tenant (`DropLists`, `DropListed`), `Revoke` with `DropIdentity`; a request takes
`Miss`, `Query`, `Keep` and one of `UpdateAccepts`, `UpdateFails`, then `PutReturns` or
`PutTimesOut`; the watch takes `WatchStarts`, `WatchOpens`, `Apply`, `ApplyIdentity`,
`WatchBreaks`, `WatchClears`, and may lose messages unseen (`LinkBlips`).  Entries
expire at any moment, except that a request ends before a marker written during it
does: a read has five seconds, a put has one, the TTL is sixty.

## Runs

Bounds are constants of the configuration files.  All passing runs are exhaustive;
none uses a state constraint.

| Run | Configuration and size | What it checks |
| --- | --- | --- |
| `rollout` | 3 hosts under one owner name, h1 and h2 of the old release and stoppable, h3 of the new; 1 run; budget 2; 920,708 states | `TypeOK`, `SoleFence`, `RedeliveryBudget`, `DrainedReleaseHasNoBacklog`, `TerminalStands`, `LatestReportStands` |
| `two_runs` | 2 hosts, 2 runs, one parkable, the other scheduled and without workflow facts; budget 1; 317,541 states | `QueueRowIffLive`, `ParkedNeverRan`, `KeepsContract` (refinement) |
| `live` | 2 hosts, only h1 fair and stoppable; 1 run; every grant may be refused; budget 1; 26,212 states | `AdmittedRunEnds`, `StoppedHostExits`, `LeaseEnds` |
| `walk` | every wiring of two nodes, hop limit 4; 278,583 states | `TokensConserved`, `RetryBudget`, `HopsAccounted`, `BoundaryTotal`, `FirstVerdictDelivered`, `WalkEnds` |
| `capture` | two WAL histories, at most 2 rows, 2 acknowledgements in flight, 1 expiry, 1 loss of the slot; 585,104 states | `ConfirmedPublished`, `CommitOrder`, `GapRowMissesNone`, `SlotFollowsWal` |
| `writelog` | 2 calls at a time out of 4, over two keys with SQL and one without whose row may expire, 2 inputs; 581,520 states | `WorkedOnce`, `ValueIsTrue`, `OutcomeStands`, `CallEnds` |
| `edge` | 2 samples, one under a key with SQL, the other under a row that may expire, 2 requests at the platform, 2 faults, credential bound 2; 350,307 states | `ForwardedIsRecorded`, `SampleIffFinished`, `SettledInOrder`, `SampleSettles` |
| `lease` | 1 host and a rival, 2 connections of two keys, one of them changing, 1 change, 1 lost session, shutdown; 276,559 states | `SoleCall`, `WorksUnderLock`, `LockCounted`, `ResultUnbroken`, `RevokedLeaseEnds`, `FreeKeyAcquired` |
| `events` | 2 replicas, 2 workflows (one with two versions), 2 messages of 3 kinds, batches of 2, 2 deliveries, 1 verb, 1 fault; 953,551 states | `OneRunPerDelivery`, `EnabledStarts` |
| `auth` | 1 host, 2 requests, 1 change of either kind or a revocation, 3 revisions, 1 broken watch; 2,488,851 states | `GrantsFresh`, `TokensFresh` |
| `guarded_head`, `lease_leak` | small instances | the first two disagreements [below](#where-code-and-text-disagree) |

A type invariant is stated and proved for each module; `rollout` checks the first.
`EmitBeforeComplete` and `VerdictStands` are proved and are in no run.

*Why the bounds are enough for the questions asked.*  A stale holder, the present
holder and the janitor are three actors, so three hosts and one run reach every
fence race; with a budget of 2 a run is leased three times, by crash and by
credential release in either order.  FIFO order and the independence of rows
need two runs.  Hosts share an owner name because that is the harder case: the
generation is then the only thing that tells them apart.  Two nodes give every
shape that a walk meets locally (line, fan-out, merge, self-loop, cycle, error edge,
zero, one or two terminals); hop limit 4 lets a loop close twice with a retry; the
proofs remove these bounds.  In `capture` one history has a foreign write between
two transactions (keepalives, an idle database) and the other a transaction
that publishes nothing before one that fills the pipeline (partial failure);
larger instances, with a two-row transaction before another and with a foreign write
between them, were explored while the module was written and agree.  The calls of
`writelog` name two keys with SQL in both orders, so each of two calls can have an
uncommitted claim that the other one comes to; they change the input under a key and
repeat a key within a call, so two of them at a time reach every conflict over a key.  One
key without SQL shows the two-step claim and the expiry of its row; the proof removes the
bounds.  Two samples and two requests let a late request of one sample meet the next; two
faults let a timeout come together with a lost COMMIT or a power loss, and a row expire
under a request that is repeated.
In `lease` the two keys show that one does not keep the other waiting; two connections
of one key are the instance of `lease_leak`.  `SoleCall`, `WorksUnderLock` and
`LockCounted` were also checked with both connections changing and sharing their key
(2,285,464 states).  One host is enough for what a call sees
of others, which is the rival's session.  Two messages and two replicas let a
replica's sweep, an enable and a redelivery interleave; one verb moves, enables or
disables a workflow, and workflows start in both states.  In `auth` hosts meet only in
the bucket, where the put of another host is a put whose answer came too late.

*Symmetry.*  `two_runs` permutes all hosts, which there carry one release and one
owner name; `rollout` permutes only the two old replicas, `events` the two replicas of
the materializer.  Runs with liveness properties use none.

*Deadlock* is checked in `rollout`, `two_runs`, `walk`, `capture`, `writelog` and
`guarded_head`.  The other systems really stop: a host that was told to stop has
exited (`live`, `lease`), every frame is taken and settled (`edge`), every message is
settled (`events`), or the bounds on changes and revisions are used up (`auth`).

*Mutants.*  For each property of each passing run, a mutated form of a definition
stands before it in its module (for instance `FencedByOwner` before `Fenced`) and is
named in `PROJECT.json`; with it, TLC finds the property violated.

## Fairness

*RunQueue.*  `TurnFairness` says: time passes (weak fairness of `LeaseAges`,
`BackoffElapses`); Kubernetes restarts a dead host; ingress cleanup is bounded by a
timeout; a storage call returns; the node deadline and the hop limit end every walk.
The steps of a turn after the claim are weakly fair, since a crash or an error is
also an end of the turn.  The steps before a lease (begin, reap, drain, claim) are
strongly fair: a host that gets there again and again is not interrupted at
the same step every time, since the turn is a loop with a fixed interval and errors
there are transient.  Only hosts in `Steady` are fair.  The others may hang at any step
with the lease in their hands, which is what the lease is for.  `LiveSpec` adds that
claims are attempted, whether or not the database refuses the grant.
`AdmittedRunEnds` and `StoppedHostExits` are stated under `GrantsSucceed` (a guard does
not refuse every grant); `LeaseEnds` does without.

*RouterWalk.*  Weak fairness of `Next`: node calls return and sleeps end.

*EventCapture.*  Weak fairness of what the reader, its container, PostgreSQL and
JetStream do by themselves (`Progress`), and `<>[][~Fault]_vars`: faults may come in
any number and order but stop at some time.  The operator owes nothing, and
`SlotFollowsWal` therefore speaks of a slot that has not been lost.

*WriteLogClients* (`ClientsLiveSpec`).  Weak fairness of a host's steps on each call and of the server's
end of a transaction; strong fairness of `ClaimKey`, since PostgreSQL wakes a waiting
insert when the other transaction ends.  No failure or deadline is forced, so
`CallEnds` shows that calls end without them.

*EdgeForward.*  Weak fairness of the forward, of the device call's end, the notify,
the stop, the restart of the unit and the platform's steps.  Faults are bounded by
`MaxFaults` and never forced; frames are not forced to arrive.

*ResourceLease.*  Weak fairness of the session task, the connect, the notice of a dead
session, the revoke tasks, the steps of a call that holds the mutex (an integration's
call has a deadline) and the server's end of abandoned backends; strong fairness of
the grant of a lock that is free again and again while its statement waits.  Losses
and changes are bounded and never forced.

## Proofs

Every invariant and every action property that a passing run checks is stated by a
theorem, so the bounds of the runs matter for liveness alone.  The theorems hold for
every value of the constants, from the named assumptions of the modules:

| Assumption | Says |
| --- | --- |
| `ConstantsAssumption` (RunQueue) | the budget is positive, each host has a release and an owner name, the markers are not members of the sets |
| `WiringsAssumption` (RouterWalk) | what `Wiring::compile` checks |
| `WriteLogAssumption`, `CallsAssumption` | the markers are not members of the sets; a call is a nonempty sequence of elements, all with SQL or none |
| `EdgeAssumption` | the keys are the frames, a call carries one sample, the credential bound is positive |
| `BoundsAssumption` (EventCapture) | the bounds are natural numbers and the histories are sequences of entries |
| `EventAssumption` (EventWorkflows) | versions and bounds are numbers, `Decide` is defined for every trigger and kind |
| `LeaseAssumption` (ResourceLease) | each call has a host, each connection a key; connections are finite; the markers are not members |
| the five of AuthMemory | each request has a host and a kind of read, bounds are numbers |

No theorem has a hypothesis of its own.  Where the code does less than one would wish, the
property says what it does: a drained release may keep a late schedule admission that
nobody leased, and a key that two connections share may be locked too often.  The stronger
forms are the properties of `MCLateSchedule` and `lease_leak`, where TLC finds them violated.

**RunQueueProofs.**  `IInv == TypeOK /\ Rows /\ Steps /\ Tokens /\ Effects /\
RedeliveryBudget`.  None of the properties is inductive by itself:

- `SoleFence` speaks only of hosts whose fence matches now.  A renewed grant could
  make two of them match unless every fence is a generation already granted and no
  two hosts hold the same generation of a run: `Tokens`.
- `ParkedNeverRan` needs that a dispatched run was never leased, which ties `status`
  to `gen`, `attempts` and `lease`: `Rows`.
- `EmitBeforeComplete` needs that a host which is about to commit an event has its
  acknowledgement: `Steps`; and `LatestReportStands` that no stored report is newer
  than the generation: `Effects`.
- `RedeliveryBudget` is inductive beside `Rows`; its second conjunct (a released row
  has budget left) is what keeps the claim predicate's `lease IS NULL` arm, which
  does not read the budget, from granting one lease too many.

Each action has a lemma that it preserves `IInv`; `Invariance` combines them, and
`TypeCorrect`, `QueueRows`, `FenceIsSole`, `BudgetHolds`, `ParkedIsClean` and
`EmitPrecedesEnd` follow.  `TerminalIsFinal` and `LatestReportWins` are action
properties proved from the same invariant.  `QueueKeepsContract` is the refinement:
`Init` maps to `RunContract`'s, and under `IInv` each action maps to `Admit`,
`Lease`, `Emit`, `End` or a stutter.  The drain is a second induction: a run that ingress
admitted, or that was ever leased, always has a host of its release that has not exited
(`RunIsCarried`), since a host exits only when it reads its pinned backlog empty, ingress
admits only through a host that has not begun to drain, and a lease is taken only by a host
of the run's release that still takes turns.  `DrainLeavesNoBacklog` follows.  What the
schedule task commits is not carried until it is leased, and is all that can be left.

**RouterWalkProofs.**  `IInv == TypeOK /\ Loop /\ Records /\ Hops /\ RetryBudget /\
BoundaryTotal /\ FirstVerdictDelivered`.  `Loop` relates the phases of the driver
(an invocation has an active node and a running walk, an ended walk has none);
`Records` relates verdict, failure, caller and status, which is why no
contract error of the boundary can occur.  From it: `WalkTypeCorrect`,
`HopLimitHolds`, `RetryBudgetHolds`, `BoundaryIsTotal`, `FirstVerdictIsDelivered`,
`VerdictIsFinal`.  `TokensAreConserved` is a second induction on top of it: while
the walk runs the account is exact (`RunningIsExact`), each way of consuming a token
balances it, and only an end may leave one token over; it rests on lemmas that
count the occurrences of a node in a concatenation and in a tail.

**WriteLogProofs.**  `LogInv` is the type invariant, `CallShape`, `TablesSound`,
`ValueIsTrue` and `RetainedSound` (an old row exists; only a key without SQL has stray work).
`WorkedOnce` is not inductive: that a key is new says nothing by itself about a call
that works on it.  `TablesSound` ties the three tables together: `RowSound` says what a
row's state tells of the work under its key, `ClaimSound` that an uncommitted claim is
of a key without a row and belongs to the call that is at that key, `CallSound` what
each phase of a call implies for claim, row and work of its element, and `Alone` that
calls at work have different keys.  Two kinds of lemma carry the argument: `Moved` and
`Answered` say what a step does to phases and answers, `OneKeyChanges` that a step
which changes one key and leaves no call at work on it keeps the tables sound; each
action then has one lemma.  `Prune` changes many keys at once, but all of them finished:
`PruneRows` says that no call is at work on such a key, and that the answers given for it
stay true because its input is then in `expired`.  From `LogInvariance`
follow `LogTypeCorrect`, `WorkIsDoneOnce` and `AnsweredValueIsTrue`; `OutcomesStand` is
an action property from the same invariant.

**EdgeForwardProofs.**  `Inv == EdgeInv /\ LogInv`.  The lemmas about the log are stated
for its steps, whoever the client is, so the log's half is theirs.  `EdgeIsClient`
shows that every step of the edge box is a step of `ClientsNext` or leaves the log alone;
`LogServesEdge` then carries the three theorems about the log over to it.  For the
edge's own properties the invariant adds three links.  `Sending`: the forward holds the
oldest pending sample, its request carries that sample, and an acceptance is of a recorded
one.  `OneSample`: a request that was given up still carries the one sample it was sent
with.  `InOrder`: as soon as the platform has, or had, a sample in its hands in any form (a
request, a claim, a row, work, an expired row), every older sample is settled; that is what makes
`SettledInOrder` survive late requests.  The oldest pending sample is a minimum over
natural numbers, which exists by well-foundedness (`LeastElement`).

**EventWorkflowsProofs.**  `Inv` is `TypeOK`, the two properties, and `Undelivered` (an
unpublished message is ready, a batch has published messages), `RowKeys` (a run row
has the key of its workflow and message, and one admission decides each pair once) and
`Decided`: an admission between its reads and its commit has a row for every workflow that
is due now, and one that waits to acknowledge has started it.  `Decided` is what an
acknowledgement needs.  An enable that commits in between does not break it: `since` is
then the tail of the stream, so no message that is in a batch is due for it.

**EventCaptureProofs.**  `Inv == TypeOK /\ Working`.  `ConfirmedPublished` is about the
slot; a step that moves it takes a position from the reader, which took it from a pass,
which took it from acknowledgements.  `Delivered` states the claim at each of these places
(`FlushedPublished`, `CursorPublished`, `AcksPublished`) and `Reading` how they relate: the
feedback skips no transaction of this database, the session's buffered transaction is the
next one.  `CommitOrder` is strengthened to what may still be stored: `Ordered(e)` says that
no event of a later transaction lies before the first copy of `e`, and it holds of every
event on the stream, of every row behind the slot's start, of the transaction that is
published, and of every publish that waits in the client's buffer (`Buffered`).
`GapRowMissesNone` follows from `Recovering`, which says at each step of
`recover-capture-gap` what the values it has read cover; the newest event of the stream
bounds what is missing because of `Ordered`.

**AuthMemoryProofs.**  `Inv == TypeOK /\ AnswerInv /\ TokenInv`, each a conjunction of one
predicate per host and one per request.  The predicates are of values rather than of
variables, so that a step of one host or request leaves the others' untouched and four
kinds of step (`HostStep`, `RequestStep`, `WriteStep`, `FactStep`) cover all actions.  The
argument: the bucket holds nothing outdated by a published drop (`BucketGood`); an outdated
message has a later one behind it (`QueueGood`); an outdated replica entry has one coming
(`EntryGood`); and a request with an outdated answer either took its ticket at a revision
that the bucket has left, so its put is refused, or its put was accepted and has been
replaced (`RequestGood`).  One revision is one answer (`Same`), which ties these together.
Tokens have the same argument over the identity marker.

**ResourceLeaseProofs.**  `Inv` has one predicate per host and one per call.
`RevokedOnce`: a revoked lease has its task waiting or its one release in the channel, and
then nobody holds its mutex.  `TurnsGood`: at most one lease holds a key, and the one
being acquired shares it with none that is held.  `LocksGood`: a live session has the
server's lock of each lease that is held.  `CallGood`: a call with the mutex has its
lease held, unless the host saw the session break, and then the epoch has moved.
`Exclusive`: a lock has one session.  `OneCallPerResource`, `CallWorksUnderLock` and
`UsedResultUnbroken` follow, for connections with shared keys too.
`LockCountFollowsLease` needs a second layer, `Single`: a lease asks for its lock once
(`AskedOnce`: its acquire is in the channel before any release of it, or it has one turn, or
its statement runs, or it is held), and a live session has each lock at most once and only
for a lease (`Counted`).  Both are stated for the connections that share their key with no
other one (`Own`): for a shared key they are false, because a release there queues a lease that is
held already, and only the lower bound of the count holds.

**Model-checked only.**  Liveness under fairness: `AdmittedRunEnds`, `LeaseEnds`,
`StoppedHostExits`, `WalkEnds`, `SlotFollowsWal`, `CallEnds`, `SampleSettles`,
`RevokedLeaseEnds`, `FreeKeyAcquired`.  It needs `ENABLED` and fairness, which the prover
does not reason about.

## Where code and text disagree

Two disagreements are runs of the project.  The property states what the repository
says, and the counterexample is a behaviour of the code.

1. **A refused first grant never spends the budget** (`guarded_head`,
   `NoEternalHead`).  `advance_claim_attempts_sql` (`run-state/src/queue/sql.rs:114`)
   counts an attempt only when a prior lease exists.  A run whose first grant a
   guard refuses therefore stays the FIFO head, which the comment above the
   statement says it ended.  `LeaseEnds` shows that the fix works for a run that was
   leased before.
2. **A lock is taken twice and given back once** (`lease_leak`, `LockFollowsLease`).
   No session is lost for it: a connection of a key is disabled, another one of the key is
   enabled, acquired and held, and then the old one's release comes.
   On a release, `resource_lease.rs:485-491` queues every active lease of the same key,
   one that is held already too; the session sends `pg_advisory_lock` again, and the
   later release unlocks once.  The key stays locked until the session ends, against
   `docs/architecture/execution.md:789` ("releases its lease after the current call
   finishes").

Nine more have a configuration each and no run in `PROJECT.json`; TLC finds the
property violated.

| Configuration, module | Property | Disagreement |
| --- | --- | --- |
| `MCLateSchedule`, `MCRunQueue` | `DrainedReleaseIsEmpty` | `host.rs:2653` says admission closes completely before the queue drains; the schedule task is joined after it, and its COMMIT may be in flight. What is left is then a run that nobody ever leased; `DrainedReleaseHasNoBacklog` excludes everything else. |
| `MCWalkCaller`, `MCRouterWalk` | `CallerReleased` | `settle` looks for any verdict, and an emit is one; the comment on `UnreleasedCaller` speaks of "no `Terminal::Respond` reached". A completed walk can leave its caller unanswered. |
| `MCReaderSlot`, `MCEventCapture` | `ReaderNeverCreatesSlot` | The client's `start` runs `ensure_replication_slot`; a slot that is dropped after the preflight is created anew, with no gap row. The next preflight refuses that slot as shape drift (`failover = false`). |
| `MCResync`, `MCEventCapture` | `ResyncBeforeCapture` | `recover-capture-gap` creates the slot before it writes the gap row, in another database; a reader that looks in between, or a verb that dies there, resumes capture over an unrecorded gap. |
| `MCEdgeRepeat`, `MCEdgeForward` | `RefusedIsNotRecorded` | `services/edge/src/serve.rs:97-98`: "The platform key makes the repeat of a dropped forward harmless". A repeat that meets the open or uncertain first request is answered `intent_uncertain`, which `forward.rs:394-430` records as refused although the platform may have recorded the sample. |
| `MCEdgeLate`, `MCEdgeForward` | `RecordedOnce` | The same sentence: a forward that is repeated after its finished row expired (30 days, `audit_retention.rs:33`; the edge keeps a pending sample without limit) is recorded a second time. |
| `MCDeletedLease`, `MCResourceLease` | `DeletedLeaseEnds` | `docs/architecture/execution.md:789`: a delete "releases its lease after the current call finishes". A call that read its fact before the delete makes a new lease after it; if its wait of 30 seconds ends first, it returns before the revision check (`connection_facts.rs:169`), and the active lease of the deleted connection stays, with its lock once it is granted. |
| `MCEnableWindow`, `MCEventWorkflows` | `BoundaryStarts` | `docs/architecture/execution.md:627` says that a message published between the read of the tail and the commit "starts the workflow, which is the safe side". A replica that handles it before the commit acknowledges it without a run. `EnabledStarts` holds from the commit on. |
| `MCUnderDrop`, `MCAuthMemory` | `DeleteRefusesPut` | A drop of all keys under a tenant marks the keys that exist (`identity/platform/src/kv_memory.rs:125-138`). A key without an entry gets no marker, so a read from before the commit puts its old answer afterwards, against `docs/architecture/execution.md:676` and `:686`; the TTL bounds it. |

Notes from reading that no run states:

- After a severed drain `stream.shutdown()` cancels the token that the client shares
  with the loop, so the ladder never re-opens a session after a sever and the
  process ends; `docs/operations/gcp.md:435` says of a lost slot "It stays running
  and does not exit."  The model's `Sever` ends the process; the restarted one
  waits.
- The client's own reconnect keeps the reader's buffered transaction.  If the slot
  was re-created in between, that transaction is not sent again and keepalives are
  not confirmed until the next `Begin`.
- For a missing slot `start_lsn` is the LSN of a row; a row earlier in the same
  transaction may be unpublished.  `start_at` covers it, and `GapRowMissesNone` states
  the row's promise by both.
- `keep_grants` copies `provisioned` from the entry it replaces and writes it under a
  new TTL, so a user row that was seen once is answered for as long as grants are read.
- The forward's credential count is reset only when a pass ends with nothing pending
  (`Pass::Done`), not by each accepted sample: "in a row" is by pass.

## What is not modelled

- *Data the control does not read:* payloads, headers, causation chains, actor and
  principal identities, input ports and node configuration, throttle keys, log
  lines and metrics.
- *Cron matching* and the choice of due moments; the schedule's dedup key is the run
  id.
- *Lengths of time:* leases, grace, backoffs, deadlines, poll intervals.  What is
  modelled is that they pass.  A host clock behind the database clock is one of the
  errors `TurnError` stands for.
- *Row decoding and relation lookup* in the reader: their failure is `Crash` or `Sever`.
- *The release of an attached caller* (`transitions.rs:143-187`) and the live
  caller's wait.
- *Probes, listeners and native plugin cleanup* in the shutdown sequence.
- *Edge:* status socket, TLS, enrolment and the reading of a frame from the port.
- *Event workflows:* what a trigger's condition decides is the constant `Decide`;
  preview and the schedule triggers of the lifecycle verbs.
- *Leases of local targets*, which are a mutex of one process.
- *Auth memory:* the environment status key, which works as the principal key does, and
  a bucket that is created anew after NATS lost it.

Most of the repository's lines are outside: about 284,000, of which some 7,500
are mapped.  The largest files generate or check WIT, SQL and TypeScript, parse
manifests, build and publish artifacts, or drive PostgreSQL, NATS and Kubernetes from a
one-shot command.  Their correctness is a relation between large inputs and outputs,
which TLC cannot enumerate and for which the repository's own golden tests are the
better tool.  What has state that outlives a call and more than one actor is in the
modules above, or in the plan below.

## Plan

In this order:

1. An abstract specification of capture (each row of each commit at least once, in
   commit order, or covered by a gap row) that `EventCapture` implements, and one of a
   write log (a key is new, uncertain or finished) that `WriteLog` implements; the
   invariants of both modules have what their step proofs need.
2. `EventWorkflows` as a producer of `RunContract`: each admitted delivery is one
   admission of a run.
3. The caller's release in `RunQueue`.
4. The reconciliation verbs of environment control and the publication of a release,
   as far as two commands can meet in one environment.

## Running

    tlc -workers 2 -config MCRollout.cfg MCRunQueue     # and so on, see PROJECT.json
    tlapm RunQueueProofs.tla                            # and the other ...Proofs modules

The longest runs (`writelog`, `rollout`, `lease`) take two to three minutes on two cores; a proof
module takes one to four minutes, `ResourceLeaseProofs` the longest.
