----------------------------- MODULE EdgeForward -----------------------------
(***************************************************************************)
(* The edge box and the platform route it forwards to: the device loop     *)
(* that turns frames into stored samples, the sample store, the forward    *)
(* that sends each sample until the platform answers for it, the stop, the *)
(* restart and the operator's commands, composed with the write log that   *)
(* absorbs repeated sends on the platform.                                 *)
(*                                                                         *)
(* A sample key is a fresh UUID; here it is the number of its frame, which *)
(* is also the order of the sample rows, since one device call runs at a   *)
(* time.  A transaction of the edge's file is one step.                    *)
(***************************************************************************)
EXTENDS WriteLogClients, FiniteSetsExt

CONSTANTS
    Frames,           \* frames that the device sends: keys 1..Frames
    Body,             \* the request hash of a sample, equal on each send
    CredentialBound,  \* credential failures in a row that stop the forward
    MaxFaults         \* bound on the failures of a behaviour

ASSUME EdgeAssumption ==
    /\ Frames \in Nat /\ MaxFaults \in Nat /\ CredentialBound \in Nat \ {0}
    /\ Keys = 1..Frames /\ Body \in Inputs
    /\ Calls = {<<[key |-> k, input |-> Body]>> : k \in Keys}   \* one sample a call

VARIABLES
    edge,     \* the process: "up", "stopping" or "down"
    frame,    \* frames taken from the port so far
    device,   \* the device loop: "idle", "call", or "notify" after the commit
    intent,   \* intent[k]: the row of the edge's intent log
    sample,   \* sample[k]: the row of the sample store
    permit,   \* the stored permit of the Notify
    forward,  \* the step of the forward
    sending,  \* the sample that the forward sends
    call,     \* its request at the platform
    inARow,   \* credential failures in a row
    faults    \* failures so far

edgeVars == <<edge, frame, device, intent, sample, permit>>
fwdVars  == <<forward, sending, call, inARow>>
vars     == <<logVars, edgeVars, fwdVars, faults>>

Init ==
    /\ LogInit
    /\ edge = "up" /\ frame = 0 /\ device = "idle" /\ permit = FALSE
    /\ intent = [k \in Keys |-> "none"] /\ sample = [k \in Keys |-> "none"]
    /\ forward = "read" /\ sending = 0 /\ call = NoRequest /\ inARow = 0
    /\ faults = 0

Fault == faults < MaxFaults /\ faults' = faults + 1

-----------------------------------------------------------------------------
(* The device loop: one frame at a time, each under a fresh key.            *)

\* A frame arrives and its intent begins.
TakeFrame ==
    /\ edge = "up" /\ device = "idle" /\ frame < Frames
    /\ frame' = frame + 1
    /\ device' = "call"
    /\ intent' = [intent EXCEPT ![frame + 1] = "begun"]
    /\ UNCHANGED <<logVars, edge, sample, permit, fwdVars, faults>>

\* Mutant of StoreSample: the sample is inserted before the outcome is stored.
StoreSampleFirst ==
    /\ device = "call"
    /\ device' = IF sample[frame] = "none" THEN device ELSE "notify"
    /\ sample' = [sample EXCEPT ![frame] = IF @ = "none" THEN "pending" ELSE @]
    /\ intent' = [intent EXCEPT ![frame] = IF sample[frame] = "none" THEN @ ELSE "finished"]
    /\ UNCHANGED <<logVars, edge, frame, permit, fwdVars, faults>>

\* SampleIntents::finish: the outcome and the sample in one transaction.
StoreSample ==
    /\ device = "call"
    /\ device' = "notify"
    /\ intent' = [intent EXCEPT ![frame] = "finished"]
    /\ sample' = [sample EXCEPT ![frame] = "pending"]
    /\ UNCHANGED <<logVars, edge, frame, permit, fwdVars, faults>>

\* Mutant of Notify: only a forward that waits already is woken.
NotifyWaiters ==
    /\ device = "notify"
    /\ device' = "idle" /\ permit' = (forward = "wait")
    /\ UNCHANGED <<logVars, edge, frame, intent, sample, fwdVars, faults>>

\* notify_one: a permit stays until a wait takes it.
Notify ==
    /\ device = "notify"
    /\ device' = "idle" /\ permit' = TRUE
    /\ UNCHANGED <<logVars, edge, frame, intent, sample, fwdVars, faults>>

\* The operation refuses the frame and its key is released; or a trap, the
\* deadline or an outcome without a value leaves the intent begun.
StoreNothing ==
    /\ device = "call"
    /\ device' = "idle"
    /\ \/ intent' = [intent EXCEPT ![frame] = "none"] /\ UNCHANGED faults
       \/ UNCHANGED intent /\ Fault
    /\ UNCHANGED <<logVars, edge, frame, sample, permit, fwdVars>>

-----------------------------------------------------------------------------
(* The forward.                                                             *)

Pending == {k \in Keys : sample[k] = "pending"}

\* Mutant of Oldest: the newest sample goes first.
Newest == Max(Pending)

\* The forward re-reads the store after each answer.  The code reads up to 16
\* samples at a time, which is the same: only the forward settles samples while
\* the edge is up, and a new sample is the last one.
Oldest == Min(Pending)

\* The read of the pending samples, or its end: Pass::Done.
ReadPending ==
    /\ forward = "read"
    /\ IF Pending = {}
       THEN forward' = "done" /\ inARow' = 0 /\ UNCHANGED sending
       ELSE forward' = "send" /\ sending' = Oldest /\ UNCHANGED inARow
    /\ UNCHANGED <<logVars, edgeVars, call, faults>>

\* wait_stored begins after the pass that found nothing.
WaitStored ==
    /\ forward = "done" /\ forward' = "wait"
    /\ UNCHANGED <<logVars, edgeVars, sending, call, inARow, faults>>

Woken ==
    /\ forward = "wait" /\ permit
    /\ forward' = "read" /\ permit' = FALSE
    /\ UNCHANGED <<logVars, edge, frame, device, intent, sample, sending, call, inARow, faults>>

\* The request reaches a host that serves the route.
Send ==
    \E r \in Requests :
        /\ forward = "send"
        /\ Submit(r, <<[key |-> sending, input |-> Body]>>)
        /\ forward' = "sent" /\ call' = r
        /\ UNCHANGED <<edgeVars, sending, inARow, faults>>

\* A 4xx status before the route's operation, or a body without the key field.
RouteRefuses ==
    /\ forward = "send" /\ Fault
    /\ forward' = "refuse"
    /\ UNCHANGED <<logVars, edgeVars, sending, call, inARow>>

\* Mutant of Verdict: an answer of any kind is an acceptance.
VerdictStatus(r) == IF phase[r] = "answered" THEN "accept" ELSE "backoff"

\* fn answer: what the platform did with the sample.
Verdict(r) ==
    CASE phase[r] = "failed"                              -> "backoff"
      [] phase[r] = "answered" /\ answers[r] = <<"value">> -> "accept"
      [] OTHER                                            -> "refuse"

Receive ==
    /\ forward = "sent"
    /\ Collect(call)
    /\ forward' = Verdict(call) /\ call' = NoRequest
    /\ UNCHANGED <<edgeVars, sending, inARow, faults>>

\* No connection, no answer in 30 seconds, or a store error: Pass::Unreachable.
\* A request that timed out is still at the platform.
Unreachable ==
    /\ forward \in {"read", "send", "sent", "accept", "refuse"} /\ Fault
    /\ forward' = "backoff" /\ call' = NoRequest
    /\ UNCHANGED <<logVars, edgeVars, sending, inARow>>

\* A 401 or 403 status: Pass::Credential.
CredentialRefused ==
    /\ forward = "send" /\ Fault
    /\ inARow' = inARow + 1
    /\ forward' = IF inARow' >= CredentialBound THEN "stopped" ELSE "backoff"
    /\ UNCHANGED <<logVars, edgeVars, sending, call>>

\* update_pending, of a sample that is still pending.
Record ==
    /\ forward \in {"accept", "refuse"} /\ sample[sending] = "pending"
    /\ sample' = [sample EXCEPT ![sending] =
                     IF forward = "accept" THEN "forwarded" ELSE "refused"]
    /\ forward' = "read"
    /\ UNCHANGED <<logVars, edge, frame, device, intent, permit, sending, call, inARow, faults>>

BackoffElapses ==
    /\ forward = "backoff" /\ forward' = "read"
    /\ UNCHANGED <<logVars, edgeVars, sending, call, inARow, faults>>

\* Nobody reads the answer of a request that the forward gave up.
AnswerDropped(r) ==
    /\ r # call /\ Collect(r)
    /\ UNCHANGED <<edgeVars, fwdVars, faults>>

-----------------------------------------------------------------------------
(* The process and its operator.                                            *)

\* The forward's task is gone.
ForwardDropped == forward' = "off" /\ sending' = 0 /\ call' = NoRequest /\ inARow' = 0

\* Frames and the forward stop; the device call in flight finishes.
Stop ==
    /\ edge = "up" /\ Fault
    /\ edge' = "stopping" /\ ForwardDropped
    /\ UNCHANGED <<logVars, frame, device, intent, sample, permit>>

Stopped ==
    /\ edge = "stopping" /\ device = "idle"
    /\ edge' = "down" /\ permit' = FALSE
    /\ UNCHANGED <<logVars, frame, device, intent, sample, fwdVars, faults>>

\* Power loss: a device call in flight leaves its intent begun.
Crash ==
    /\ edge \in {"up", "stopping"} /\ Fault
    /\ edge' = "down" /\ device' = "idle" /\ permit' = FALSE /\ ForwardDropped
    /\ UNCHANGED <<logVars, frame, intent, sample>>

Restart ==
    /\ edge = "down"
    /\ edge' = "up" /\ forward' = "read"
    /\ UNCHANGED <<logVars, frame, device, intent, sample, permit, sending, call, inARow, faults>>

\* wamn-edge intents resolve, while the edge is stopped.
ResolveIntent(k) ==
    /\ edge = "down" /\ intent[k] = "begun"
    /\ intent' = [intent EXCEPT ![k] = "resolved"]
    /\ UNCHANGED <<logVars, edge, frame, device, sample, permit, fwdVars, faults>>

\* wamn-edge samples resolve, while the edge is stopped.
ResolveSample(k) ==
    /\ edge = "down" /\ sample[k] = "refused"
    /\ sample' = [sample EXCEPT ![k] = "resolved"]
    /\ UNCHANGED <<logVars, edge, frame, device, intent, permit, fwdVars, faults>>

-----------------------------------------------------------------------------
\* A host works on request r; an export that fails counts as a failure.
PlatformRuns(r) ==
    /\ HostStep(r)
    /\ IF phase[r] = "run" /\ phase'[r] = "failed" THEN Fault ELSE UNCHANGED faults
    /\ UNCHANGED <<edgeVars, fwdVars>>

PlatformFails(r) == CallFails(r) /\ Fault /\ UNCHANGED <<edgeVars, fwdVars>>

PlatformSettles(k) ==
    (LimboCommits(k) \/ LimboRollsBack(k)) /\ UNCHANGED <<edgeVars, fwdVars, faults>>

\* Rows of the write log grow old and expire, whatever the edge still holds.
PlatformForgets ==
    (Prune \/ \E k \in Keys : RowAges(k)) /\ UNCHANGED <<edgeVars, fwdVars, faults>>

ForwardStep ==
    \/ ReadPending \/ WaitStored \/ Woken \/ Send \/ Receive \/ Record \/ BackoffElapses

Next ==
    \/ TakeFrame \/ StoreSample \/ Notify \/ StoreNothing
    \/ ForwardStep \/ RouteRefuses \/ Unreachable \/ CredentialRefused
    \/ Stop \/ Stopped \/ Crash \/ Restart \/ PlatformForgets
    \/ \E k \in Keys : ResolveIntent(k) \/ ResolveSample(k) \/ PlatformSettles(k)
    \/ \E r \in Requests : AnswerDropped(r) \/ PlatformRuns(r) \/ PlatformFails(r)

Spec == Init /\ [][Next]_vars

\* Tasks of the edge and of the platform run; the server ends a transaction; the
\* box is restarted.  Failures are bounded by MaxFaults and never forced, so the
\* liveness below is about what happens once they stop.
LiveSpec ==
    /\ Spec
    /\ WF_vars(ForwardStep) /\ WF_vars(StoreSample \/ StoreNothing) /\ WF_vars(Notify)
    /\ WF_vars(Stopped) /\ WF_vars(Restart)
    /\ \A k \in Keys : WF_vars(PlatformSettles(k))
    /\ \A r \in Requests : WF_vars(PlatformRuns(r)) /\ WF_vars(AnswerDropped(r))

-----------------------------------------------------------------------------
(* Properties.                                                              *)

\* Every variable of the edge keeps its type.
TypeOK ==
    /\ LogTypeOK
    /\ edge \in {"up", "stopping", "down"} /\ frame \in 0..Frames
    /\ device \in {"idle", "call", "notify"} /\ permit \in BOOLEAN
    /\ intent \in [Keys -> {"none", "begun", "finished", "resolved"}]
    /\ sample \in [Keys -> {"none", "pending", "forwarded", "refused", "resolved"}]
    /\ forward \in {"off", "read", "done", "wait", "send", "sent", "accept", "refuse",
                    "backoff", "stopped"}
    /\ sending \in 0..Frames /\ call \in Requests \cup {NoRequest}
    /\ inARow \in 0..CredentialBound /\ faults \in 0..MaxFaults

\* A sample that the edge marks forwarded is recorded by the platform, whatever
\* was repeated, lost or answered late: its work was done once under a row that
\* is finished, or that finished and expired.
ForwardedIsRecorded ==
    \A k \in Keys : sample[k] = "forwarded" => Recorded(k, Body)

\* A reading is either kept as a sample or its intent never finishes: a power
\* loss between the outcome and the sample loses neither of the two.
SampleIffFinished ==
    \A k \in Keys : intent[k] = "finished" <=> sample[k] # "none"

\* Samples are settled in the order they were stored: while one is pending, no
\* later one was sent, or recorded by the platform, even by a late request.
SettledInOrder ==
    \A j, k \in Keys : j < k /\ sample[j] = "pending" =>
        /\ sample[k] \in {"none", "pending"} /\ effects[k] = <<>> /\ row[k] = NoRow
        /\ expired[k] = {} /\ k \notin stray

\* A pending sample is forwarded or refused, or the forward stopped at the
\* credential bound: no stored sample waits for a wake that never comes.
SampleSettles ==
    \A k \in Keys : sample[k] = "pending" ~> (sample[k] # "pending" \/ forward = "stopped")

\* What the forward relies on: a repeated forward is harmless, so a sample that
\* the edge holds as refused is not one that the platform recorded.
RefusedIsNotRecorded ==
    \A k \in Keys : sample[k] = "refused" => effects[k] = <<>>

\* The same claim of a sample that is sent again: no work of it stands twice.  A
\* row that expired, or that an error of a route without SQL freed, breaks it.
RecordedOnce ==
    \A k \in Keys : effects[k] # <<>> => expired[k] = {} /\ k \notin stray
===============================================================================
