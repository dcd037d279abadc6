-------------------------- MODULE EdgeForwardProofs --------------------------
(***************************************************************************)
(* Proofs about the edge box and the platform route it forwards to, for    *)
(* every number of frames, of failures and of concurrent calls.  The edge  *)
(* is a client of the write log, so the theorems about the log hold of it. *)
(***************************************************************************)
EXTENDS EdgeForward, WriteLogProofs, WellFoundedInduction

-----------------------------------------------------------------------------
(* The inductive invariant.                                                 *)

\* The type of the variables that are not the log's.
EdgeType ==
    /\ edge \in {"up", "stopping", "down"} /\ frame \in 0..Frames
    /\ device \in {"idle", "call", "notify"} /\ permit \in BOOLEAN
    /\ intent \in [Keys -> {"none", "begun", "finished", "resolved"}]
    /\ sample \in [Keys -> {"none", "pending", "forwarded", "refused", "resolved"}]
    /\ forward \in {"off", "read", "done", "wait", "send", "sent", "accept", "refuse",
                    "backoff", "stopped"}
    /\ sending \in 0..Frames /\ call \in Requests \cup {NoRequest}
    /\ inARow \in 0..CredentialBound /\ faults \in 0..MaxFaults

\* A frame that did not arrive has no intent, and the one in a device call has
\* a begun one.
Arrivals ==
    /\ \A k \in Keys : k > frame => intent[k] = "none"
    /\ device = "call" => edge # "down" /\ frame \in Keys /\ intent[frame] = "begun"

\* A call carries one sample.
OneSample == \A r \in Requests : elements[r] = <<>> \/ elements[r] \in Calls

\* Call r carries sample k.
Carries(r, k) == elements[r] = <<[key |-> k, input |-> Body]>>

\* The platform recorded sample k, under a row that is finished or expired.
SampleRecorded(k) == Recorded(k, Body)

\* The forward holds the oldest pending sample, its request carries it, and an
\* acceptance is of a recorded one.
Sending ==
    /\ forward \in {"send", "sent", "accept", "refuse"} =>
          /\ sending \in Keys /\ sample[sending] = "pending"
          /\ \A j \in Keys : j < sending => sample[j] # "pending"
    /\ forward = "sent" => /\ call \in Requests /\ phase[call] # "free" /\ Carries(call, sending)
    /\ forward # "sent" => call = NoRequest
    /\ forward = "accept" => SampleRecorded(sending)
    /\ inARow >= CredentialBound => forward = "stopped"
    /\ edge # "up" => forward = "off"

\* The platform has, or had, sample k in its hands.
AtPlatform(k) ==
    \/ \E r \in Requests : Carries(r, k)
    \/ claim[k].by # NoRequest \/ row[k] # NoRow \/ effects[k] # <<>>
    \/ expired[k] # {} \/ k \in stray

\* A sample that was sent or settled is stored, and no older one is pending.
InOrder ==
    \A k \in Keys : AtPlatform(k) \/ sample[k] \notin {"none", "pending"} =>
        sample[k] # "none" /\ \A j \in Keys : j < k => sample[j] # "pending"

EdgeInv ==
    /\ EdgeType /\ Arrivals /\ OneSample /\ Sending /\ InOrder
    /\ SampleIffFinished /\ ForwardedIsRecorded

\* The invariant of the edge and of the log that it calls.
Inv == EdgeInv /\ LogInv

-----------------------------------------------------------------------------
(* The oldest pending sample.                                               *)

\* A set of numbers that is not empty has a least one.
LEMMA LeastElement ==
  ASSUME NEW S \in SUBSET Nat, S # {}
  PROVE  Min(S) \in S /\ \A y \in S : Min(S) <= y
<1>1. IsWellFoundedOn(OpToRel(<, Nat), Nat)
  BY NatLessThanWellFounded
<1>2. PICK x \in S : \A y \in S : ~(<<y, x>> \in OpToRel(<, Nat))
  BY <1>1, WFMin
<1>3. \A y \in S : ~(y < x)
  BY <1>2 DEF OpToRel
<1>4. \E z \in S : \A y \in S : z <= y
  BY <1>3
<1> QED  BY <1>4 DEF Min

\* list_pending orders by the row: no sample before the one it names is pending.
LEMMA OldestPending ==
  ASSUME Pending # {}
  PROVE  /\ Oldest \in Keys /\ sample[Oldest] = "pending"
         /\ \A j \in Keys : j < Oldest => sample[j] # "pending"
<1>1. Keys \subseteq Nat
  BY EdgeAssumption DEF EdgeAssumption
<1>2. Pending \in SUBSET Nat
  BY <1>1 DEF Pending
<1>3. Oldest \in Pending /\ \A y \in Pending : Oldest <= y
  BY <1>2, LeastElement DEF Oldest
<1>4. ASSUME NEW j \in Keys, j < Oldest, sample[j] = "pending"  PROVE FALSE
  <2>1. j \in Nat /\ Oldest \in Nat /\ Oldest <= j
    BY <1>1, <1>2, <1>3, <1>4 DEF Pending
  <2> QED  BY <1>4, <2>1
<1> QED  BY <1>3, <1>4 DEF Pending

-----------------------------------------------------------------------------
(* The edge is a client of the write log.                                   *)

\* A step of the edge is a step of the log and its clients, or none of theirs.
LEMMA ClientStep ==
  ASSUME EdgeInv, [Next]_vars
  PROVE  [ClientsNext]_logVars
<1>1. ASSUME \/ TakeFrame \/ StoreSample \/ Notify \/ StoreNothing
             \/ ReadPending \/ WaitStored \/ Woken \/ Record \/ BackoffElapses
             \/ RouteRefuses \/ Unreachable \/ CredentialRefused
             \/ Stop \/ Stopped \/ Crash \/ Restart
             \/ \E k \in Keys : ResolveIntent(k) \/ ResolveSample(k)
      PROVE  UNCHANGED logVars
  BY <1>1 DEF TakeFrame, StoreSample, Notify, StoreNothing, ReadPending, WaitStored, Woken, Record,
     BackoffElapses, RouteRefuses, Unreachable, CredentialRefused, Stop, Stopped, Crash, Restart,
     ResolveIntent, ResolveSample
<1>2. ASSUME Send  PROVE ClientsNext
  <2>1. PICK r \in Requests : forward = "send" /\ Submit(r, <<[key |-> sending, input |-> Body]>>)
    BY <1>2 DEF Send
  <2>2. sending \in Keys
    BY <2>1 DEF EdgeInv, Sending
  <2>3. <<[key |-> sending, input |-> Body]>> \in Calls
    BY <2>2, EdgeAssumption DEF EdgeAssumption
  <2> QED  BY <2>1, <2>3 DEF ClientsNext
<1>3. ASSUME Receive  PROVE ClientsNext
  <2>1. call \in Requests /\ Collect(call)
    BY <1>3 DEF Receive, EdgeInv, Sending
  <2> QED  BY <2>1 DEF ClientsNext
<1>4. ASSUME NEW r \in Requests, AnswerDropped(r) \/ PlatformRuns(r) \/ PlatformFails(r)
      PROVE  ClientsNext
  BY <1>4 DEF AnswerDropped, PlatformRuns, PlatformFails, ClientsNext, LogStep
<1>5. ASSUME NEW k \in Keys, PlatformSettles(k)  PROVE ClientsNext
  BY <1>5 DEF PlatformSettles, ClientsNext, LogStep
<1>6. ASSUME PlatformForgets  PROVE ClientsNext
  BY <1>6 DEF PlatformForgets, ClientsNext, LogStep
<1>7. CASE UNCHANGED vars
  BY <1>7 DEF vars
<1> QED  BY <1>1, <1>2, <1>3, <1>4, <1>5, <1>6, <1>7 DEF Next, ForwardStep

-----------------------------------------------------------------------------
(* What a step does to the platform's view of the samples.                  *)

\* The platform takes hold of no further sample, and forgets none.
PlatformKeeps ==
    /\ OneSample'
    /\ \A k \in Keys : AtPlatform(k)' => AtPlatform(k)
    /\ \A k \in Keys : SampleRecorded(k) => SampleRecorded(k)'

\* Calls that go on keep what they carry.
CallsGoOn == \A r \in Requests : phase[r] # "free" => phase'[r] # "free" /\ elements'[r] = elements[r]

\* A step of the edge alone.
LEMMA LogStill ==
  ASSUME EdgeInv, UNCHANGED logVars
  PROVE  PlatformKeeps /\ CallsGoOn
<1>1. OneSample'
  BY DEF EdgeInv, OneSample, logVars
<1>2. \A k \in Keys : AtPlatform(k)' => AtPlatform(k)
  BY DEF AtPlatform, Carries, NoRow, logVars, retained
<1>3. \A k \in Keys : SampleRecorded(k) => SampleRecorded(k)'
  BY DEF SampleRecorded, Recorded, logVars, retained
<1> QED  BY <1>1, <1>2, <1>3 DEF PlatformKeeps, CallsGoOn, logVars

\* What the log recorded stands.
LEMMA RecordedStands ==
  ASSUME LogInv, ClientsNext, NEW k \in Keys, SampleRecorded(k)
  PROVE  SampleRecorded(k)'
<1>1. Stands(k) /\ expired[k] \subseteq expired'[k]
  BY StepStands, ExpiredKept
<1> QED  BY <1>1 DEF Stands, SampleRecorded, Recorded

\* A call at a step works on the sample that it carries.
LEMMA WorksOnSample ==
  ASSUME EdgeInv, LogInv, NEW r \in Requests, phase[r] \in Steps
  PROVE  Key(r) \in Keys /\ Carries(r, Key(r))
<1>1. CallsType /\ CallShape
  BY TypeHalves DEF LogInv, CoreInv
<1>2. Len(answers[r]) \in Nat /\ Len(answers[r]) < Len(elements[r])
  BY <1>1 DEF CallsType, CallShape
<1>3. elements[r] # <<>>
  BY <1>2
<1>4. PICK k \in Keys : elements[r] = <<[key |-> k, input |-> Body]>>
  BY <1>3, EdgeAssumption DEF EdgeInv, OneSample, EdgeAssumption
<1>5. Len(elements[r]) = 1
  BY <1>4
<1>6. Current(r) = [key |-> k, input |-> Body]
  BY <1>2, <1>4, <1>5 DEF Current
<1> QED  BY <1>4, <1>6 DEF Carries, Key

\* A call changes the tables at the sample that it works on only.
LEMMA CallTouches ==
  ASSUME EdgeInv, LogInv, NEW r \in Requests, HostStep(r) \/ CallFails(r)
  PROVE  /\ elements' = elements /\ phase[r] \in Steps
         /\ \A k \in Keys : k # Key(r) =>
               /\ row'[k] = row[k] /\ claim'[k] = claim[k] /\ effects'[k] = effects[k]
               /\ expired'[k] = expired[k] /\ (k \in stray' => k \in stray)
<1>1. TablesType /\ TablesSound
  BY TypeHalves DEF LogInv, CoreInv
<1>2. elements' = elements /\ phase[r] \in Steps
  BY DEF HostStep, CallFails, ClaimKey, ReadClaim, RunValue, RunRefused, RunFailed, RunSilent, Finish,
     Commit, CommitRolledBack, CommitUnread, Answer, Steps
<1>3. ASSUME NEW k \in Keys, k # Key(r), HostStep(r)
      PROVE  row'[k] = row[k] /\ claim'[k] = claim[k] /\ effects'[k] = effects[k]
  BY <1>1, <1>3 DEF HostStep, ClaimKey, ReadClaim, RunValue, RunRefused, RunFailed, RunSilent, Finish,
     Commit, CommitRolledBack, CommitUnread, Release, Unclaim, Store, Work, TablesType
<1>4. ASSUME NEW k \in Keys, k # Key(r), CallFails(r)
      PROVE  row'[k] = row[k] /\ claim'[k] = claim[k] /\ effects'[k] = effects[k]
  <2>1. claim[k].by # r
    BY <1>1, <1>4 DEF TablesSound, ClaimSound, Key
  <2>2. claim'[k] = claim[k] /\ row' = row
    BY <1>4, <2>1 DEF CallFails
  <2>3. effects'[k] = effects[k]
    BY <1>1, <1>4 DEF CallFails, Work, TablesType
  <2> QED  BY <2>2, <2>3
<1>5. ASSUME NEW k \in Keys, k # Key(r)
      PROVE  expired'[k] = expired[k] /\ (k \in stray' => k \in stray)
  <2>1. CASE CallFails(r)
    BY <2>1 DEF CallFails, retained
  <2>2. CASE RunRefused(r) \/ RunFailed(r) \/ RunSilent(r)
    BY <1>5, <2>2 DEF RunRefused, RunFailed, RunSilent, Release, retained
  <2>3. CASE ~(RunRefused(r) \/ RunFailed(r) \/ RunSilent(r)) /\ HostStep(r)
    BY <2>3 DEF HostStep, ClaimKey, ReadClaim, RunValue, Finish, Commit, CommitRolledBack,
       CommitUnread, retained
  <2> QED  BY <2>1, <2>2, <2>3
<1> QED  BY <1>2, <1>3, <1>4, <1>5

\* A step of a call at the platform, or the server's end of a transaction.
LEMMA PlatformStep ==
  ASSUME EdgeInv, LogInv, LogStep
  PROVE  PlatformKeeps /\ CallsGoOn
<1>1. \A k \in Keys : SampleRecorded(k) => SampleRecorded(k)'
  BY RecordedStands DEF ClientsNext
<1>2. CallsType
  BY TypeHalves DEF LogInv, CoreInv
<1>3. TablesType
  BY TypeHalves DEF LogInv, CoreInv
<1>4. ASSUME NEW r \in Requests, HostStep(r) \/ CallFails(r)
      PROVE  PlatformKeeps /\ CallsGoOn
  <2>1. /\ elements' = elements /\ phase[r] \in Steps
        /\ \A k \in Keys : k # Key(r) =>
              /\ row'[k] = row[k] /\ claim'[k] = claim[k] /\ effects'[k] = effects[k]
              /\ expired'[k] = expired[k] /\ (k \in stray' => k \in stray)
    BY <1>4, CallTouches
  <2>2. Carries(r, Key(r))
    BY <2>1, WorksOnSample
  <2>3. \A k \in Keys : AtPlatform(k)' => AtPlatform(k)
    BY <2>1, <2>2 DEF AtPlatform, Carries, NoRow
  <2>4. CallsGoOn
    BY <1>2, <1>4, <2>1
    DEF CallsGoOn, HostStep, CallFails, ClaimKey, ReadClaim, RunValue, RunRefused, RunFailed, RunSilent,
        Finish, Commit, CommitRolledBack, CommitUnread, Answer, Goto, CallsType
  <2> QED  BY <1>1, <2>1, <2>3, <2>4 DEF PlatformKeeps, OneSample, EdgeInv
<1>5. ASSUME NEW j \in Keys, LimboCommits(j) \/ LimboRollsBack(j)
      PROVE  PlatformKeeps /\ CallsGoOn
  <2>1. claim[j].by # NoRequest
    BY <1>5, WriteLogAssumption DEF LimboCommits, LimboRollsBack, WriteLogAssumption
  <2>2. /\ UNCHANGED <<phase, elements, expired, stray>>
        /\ \A k \in Keys : k # j =>
              row'[k] = row[k] /\ claim'[k] = claim[k] /\ effects'[k] = effects[k]
    BY <1>3, <1>5 DEF LimboCommits, LimboRollsBack, TablesType, retained
  <2>3. \A k \in Keys : AtPlatform(k)' => AtPlatform(k)
    BY <2>1, <2>2 DEF AtPlatform, Carries, NoRow
  <2> QED  BY <1>1, <2>2, <2>3 DEF PlatformKeeps, CallsGoOn, OneSample, EdgeInv
<1>6. ASSUME Prune \/ \E j \in Keys : RowAges(j)
      PROVE  PlatformKeeps /\ CallsGoOn
  <2>1. UNCHANGED <<claim, stray, phase, elements>>
    BY <1>6 DEF Prune, RowAges
  <2>2. ASSUME NEW k \in Keys, AtPlatform(k)'  PROVE AtPlatform(k)
    <3>1. CASE \E j \in Keys : RowAges(j)
      BY <2>2, <3>1 DEF RowAges, AtPlatform, Carries, NoRow
    <3>2. CASE Prune
      <4>1. CASE row[k].state = "finished"
        BY <4>1 DEF AtPlatform, NoRow
      <4>2. CASE row[k].state # "finished"
        <5>1. row'[k] = row[k] /\ effects'[k] = effects[k] /\ expired'[k] = expired[k]
          BY <3>2, <4>2, PruneRows DEF Prune
        <5> QED  BY <2>1, <2>2, <5>1 DEF AtPlatform, Carries, NoRow
      <4> QED  BY <4>1, <4>2
    <3> QED  BY <1>6, <3>1, <3>2
  <2> QED  BY <1>1, <2>1, <2>2 DEF PlatformKeeps, CallsGoOn, OneSample, EdgeInv
<1> QED  BY <1>4, <1>5, <1>6 DEF LogStep

-----------------------------------------------------------------------------
(* What a step leaves alone.                                                *)

\* The failures of a behaviour stay within their bound.
LEMMA FaultsBounded ==
  ASSUME EdgeInv, Fault
  PROVE  faults' \in 0..MaxFaults
  BY EdgeAssumption DEF EdgeInv, EdgeType, Fault, EdgeAssumption

\* A step that settles and stores no sample.
LEMMA SamplesStill ==
  ASSUME EdgeInv, PlatformKeeps, UNCHANGED sample
  PROVE  InOrder' /\ ForwardedIsRecorded'
<1>1. InOrder'
  BY DEF EdgeInv, InOrder, PlatformKeeps
<1>2. ForwardedIsRecorded'
  BY DEF EdgeInv, ForwardedIsRecorded, PlatformKeeps, SampleRecorded, Recorded
<1> QED  BY <1>1, <1>2

\* A step that begins and ends no device call, unless it drops one.
LEMMA DeviceStill ==
  ASSUME EdgeInv, UNCHANGED <<frame, intent, sample>>,
         device' = "call" => device = "call" /\ edge' # "down"
  PROVE  Arrivals' /\ SampleIffFinished'
  BY DEF EdgeInv, Arrivals, SampleIffFinished

\* A step that leaves the forward where it is.
LEMMA ForwardStill ==
  ASSUME EdgeInv, PlatformKeeps, CallsGoOn, UNCHANGED <<fwdVars, edge, sample>>
  PROVE  Sending'
  BY DEF EdgeInv, Sending, PlatformKeeps, CallsGoOn, Carries, fwdVars

\* A step of the platform.
LEMMA PlatformAlone ==
  ASSUME EdgeInv, PlatformKeeps, CallsGoOn, UNCHANGED <<edgeVars, fwdVars>>, faults' \in 0..MaxFaults
  PROVE  EdgeInv'
<1>1. UNCHANGED <<edge, frame, device, intent, sample, permit>>
  BY DEF edgeVars
<1>2. EdgeType'
  BY <1>1 DEF EdgeInv, EdgeType, fwdVars
<1>3. Arrivals' /\ SampleIffFinished'
  BY <1>1, DeviceStill DEF EdgeInv, Arrivals
<1>4. Sending'
  BY <1>1, ForwardStill
<1>5. InOrder' /\ ForwardedIsRecorded'
  BY <1>1, SamplesStill
<1> QED  BY <1>2, <1>3, <1>4, <1>5 DEF EdgeInv, PlatformKeeps

\* A step of the forward that has no request when it is done.
LEMMA ForwardMoves ==
  ASSUME EdgeInv, PlatformKeeps, UNCHANGED edgeVars, EdgeType', forward # "off",
         forward' # "sent", call' = NoRequest,
         forward' \in {"send", "accept", "refuse"} =>
             /\ sending' \in Keys /\ sample[sending'] = "pending"
             /\ \A j \in Keys : j < sending' => sample[j] # "pending",
         forward' = "accept" => SampleRecorded(sending)',
         inARow' >= CredentialBound => forward' = "stopped"
  PROVE  EdgeInv'
<1>1. UNCHANGED <<edge, frame, device, intent, sample, permit>>
  BY DEF edgeVars
<1>2. Arrivals' /\ SampleIffFinished'
  BY <1>1, DeviceStill DEF EdgeInv, Arrivals
<1>3. Sending'
  BY <1>1 DEF EdgeInv, Sending, SampleRecorded, Recorded
<1>4. InOrder' /\ ForwardedIsRecorded'
  BY <1>1, SamplesStill
<1> QED  BY <1>2, <1>3, <1>4 DEF EdgeInv, PlatformKeeps

-----------------------------------------------------------------------------
(* The device loop.                                                         *)

\* The frame in a device call has no sample yet, and neither has a later one.
LEMMA NoSampleYet ==
  ASSUME EdgeInv, NEW k \in Keys, k > frame \/ (k = frame /\ device = "call")
  PROVE  sample[k] = "none" /\ ~AtPlatform(k)
<1>1. intent[k] # "finished"
  BY DEF EdgeInv, Arrivals
<1>2. sample[k] = "none"
  BY <1>1 DEF EdgeInv, SampleIffFinished
<1> QED  BY <1>2 DEF EdgeInv, InOrder

\* A frame arrives: no intent is there under its key.
LEMMA TakeFrameKeeps ==
  ASSUME EdgeInv, TakeFrame
  PROVE  EdgeInv'
<1>1. PlatformKeeps /\ CallsGoOn
  BY LogStill DEF TakeFrame
<1>2. frame + 1 \in Keys /\ frame \in Nat
  BY EdgeAssumption DEF TakeFrame, EdgeInv, EdgeType, EdgeAssumption
<1>3. /\ frame' = frame + 1 /\ device' = "call" /\ edge = "up"
      /\ intent' = [intent EXCEPT ![frame + 1] = "begun"]
      /\ UNCHANGED <<edge, sample, permit, fwdVars, faults>>
  BY DEF TakeFrame
<1>4. EdgeType'
  BY <1>2, <1>3, EdgeAssumption DEF EdgeInv, EdgeType, fwdVars, TakeFrame, EdgeAssumption
<1>5. Arrivals'
  <2>1. Keys \subseteq Nat
    BY EdgeAssumption DEF EdgeAssumption
  <2> QED  BY <1>2, <1>3, <2>1 DEF EdgeInv, EdgeType, Arrivals
<1>6. SampleIffFinished'
  <2>1. sample[frame + 1] = "none"
    BY <1>2, NoSampleYet
  <2> QED  BY <1>2, <1>3, <2>1 DEF EdgeInv, EdgeType, SampleIffFinished
<1>7. Sending' /\ InOrder' /\ ForwardedIsRecorded'
  BY <1>1, <1>3, ForwardStill, SamplesStill
<1> QED  BY <1>1, <1>4, <1>5, <1>6, <1>7 DEF EdgeInv, PlatformKeeps

\* SampleIntents::finish: the new sample is the last one.
LEMMA StoreSampleKeeps ==
  ASSUME EdgeInv, StoreSample
  PROVE  EdgeInv'
<1>1. PlatformKeeps /\ CallsGoOn
  BY LogStill DEF StoreSample
<1>2. frame \in Keys /\ Keys \subseteq Nat /\ edge # "down"
  BY EdgeAssumption DEF StoreSample, EdgeInv, Arrivals, EdgeAssumption
<1>3. /\ device = "call" /\ device' = "notify"
      /\ intent' = [intent EXCEPT ![frame] = "finished"]
      /\ sample' = [sample EXCEPT ![frame] = "pending"]
      /\ UNCHANGED <<edge, frame, permit, fwdVars, faults>>
  BY DEF StoreSample
<1>4. /\ sample'[frame] = "pending" /\ intent'[frame] = "finished"
      /\ \A k \in Keys : k # frame => sample'[k] = sample[k] /\ intent'[k] = intent[k]
  BY <1>2, <1>3 DEF EdgeInv, EdgeType
<1>5. \A k \in Keys : k >= frame => sample[k] = "none" /\ ~AtPlatform(k)
  BY <1>2, <1>3, NoSampleYet
<1>6. EdgeType'
  BY <1>3 DEF EdgeInv, EdgeType, fwdVars
<1>7. Arrivals' /\ SampleIffFinished'
  BY <1>2, <1>3, <1>4 DEF EdgeInv, Arrivals, SampleIffFinished
<1>8. Sending'
  <2>1. ASSUME forward \in {"send", "sent", "accept", "refuse"}
        PROVE  /\ sending \in Keys /\ sample'[sending] = "pending"
               /\ \A j \in Keys : j < sending => sample'[j] # "pending"
    <3>1. /\ sending \in Keys /\ sample[sending] = "pending"
          /\ \A j \in Keys : j < sending => sample[j] # "pending"
      BY <2>1 DEF EdgeInv, Sending
    <3>2. sending < frame
      BY <1>2, <1>5, <3>1
    <3> QED  BY <1>2, <1>4, <3>1, <3>2
  <2> QED  BY <1>1, <1>3, <2>1 DEF EdgeInv, Sending, PlatformKeeps, CallsGoOn, Carries, fwdVars
<1>9. InOrder'
  <2> SUFFICES ASSUME NEW k \in Keys, AtPlatform(k)' \/ sample'[k] \notin {"none", "pending"}
               PROVE  sample'[k] # "none" /\ \A j \in Keys : j < k => sample'[j] # "pending"
    BY DEF InOrder
  <2>1. AtPlatform(k) \/ sample[k] \notin {"none", "pending"}
    BY <1>1, <1>4 DEF PlatformKeeps
  <2>2. sample[k] # "none" /\ \A j \in Keys : j < k => sample[j] # "pending"
    BY <2>1 DEF EdgeInv, InOrder
  <2>3. k < frame
    BY <1>2, <1>5, <2>2
  <2> QED  BY <1>2, <1>4, <2>2, <2>3
<1>10. ForwardedIsRecorded'
  BY <1>1, <1>4 DEF EdgeInv, ForwardedIsRecorded, PlatformKeeps, SampleRecorded, Recorded
<1> QED  BY <1>1, <1>6, <1>7, <1>8, <1>9, <1>10 DEF EdgeInv, PlatformKeeps

\* notify_one, and a call that stores no sample.
LEMMA DeviceEndsKeeps ==
  ASSUME EdgeInv, Notify \/ StoreNothing
  PROVE  EdgeInv'
<1>1. PlatformKeeps /\ CallsGoOn
  BY LogStill DEF Notify, StoreNothing
<1>2. device' = "idle" /\ UNCHANGED <<edge, frame, sample, fwdVars>>
  BY DEF Notify, StoreNothing
<1>3. EdgeType'
  <2>1. faults' \in 0..MaxFaults
    BY FaultsBounded DEF Notify, StoreNothing, EdgeInv, EdgeType
  <2>2. intent' \in [Keys -> {"none", "begun", "finished", "resolved"}]
    BY DEF Notify, StoreNothing, EdgeInv, EdgeType
  <2>3. permit' \in BOOLEAN
    BY DEF Notify, StoreNothing, EdgeInv, EdgeType
  <2> QED  BY <1>2, <2>1, <2>2, <2>3 DEF EdgeInv, EdgeType, fwdVars
<1>4. Arrivals' /\ SampleIffFinished'
  <2>1. CASE intent' = intent
    BY <1>2, <2>1, DeviceStill
  <2>2. CASE device = "call" /\ intent' = [intent EXCEPT ![frame] = "none"]
    <3>1. frame \in Keys /\ sample[frame] = "none"
      BY <2>2, NoSampleYet DEF EdgeInv, Arrivals
    <3> QED  BY <1>2, <2>2, <3>1 DEF EdgeInv, EdgeType, Arrivals, SampleIffFinished
  <2> QED  BY <2>1, <2>2 DEF Notify, StoreNothing
<1>5. Sending' /\ InOrder' /\ ForwardedIsRecorded'
  BY <1>1, <1>2, ForwardStill, SamplesStill
<1> QED  BY <1>1, <1>3, <1>4, <1>5 DEF EdgeInv, PlatformKeeps

-----------------------------------------------------------------------------
(* The forward.                                                             *)

\* A pass begins with the oldest pending sample, and ends without one.
LEMMA ReadPendingKeeps ==
  ASSUME EdgeInv, ReadPending
  PROVE  EdgeInv'
<1>1. PlatformKeeps /\ UNCHANGED edgeVars /\ call' = call /\ faults' = faults
  BY LogStill DEF ReadPending
<1>2. forward \notin {"sent", "stopped", "off"}
  BY DEF ReadPending
<1>3. CASE Pending = {} /\ forward' = "done" /\ inARow' = 0 /\ sending' = sending
  <2>1. EdgeType'
    BY <1>1, <1>3, EdgeAssumption DEF EdgeInv, EdgeType, edgeVars, EdgeAssumption
  <2>2. ~(inARow' >= CredentialBound)
    BY <1>3, EdgeAssumption DEF EdgeAssumption
  <2> QED  BY <1>1, <1>2, <1>3, <2>1, <2>2, ForwardMoves DEF EdgeInv, Sending
<1>4. CASE Pending # {} /\ forward' = "send" /\ sending' = Oldest /\ inARow' = inARow
  <2>1. /\ sending' \in Keys /\ sample[sending'] = "pending"
        /\ \A j \in Keys : j < sending' => sample[j] # "pending"
    BY <1>4, OldestPending
  <2>2. EdgeType'
    BY <1>1, <1>4, <2>1, EdgeAssumption DEF EdgeInv, EdgeType, edgeVars, EdgeAssumption
  <2> QED  BY <1>1, <1>2, <1>4, <2>1, <2>2, ForwardMoves DEF EdgeInv, Sending
<1> QED  BY <1>3, <1>4 DEF ReadPending

\* The waits of the forward, and what ends its pass early.
LEMMA PassEndsKeeps ==
  ASSUME EdgeInv, WaitStored \/ BackoffElapses \/ RouteRefuses \/ Unreachable \/ CredentialRefused
  PROVE  EdgeInv'
<1>1. PlatformKeeps /\ UNCHANGED edgeVars /\ sending' = sending
  BY LogStill DEF WaitStored, BackoffElapses, RouteRefuses, Unreachable, CredentialRefused
<1>2. /\ forward \notin {"stopped", "off"}
      /\ forward' \in {"wait", "read", "refuse", "backoff", "stopped"}
      /\ call' = NoRequest
      /\ forward' = "refuse" => forward = "send"
  BY DEF WaitStored, BackoffElapses, RouteRefuses, Unreachable, CredentialRefused, EdgeInv, Sending
<1>3. ~(inARow >= CredentialBound) /\ inARow \in Nat /\ CredentialBound \in Nat
  BY <1>2, EdgeAssumption DEF EdgeInv, EdgeType, Sending, EdgeAssumption
<1>4. /\ inARow' \in 0..CredentialBound
      /\ inARow' >= CredentialBound => forward' = "stopped"
  BY <1>3 DEF WaitStored, BackoffElapses, RouteRefuses, Unreachable, CredentialRefused
<1>5. faults' \in 0..MaxFaults
  BY FaultsBounded
  DEF EdgeInv, EdgeType, WaitStored, BackoffElapses, RouteRefuses, Unreachable, CredentialRefused
<1>6. EdgeType'
  BY <1>1, <1>2, <1>4, <1>5 DEF EdgeInv, EdgeType, edgeVars
<1> QED  BY <1>1, <1>2, <1>4, <1>6, ForwardMoves DEF EdgeInv, Sending

\* The forward takes the stored permit.
LEMMA WokenKeeps ==
  ASSUME EdgeInv, Woken
  PROVE  EdgeInv'
<1>1. PlatformKeeps /\ UNCHANGED <<edge, frame, device, intent, sample, sending, call, inARow, faults>>
  BY LogStill DEF Woken
<1>2. forward = "wait" /\ forward' = "read" /\ permit' = FALSE
  BY DEF Woken
<1>3. EdgeType'
  BY <1>1, <1>2 DEF EdgeInv, EdgeType
<1>4. Arrivals' /\ SampleIffFinished'
  BY <1>1, DeviceStill DEF EdgeInv, Arrivals
<1>5. Sending'
  BY <1>1, <1>2 DEF EdgeInv, Sending
<1>6. InOrder' /\ ForwardedIsRecorded'
  BY <1>1, SamplesStill
<1> QED  BY <1>1, <1>3, <1>4, <1>5, <1>6 DEF EdgeInv, PlatformKeeps

\* The request of the oldest pending sample reaches the platform.
LEMMA SendKeeps ==
  ASSUME Inv, Send
  PROVE  EdgeInv'
<1>1. EdgeInv /\ CallsType
  BY TypeHalves DEF Inv, LogInv, CoreInv
<1>2. PICK r \in Requests :
        /\ forward = "send" /\ Submit(r, <<[key |-> sending, input |-> Body]>>)
        /\ forward' = "sent" /\ call' = r /\ UNCHANGED <<edgeVars, sending, inARow, faults>>
  BY DEF Send
<1>3. /\ sending \in Keys /\ sample[sending] = "pending"
      /\ \A j \in Keys : j < sending => sample[j] # "pending"
  BY <1>1, <1>2 DEF EdgeInv, Sending
<1>4. /\ UNCHANGED <<row, claim, effects, expired, stray>> /\ Carries(r, sending)' /\ phase'[r] # "free"
      /\ \A s \in Requests : s # r => elements'[s] = elements[s]
  BY <1>1, <1>2 DEF Submit, Goto, Carries, CallsType, retained
<1>5. UNCHANGED <<edge, frame, device, intent, sample, permit>>
  BY <1>2 DEF edgeVars
<1>6. EdgeType'
  BY <1>1, <1>2, <1>5 DEF EdgeInv, EdgeType
<1>7. Arrivals' /\ SampleIffFinished'
  BY <1>1, <1>5, DeviceStill DEF EdgeInv, Arrivals
<1>8. OneSample'
  <2>1. <<[key |-> sending, input |-> Body]>> \in Calls
    BY <1>3, EdgeAssumption DEF EdgeAssumption
  <2>2. elements'[r] \in Calls
    BY <1>2, <1>4, <2>1 DEF Carries
  <2> QED  BY <1>1, <1>4, <2>2 DEF EdgeInv, OneSample
<1>9. Sending'
  BY <1>1, <1>2, <1>3, <1>4, <1>5 DEF EdgeInv, Sending
<1>10. ForwardedIsRecorded'
  BY <1>1, <1>4, <1>5 DEF EdgeInv, ForwardedIsRecorded, Recorded
<1>11. InOrder'
  <2> SUFFICES ASSUME NEW k \in Keys, AtPlatform(k)' \/ sample[k] \notin {"none", "pending"}
               PROVE  sample[k] # "none" /\ \A j \in Keys : j < k => sample[j] # "pending"
    BY <1>5 DEF InOrder
  <2>1. CASE k = sending
    BY <1>3, <2>1
  <2>2. CASE k # sending
    <3>1. ~Carries(r, k)'
      BY <1>2, <1>4, <2>2 DEF Carries
    <3>2. AtPlatform(k)' => AtPlatform(k)
      BY <1>4, <3>1 DEF AtPlatform, Carries, NoRow
    <3> QED  BY <1>1, <3>2 DEF EdgeInv, InOrder
  <2> QED  BY <2>1, <2>2
<1> QED  BY <1>6, <1>7, <1>8, <1>9, <1>10, <1>11 DEF EdgeInv

\* An answer that is read, or dropped, leaves the tables alone.
LEMMA CollectShrinks ==
  ASSUME Inv, NEW r \in Requests, Collect(r)
  PROVE  /\ PlatformKeeps
         /\ \A s \in Requests : s # r => phase'[s] = phase[s] /\ elements'[s] = elements[s]
<1>1. CallsType /\ OneSample
  BY TypeHalves DEF Inv, LogInv, CoreInv, EdgeInv
<1>2. /\ UNCHANGED <<row, claim, effects, expired, stray>> /\ elements'[r] = <<>>
      /\ \A s \in Requests : s # r => phase'[s] = phase[s] /\ elements'[s] = elements[s]
  BY <1>1 DEF Collect, Goto, CallsType, retained
<1>3. \A k \in Keys : ~Carries(r, k)'
  BY <1>2 DEF Carries
<1>4. \A k \in Keys : AtPlatform(k)' => AtPlatform(k)
  BY <1>2, <1>3 DEF AtPlatform, Carries, NoRow
<1>5. OneSample'
  BY <1>1, <1>2 DEF OneSample
<1> QED  BY <1>2, <1>4, <1>5 DEF PlatformKeeps, SampleRecorded, Recorded

\* fn answer: a verdict of accept comes from a value that the log answered, and
\* such a value is the outcome of the very sample that the call carried.
LEMMA AcceptIsRecorded ==
  ASSUME Inv, forward = "sent", Verdict(call) = "accept"
  PROVE  SampleRecorded(sending)
<1>1. call \in Requests /\ Carries(call, sending)
  BY DEF Inv, EdgeInv, Sending
<1>2. answers[call] = <<"value">>
  BY DEF Verdict
<1>3. 1 \in DOMAIN answers[call] /\ answers[call][1] = "value"
  BY <1>2
<1>4. Recorded(elements[call][1].key, elements[call][1].input)
  BY <1>1, <1>3 DEF Inv, LogInv, CoreInv, ValueIsTrue
<1>5. elements[call][1] = [key |-> sending, input |-> Body]
  BY <1>1 DEF Carries
<1>6. elements[call][1].key = sending /\ elements[call][1].input = Body
  BY <1>5
<1> QED  BY <1>4, <1>6 DEF SampleRecorded

\* The forward reads the answer of its request.
LEMMA ReceiveKeeps ==
  ASSUME Inv, Receive
  PROVE  EdgeInv'
<1>1. EdgeInv /\ forward = "sent" /\ call \in Requests /\ Collect(call)
  BY DEF Inv, EdgeInv, Sending, Receive
<1>2. PlatformKeeps
  BY <1>1, CollectShrinks
<1>3. /\ forward' = Verdict(call) /\ call' = NoRequest
      /\ UNCHANGED <<edgeVars, sending, inARow, faults>>
  BY DEF Receive
<1>4. forward' \in {"accept", "refuse", "backoff"}
  BY <1>3 DEF Verdict
<1>5. EdgeType'
  BY <1>1, <1>3, <1>4 DEF EdgeInv, EdgeType, edgeVars
<1>6. forward' = "accept" => SampleRecorded(sending)'
  <2>1. SUFFICES ASSUME forward' = "accept"  PROVE SampleRecorded(sending)'
    OBVIOUS
  <2>2. SampleRecorded(sending)
    BY <1>1, <1>3, <2>1, AcceptIsRecorded
  <2>3. UNCHANGED <<row, effects, expired, sending>>
    BY <1>1, <1>3 DEF Collect, retained
  <2> QED  BY <2>2, <2>3 DEF SampleRecorded, Recorded
<1> QED  BY <1>1, <1>2, <1>3, <1>4, <1>5, <1>6, ForwardMoves DEF EdgeInv, Sending

\* Nobody reads the answer of a request that the forward gave up.
LEMMA AnswerDroppedKeeps ==
  ASSUME Inv, NEW r \in Requests, AnswerDropped(r)
  PROVE  EdgeInv'
<1>1. EdgeInv /\ r # call /\ Collect(r) /\ UNCHANGED <<edgeVars, fwdVars, faults>>
  BY DEF Inv, AnswerDropped
<1>2. /\ PlatformKeeps
      /\ \A s \in Requests : s # r => phase'[s] = phase[s] /\ elements'[s] = elements[s]
  BY <1>1, CollectShrinks
<1>3. UNCHANGED <<edge, frame, device, intent, sample, permit>>
  BY <1>1 DEF edgeVars
<1>4. EdgeType'
  BY <1>1, <1>3 DEF EdgeInv, EdgeType, fwdVars
<1>5. Arrivals' /\ SampleIffFinished'
  BY <1>1, <1>3, DeviceStill DEF EdgeInv, Arrivals
<1>6. Sending'
  BY <1>1, <1>2, <1>3 DEF EdgeInv, Sending, PlatformKeeps, Carries, fwdVars
<1>7. InOrder' /\ ForwardedIsRecorded'
  BY <1>1, <1>2, <1>3, SamplesStill
<1> QED  BY <1>2, <1>4, <1>5, <1>6, <1>7 DEF EdgeInv, PlatformKeeps

\* update_pending: the oldest pending sample is settled.
LEMMA RecordKeeps ==
  ASSUME EdgeInv, Record
  PROVE  EdgeInv'
<1>1. /\ PlatformKeeps
      /\ UNCHANGED <<edge, frame, device, intent, permit, sending, call, inARow, faults>>
  BY LogStill DEF Record
<1>2. /\ forward \in {"accept", "refuse"} /\ forward' = "read" /\ sample[sending] = "pending"
      /\ sample' = [sample EXCEPT ![sending] = IF forward = "accept" THEN "forwarded" ELSE "refused"]
  BY DEF Record
<1>3. sending \in Keys /\ \A j \in Keys : j < sending => sample[j] # "pending"
  BY <1>2 DEF EdgeInv, Sending
<1>4. /\ sample'[sending] \in {"forwarded", "refused"}
      /\ sample'[sending] = "forwarded" => SampleRecorded(sending)
      /\ \A k \in Keys : k # sending => sample'[k] = sample[k]
  BY <1>2, <1>3 DEF EdgeInv, EdgeType, Sending
<1>5. EdgeType'
  BY <1>1, <1>2 DEF EdgeInv, EdgeType
<1>6. Arrivals' /\ SampleIffFinished'
  BY <1>1, <1>2, <1>3, <1>4 DEF EdgeInv, Arrivals, SampleIffFinished
<1>7. Sending'
  BY <1>1, <1>2 DEF EdgeInv, Sending
<1>8. InOrder'
  BY <1>1, <1>3, <1>4 DEF EdgeInv, InOrder, PlatformKeeps
<1>9. ForwardedIsRecorded'
  BY <1>1, <1>3, <1>4 DEF EdgeInv, ForwardedIsRecorded, PlatformKeeps, SampleRecorded, Recorded
<1> QED  BY <1>1, <1>5, <1>6, <1>7, <1>8, <1>9 DEF EdgeInv, PlatformKeeps

-----------------------------------------------------------------------------
(* The process and its operator.                                            *)

\* A stop, a power loss and a restart lose no intent and no sample.
LEMMA ProcessKeeps ==
  ASSUME EdgeInv, Stop \/ Stopped \/ Crash \/ Restart
  PROVE  EdgeInv'
<1>1. PlatformKeeps /\ UNCHANGED <<frame, intent, sample>>
  BY LogStill DEF Stop, Stopped, Crash, Restart
<1>2. device' = "call" => device = "call" /\ edge' # "down"
  BY DEF EdgeInv, Arrivals, Stop, Stopped, Crash, Restart
<1>3. /\ device' \in {"idle", "call", "notify"} /\ edge' \in {"up", "stopping", "down"}
      /\ \/ forward' = forward /\ sending' = sending /\ call' = call /\ inARow' = inARow
         \/ forward' = "read" /\ sending' = sending /\ call' = call /\ inARow' = inARow
         \/ forward' = "off" /\ sending' = 0 /\ call' = NoRequest /\ inARow' = 0
  BY DEF EdgeInv, EdgeType, Stop, Stopped, Crash, Restart, ForwardDropped, fwdVars
<1>4. permit' \in BOOLEAN
  BY DEF EdgeInv, EdgeType, Stop, Stopped, Crash, Restart
<1>5. faults' \in 0..MaxFaults
  BY FaultsBounded DEF EdgeInv, EdgeType, Stop, Stopped, Crash, Restart
<1>6. EdgeType'
  BY <1>1, <1>3, <1>4, <1>5, EdgeAssumption DEF EdgeInv, EdgeType, EdgeAssumption
<1>7. Arrivals' /\ SampleIffFinished'
  BY <1>1, <1>2, DeviceStill
<1>8. InOrder' /\ ForwardedIsRecorded'
  BY <1>1, SamplesStill
<1>9. Sending'
  <2>1. forward = "off" \/ forward' = "off"
    BY DEF EdgeInv, Sending, Stop, Stopped, Crash, Restart, ForwardDropped
  <2>2. edge' # "up" => forward' = "off"
    BY DEF EdgeInv, Sending, Stop, Stopped, Crash, Restart, ForwardDropped, fwdVars
  <2>3. ~(inARow' >= CredentialBound)
    BY <1>3, <2>1, EdgeAssumption DEF EdgeInv, Sending, EdgeAssumption
  <2> QED  BY <1>3, <2>1, <2>2, <2>3 DEF EdgeInv, Sending
<1> QED  BY <1>1, <1>6, <1>7, <1>8, <1>9 DEF EdgeInv, PlatformKeeps

\* intents resolve and samples resolve, while the edge is stopped.
LEMMA ResolveKeeps ==
  ASSUME EdgeInv, NEW k \in Keys, ResolveIntent(k) \/ ResolveSample(k)
  PROVE  EdgeInv'
<1>1. /\ PlatformKeeps /\ edge = "down" /\ device # "call" /\ forward = "off"
      /\ UNCHANGED <<edge, frame, device, permit, fwdVars, faults>>
  BY LogStill DEF ResolveIntent, ResolveSample, EdgeInv, Arrivals, Sending
<1>2. /\ \/ intent[k] = "begun" /\ intent'[k] = "resolved" /\ sample' = sample
         \/ sample[k] = "refused" /\ sample'[k] = "resolved" /\ intent' = intent
      /\ \A j \in Keys : j # k => intent'[j] = intent[j] /\ sample'[j] = sample[j]
  BY DEF EdgeInv, EdgeType, ResolveIntent, ResolveSample
<1>3. EdgeType'
  <2>1. /\ intent' \in [Keys -> {"none", "begun", "finished", "resolved"}]
        /\ sample' \in [Keys -> {"none", "pending", "forwarded", "refused", "resolved"}]
    BY DEF EdgeInv, EdgeType, ResolveIntent, ResolveSample
  <2> QED  BY <1>1, <2>1 DEF EdgeInv, EdgeType, fwdVars
<1>4. Arrivals' /\ SampleIffFinished'
  BY <1>1, <1>2 DEF EdgeInv, Arrivals, SampleIffFinished
<1>5. Sending'
  BY <1>1 DEF EdgeInv, Sending, fwdVars
<1>6. InOrder'
  BY <1>1, <1>2 DEF EdgeInv, InOrder, PlatformKeeps
<1>7. ForwardedIsRecorded'
  BY <1>1, <1>2 DEF EdgeInv, ForwardedIsRecorded, PlatformKeeps, SampleRecorded, Recorded
<1> QED  BY <1>1, <1>3, <1>4, <1>5, <1>6, <1>7 DEF EdgeInv, PlatformKeeps

\* The platform works on requests, also on those that the edge gave up.
LEMMA PlatformStepKeeps ==
  ASSUME Inv, \/ \E r \in Requests : PlatformRuns(r) \/ PlatformFails(r)
              \/ \E k \in Keys : PlatformSettles(k)
              \/ PlatformForgets
  PROVE  EdgeInv'
<1>1. LogStep /\ UNCHANGED <<edgeVars, fwdVars>> /\ (Fault \/ faults' = faults)
  BY DEF PlatformRuns, PlatformFails, PlatformSettles, PlatformForgets, LogStep
<1>2. faults' \in 0..MaxFaults
  BY <1>1, FaultsBounded DEF Inv, EdgeInv, EdgeType
<1>3. PlatformKeeps /\ CallsGoOn
  BY <1>1, PlatformStep DEF Inv
<1> QED  BY <1>1, <1>2, <1>3, PlatformAlone DEF Inv

-----------------------------------------------------------------------------
(* The theorems.                                                            *)

\* The edge starts with no frame, and the platform with an empty log.
LEMMA EdgeInitEstablishes == Init => Inv
<1> SUFFICES ASSUME Init  PROVE Inv
  OBVIOUS
<1>1. LogInv
  BY InitEstablishes DEF Init
<1>2. EdgeType
  <2>1. permit \in BOOLEAN
    BY DEF Init
  <2>2. frame \in 0..Frames /\ sending \in 0..Frames
    BY EdgeAssumption DEF Init, EdgeAssumption
  <2>3. inARow \in 0..CredentialBound /\ faults \in 0..MaxFaults
    BY EdgeAssumption DEF Init, EdgeAssumption
  <2> QED  BY <2>1, <2>2, <2>3 DEF Init, EdgeType
<1>3. Arrivals /\ SampleIffFinished /\ ForwardedIsRecorded
  BY DEF Init, Arrivals, SampleIffFinished, ForwardedIsRecorded
<1>4. OneSample /\ Sending
  BY EdgeAssumption DEF Init, LogInit, OneSample, Sending, EdgeAssumption
<1>5. \A k \in Keys : ~AtPlatform(k)
  BY DEF Init, LogInit, AtPlatform, Carries, Open
<1>6. InOrder
  BY <1>5 DEF Init, InOrder
<1> QED  BY <1>1, <1>2, <1>3, <1>4, <1>6 DEF Inv, EdgeInv

\* Every step of the edge, its operator and the platform keeps the invariant.
LEMMA EdgeNextKeeps == Inv /\ [Next]_vars => Inv'
<1> SUFFICES ASSUME Inv, [Next]_vars  PROVE Inv'
  OBVIOUS
<1>1. EdgeInv /\ LogInv
  BY DEF Inv
<1>2. LogInv'
  BY <1>1, ClientStep, NextKeeps
<1>3. CASE TakeFrame \/ StoreSample \/ Notify \/ StoreNothing
  BY <1>1, <1>2, <1>3, TakeFrameKeeps, StoreSampleKeeps, DeviceEndsKeeps DEF Inv
<1>4. CASE ForwardStep
  BY <1>1, <1>2, <1>4, ReadPendingKeeps, PassEndsKeeps, WokenKeeps, SendKeeps, ReceiveKeeps, RecordKeeps
  DEF Inv, ForwardStep
<1>5. CASE RouteRefuses \/ Unreachable \/ CredentialRefused
  BY <1>1, <1>2, <1>5, PassEndsKeeps DEF Inv
<1>6. CASE Stop \/ Stopped \/ Crash \/ Restart
  BY <1>1, <1>2, <1>6, ProcessKeeps DEF Inv
<1>7. CASE \E k \in Keys : ResolveIntent(k) \/ ResolveSample(k)
  BY <1>1, <1>2, <1>7, ResolveKeeps DEF Inv
<1>8. CASE \E r \in Requests : AnswerDropped(r)
  BY <1>2, <1>8, AnswerDroppedKeeps DEF Inv
<1>9. CASE \/ \E r \in Requests : PlatformRuns(r) \/ PlatformFails(r)
           \/ \E k \in Keys : PlatformSettles(k)
           \/ PlatformForgets
  BY <1>2, <1>9, PlatformStepKeeps DEF Inv
<1>10. CASE UNCHANGED vars
  <2>1. PlatformKeeps /\ CallsGoOn /\ UNCHANGED <<edgeVars, fwdVars, faults>>
    BY <1>1, <1>10, LogStill DEF vars
  <2>2. EdgeInv'
    BY <1>1, <2>1, PlatformAlone DEF EdgeInv, EdgeType
  <2> QED  BY <1>2, <2>2 DEF Inv
<1> QED  BY <1>3, <1>4, <1>5, <1>6, <1>7, <1>8, <1>9, <1>10 DEF Next

\* The invariant holds in every state.
THEOREM EdgeInvariance == Spec => []Inv
<1>1. Init => Inv
  BY EdgeInitEstablishes
<1>2. Inv /\ [Next]_vars => Inv'
  BY EdgeNextKeeps
<1> QED  BY <1>1, <1>2, PTL DEF Spec

\* The edge, with its repeats, its timeouts and its crashes, is a client of the
\* write log: what is proved of the log under any client holds under the edge.
THEOREM EdgeIsClient == Spec => ClientsSpec
<1>1. Init => LogInit
  BY DEF Init
<1>2. Inv /\ [Next]_vars => [ClientsNext]_logVars
  BY ClientStep DEF Inv
<1> QED  BY <1>1, <1>2, EdgeInvariance, PTL DEF Spec, ClientsSpec

\* Every variable of the edge keeps its type.
THEOREM EdgeTypeCorrect == Spec => []TypeOK
<1>1. Inv => TypeOK
  BY TypeHalves DEF Inv, EdgeInv, EdgeType, LogInv, CoreInv, TypeOK
<1> QED  BY <1>1, EdgeInvariance, PTL

\* A sample that update_pending marks forwarded is recorded by the platform, under
\* a row that is finished, or that finished and outlived its retention.
THEOREM ForwardedSampleIsRecorded == Spec => []ForwardedIsRecorded
<1>1. Inv => ForwardedIsRecorded
  BY DEF Inv, EdgeInv
<1> QED  BY <1>1, EdgeInvariance, PTL

\* SampleIntents::finish: the outcome of a reading and its sample stand or fall
\* together.
THEOREM ReadingIsKept == Spec => []SampleIffFinished
<1>1. Inv => SampleIffFinished
  BY DEF Inv, EdgeInv
<1> QED  BY <1>1, EdgeInvariance, PTL

\* While a sample is pending, no later one was settled, and none is in the
\* tables of the platform, not even by a request that the edge gave up.
THEOREM SamplesSettleInOrder == Spec => []SettledInOrder
<1>1. Inv => SettledInOrder
  <2> SUFFICES ASSUME Inv, NEW j \in Keys, NEW k \in Keys, j < k, sample[j] = "pending"
               PROVE  /\ sample[k] \in {"none", "pending"} /\ effects[k] = <<>> /\ row[k] = NoRow
                      /\ expired[k] = {} /\ k \notin stray
    BY DEF SettledInOrder
  <2>1. ~AtPlatform(k) /\ sample[k] \in {"none", "pending"}
    BY DEF Inv, EdgeInv, EdgeType, InOrder
  <2> QED  BY <2>1 DEF AtPlatform
<1> QED  BY <1>1, EdgeInvariance, PTL

\* What the log promises any client, it promises the edge: the work of a sample
\* is done once while its row is kept, a value is true, and an outcome stands
\* until it expires.
THEOREM LogServesEdge == Spec => []WorkedOnce /\ []ValueIsTrue /\ OutcomeStands
  BY EdgeIsClient, WorkIsDoneOnce, AnsweredValueIsTrue, OutcomesStand, PTL

==============================================================================
