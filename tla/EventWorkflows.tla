---------------------------- MODULE EventWorkflows ----------------------------
(***************************************************************************)
(* The event workflows of one captured entity: the stream and its durable  *)
(* consumer, the trigger rows that enable and disable change, and the      *)
(* materializer replicas.  A replica reads the enabled triggers, fetches a  *)
(* batch, refuses a message that a trigger refuses, and otherwise has the   *)
(* host admit it: one transaction reads the triggers again and inserts one  *)
(* run for each match.  The acknowledgement follows the commit.            *)
(*                                                                         *)
(* An enable reads the stream's tail before its transaction commits, a      *)
(* commit's answer or an acknowledgement can be lost, and the broker        *)
(* delivers an unsettled message again, MaxDeliver times in all.           *)
(***************************************************************************)
EXTENDS Naturals, Sequences

CONSTANTS
    Replicas,
    Workflows,
    Versions,
    Authored,      \* Authored[w]: the versions of w that exist
    Kinds,         \* what the triggers tell apart in a message
    Poison,        \* kinds that do not decode, have a wrong message id or an unknown source package
    Decide,        \* Decide[w][v][k]: "deliver", "skip" or "refuse"
    Batch,         \* messages of one fetch
    MaxDeliver,
    MaxMessages,   \* bound on published messages
    MaxVerbs,      \* bound on enables and disables
    MaxFaults,     \* bound on crashes, lost answers and passed acknowledgement waits
    NoVerb

ASSUME EventAssumption ==
    /\ Poison \subseteq Kinds /\ Authored \in [Workflows -> SUBSET Versions]
    /\ Decide \in [Workflows -> [Versions -> [Kinds -> {"deliver", "skip", "refuse"}]]]
    /\ Versions \subseteq Nat \ {0} /\ \A w \in Workflows : 1 \in Authored[w]
    /\ Batch \in Nat \ {0} /\ MaxDeliver \in Nat \ {0}
    /\ MaxMessages \in Nat /\ MaxVerbs \in Nat /\ MaxFaults \in Nat

Sequences == 1 .. MaxMessages

VARIABLES
    stream,     \* the kinds of the published messages
    message,    \* message[s]: "ready", "out", "acked", "terminated" or "exhausted"
    delivered,  \* delivered[s]: how often the broker delivered s
    trigger,    \* trigger[w]: the enabled version (0 for none) and its enable_sequence
    since,      \* since[w]: the stream's tail when the last enable of w committed
    verb,       \* the enable that holds the lifecycle lock, or NoVerb
    runs,       \* the run rows: idempotency key, workflow, version and sequence
    pc,         \* pc[r]: the step of a replica
    servings,   \* servings[r]: the triggers that the sweep read
    batch,      \* batch[r]: the fetched messages that are not settled
    matches,    \* matches[r]: the runs that the admission will insert
    verbs, faults

streamVars  == <<stream, message, delivered>>
verbVars    == <<trigger, since, verb, verbs>>
replicaVars == <<pc, servings, batch, matches>>
vars == <<streamVars, verbVars, replicaVars, runs, faults>>

Disabled == [version |-> 0, boundary |-> 0]

\* Before the first message, some workflows are enabled in their first version.
Init ==
    /\ stream = <<>>
    /\ message = [s \in Sequences |-> "ready"]
    /\ delivered = [s \in Sequences |-> 0]
    /\ trigger \in [Workflows -> {Disabled, [version |-> 1, boundary |-> 0]}]
    /\ since = [w \in Workflows |-> 0]
    /\ verb = NoVerb /\ verbs = 0
    /\ runs = {} /\ faults = 0
    /\ pc = [r \in Replicas |-> "idle"]
    /\ servings = [r \in Replicas |-> [w \in Workflows |-> Disabled]]
    /\ batch = [r \in Replicas |-> <<>>]
    /\ matches = [r \in Replicas |-> {}]

-----------------------------------------------------------------------------
(* The stream and the broker.                                               *)

Publish(k) ==
    /\ Len(stream) < MaxMessages
    /\ stream' = Append(stream, k)
    /\ UNCHANGED <<message, delivered, verbVars, replicaVars, runs, faults>>

Unsettled(s) == message[s] \in {"ready", "out"}

\* The broker delivers s again, or reports that the deliveries are exhausted.
Again(s) ==
    message' = IF message[s] = "out"
               THEN [message EXCEPT ![s] = IF delivered[s] < MaxDeliver THEN "ready" ELSE "exhausted"]
               ELSE message

\* The broker settles s; a message that is already settled stays as it is.
Settle(s, how) == message' = IF Unsettled(s) THEN [message EXCEPT ![s] = how] ELSE message

Fault == faults < MaxFaults /\ faults' = faults + 1

AckWaitPasses(s) ==
    /\ message[s] = "out" /\ Again(s)
    /\ IF \E r \in Replicas : \E i \in DOMAIN batch[r] : batch[r][i] = s
       THEN Fault ELSE UNCHANGED faults
    /\ UNCHANGED <<stream, delivered, verbVars, replicaVars, runs>>

-----------------------------------------------------------------------------
(* Enable and disable, under the lifecycle lock.                            *)

\* enable_in: the tail is read inside the transaction, before its commit.
EnableReads(w, v) ==
    /\ verb = NoVerb /\ verbs < MaxVerbs /\ v \in Authored[w]
    /\ verbs' = verbs + 1
    /\ verb' = [workflow |-> w, version |-> v, tail |-> Len(stream)]
    /\ UNCHANGED <<streamVars, trigger, since, replicaVars, runs, faults>>

\* One transaction disables the other versions and enables this one.
EnableCommits ==
    /\ verb # NoVerb
    /\ trigger' = [trigger EXCEPT ![verb.workflow] =
                      [version |-> verb.version, boundary |-> verb.tail]]
    /\ since' = [since EXCEPT ![verb.workflow] = Len(stream)]
    /\ verb' = NoVerb
    /\ UNCHANGED <<streamVars, verbs, replicaVars, runs, faults>>

\* The verb fails or dies; its transaction rolls back.
EnableFails ==
    /\ verb # NoVerb /\ verb' = NoVerb
    /\ UNCHANGED <<streamVars, trigger, since, verbs, replicaVars, runs, faults>>

Disable(w) ==
    /\ verb = NoVerb /\ verbs < MaxVerbs /\ trigger[w].version # 0
    /\ verbs' = verbs + 1
    /\ trigger' = [trigger EXCEPT ![w] = Disabled]
    /\ UNCHANGED <<streamVars, since, verb, replicaVars, runs, faults>>

-----------------------------------------------------------------------------
(* A materializer replica.                                                  *)

\* What the triggers t decide of the message s: EventTrigger::matches.
Verdict(t, w, s) ==
    IF t[w].version = 0 \/ s <= t[w].boundary THEN "skip"
    ELSE Decide[w][t[w].version][stream[s]]

Goto(r, p) == pc' = [pc EXCEPT ![r] = p]

\* load_servings; a replica that finds no trigger waits and sweeps again.
Sweep(r) ==
    /\ pc[r] = "idle" /\ \E w \in Workflows : trigger[w].version # 0
    /\ servings' = [servings EXCEPT ![r] = trigger]
    /\ Goto(r, "fetch")
    /\ UNCHANGED <<streamVars, verbVars, batch, matches, runs, faults>>

Ready == {s \in 1 .. Len(stream) : message[s] = "ready"}

\* The replica forgets the sweep.
Idle(r) ==
    /\ Goto(r, "idle")
    /\ servings' = [servings EXCEPT ![r] = [w \in Workflows |-> Disabled]]

\* The n oldest ready messages, in the order of the stream.
Oldest(n) ==
    {q \in [1 .. n -> Ready] :
        /\ \A i, j \in 1 .. n : i < j => q[i] < q[j]
        /\ \A s \in Ready : s <= q[n] => \E i \in 1 .. n : q[i] = s}

\* fetch: the oldest messages, or nothing (no message, an error, or the one
\* waiting pull belongs to another replica).
Fetch(r) ==
    /\ pc[r] = "fetch"
    /\ \E n \in 1 .. Batch : \E q \in Oldest(n) :
          LET taken == {q[i] : i \in 1 .. n} IN
          /\ message' = [s \in Sequences |-> IF s \in taken THEN "out" ELSE message[s]]
          /\ delivered' = [s \in Sequences |-> delivered[s] + (IF s \in taken THEN 1 ELSE 0)]
          /\ batch' = [batch EXCEPT ![r] = q]
    /\ Goto(r, "prepare")
    /\ UNCHANGED <<stream, verbVars, servings, matches, runs, faults>>

FetchNothing(r) ==
    /\ pc[r] = "fetch"
    /\ Idle(r)
    /\ UNCHANGED <<streamVars, verbVars, batch, matches, runs, faults>>

\* prepare_message for every serving: one refusal refuses the message.  A
\* delivery whose metadata does not parse goes back.
Prepare(r) ==
    LET s == Head(batch[r])
        refused == stream[s] \in Poison \/ \E w \in Workflows : Verdict(servings[r], w, s) = "refuse"
    IN
    /\ pc[r] = "prepare"
    /\ \/ Goto(r, IF refused THEN "terminate" ELSE "admit") /\ UNCHANGED faults
       \/ Goto(r, "nack") /\ Fault
    /\ UNCHANGED <<streamVars, verbVars, servings, batch, matches, runs>>

\* The replica is done with the message.
NextMessage(r) ==
    /\ batch' = [batch EXCEPT ![r] = Tail(@)]
    /\ matches' = [matches EXCEPT ![r] = {}]
    /\ IF Len(batch[r]) > 1
       THEN Goto(r, "prepare") /\ UNCHANGED servings
       ELSE Idle(r)

\* The broker takes the answer of the replica, or it is lost.
Answers(r, Settles) ==
    /\ \/ Settles /\ UNCHANGED faults
       \/ Fault /\ UNCHANGED message
    /\ NextMessage(r)
    /\ UNCHANGED <<stream, delivered, verbVars, runs>>

Terminate(r) == pc[r] = "terminate" /\ Answers(r, Settle(Head(batch[r]), "terminated"))

\* Mutant of Admitted: the admission uses the triggers of the sweep.
AdmittedOfSweep(r) == servings[r]

\* The triggers that the admission uses: it reads the rows again.
Admitted(r) == trigger

\* Mutant of Key: a new version starts the workflow again.
KeyWithVersion(w, v, s) == <<w, s, v>>

\* The idempotency key has the workflow and the delivery, not the version.
Key(w, v, s) == <<w, s>>

\* admit_event_batch reads the triggers and decides.
AdmitReads(r) ==
    LET s == Head(batch[r])
        t == Admitted(r)
    IN
    /\ pc[r] = "admit"
    /\ IF \E w \in Workflows : Verdict(t, w, s) = "refuse"
       THEN Goto(r, "nack") /\ UNCHANGED matches
       ELSE /\ Goto(r, "commit")
            /\ matches' = [matches EXCEPT ![r] =
                  {[key |-> Key(w, t[w].version, s), workflow |-> w, version |-> t[w].version,
                    seq |-> s] : w \in {w \in Workflows : Verdict(t, w, s) = "deliver"}}]
    /\ UNCHANGED <<streamVars, verbVars, servings, batch, runs, faults>>

\* The rows are inserted, ON CONFLICT DO NOTHING, and the transaction commits.
Insert(r) ==
    runs' = runs \cup {m \in matches[r] : \A row \in runs : row.key # m.key}

AdmitCommits(r) ==
    /\ pc[r] = "commit"
    /\ Insert(r) /\ Goto(r, "ack")
    /\ UNCHANGED <<streamVars, verbVars, servings, batch, matches, faults>>

\* The transaction fails, or its commit's answer is lost.
AdmitFails(r) ==
    /\ pc[r] = "commit" /\ Fault
    /\ Insert(r) \/ UNCHANGED runs
    /\ Goto(r, "nack")
    /\ UNCHANGED <<streamVars, verbVars, servings, batch, matches>>

Acknowledge(r) == pc[r] = "ack" /\ Answers(r, Settle(Head(batch[r]), "acked"))

Nack(r) == pc[r] = "nack" /\ Answers(r, Again(Head(batch[r])))

\* The replica dies and starts again.
Crash(r) ==
    /\ pc[r] # "idle" /\ Fault
    /\ Idle(r)
    /\ batch' = [batch EXCEPT ![r] = <<>>]
    /\ matches' = [matches EXCEPT ![r] = {}]
    /\ UNCHANGED <<streamVars, verbVars, runs>>

-----------------------------------------------------------------------------
Next ==
    \/ \E k \in Kinds : Publish(k)
    \/ \E s \in Sequences : AckWaitPasses(s)
    \/ \E w \in Workflows : Disable(w) \/ \E v \in Versions : EnableReads(w, v)
    \/ EnableCommits \/ EnableFails
    \/ \E r \in Replicas :
          \/ Sweep(r) \/ Fetch(r) \/ FetchNothing(r) \/ Prepare(r) \/ Terminate(r)
          \/ AdmitReads(r) \/ AdmitCommits(r) \/ AdmitFails(r) \/ Acknowledge(r) \/ Nack(r)
          \/ Crash(r)

Spec == Init /\ [][Next]_vars

-----------------------------------------------------------------------------
(* Properties.                                                              *)

Triggers == [Workflows -> [version : Versions \cup {0}, boundary : 0 .. MaxMessages]]

RunRows == [key : Seq(Workflows \cup Nat), workflow : Workflows, version : Versions, seq : Sequences]

\* The stream, the rows and the replicas keep their types.
TypeOK ==
    /\ stream \in Seq(Kinds) /\ delivered \in [Sequences -> 0 .. MaxDeliver]
    /\ message \in [Sequences -> {"ready", "out", "acked", "terminated", "exhausted"}]
    /\ trigger \in Triggers /\ since \in [Workflows -> 0 .. MaxMessages]
    /\ verb \in {NoVerb} \cup [workflow : Workflows, version : Versions, tail : 0 .. MaxMessages]
    /\ runs \subseteq RunRows /\ matches \in [Replicas -> SUBSET RunRows]
    /\ pc \in [Replicas -> {"idle", "fetch", "prepare", "terminate", "admit", "commit", "ack", "nack"}]
    /\ servings \in [Replicas -> Triggers] /\ batch \in [Replicas -> Seq(Sequences)]
    /\ \A r \in Replicas : batch[r] = <<>> <=> pc[r] \in {"idle", "fetch"}

\* One message starts a workflow at most once: through a redelivery, a commit
\* whose answer was lost, two replicas that hold the message at once, and a
\* change of the workflow's version in between.
OneRunPerDelivery ==
    \A a, b \in runs : a.workflow = b.workflow /\ a.seq = b.seq => a = b

Started(w, s) == \E m \in runs : m.workflow = w /\ m.seq = s

\* An acknowledged message that was published after the enable of a workflow
\* committed has started that workflow, for every workflow that matches,
\* though the replica swept before the enable.
EnabledStarts ==
    \A w \in Workflows, s \in 1 .. Len(stream) :
        message[s] = "acked" /\ s > since[w] /\ Verdict(trigger, w, s) = "deliver"
            => Started(w, s)

\* The enable boundary: an acknowledged message with a sequence greater than the
\* enable_sequence has started the workflow.
BoundaryStarts ==
    \A w \in Workflows, s \in 1 .. Len(stream) :
        message[s] = "acked" /\ Verdict(trigger, w, s) = "deliver" => Started(w, s)
===============================================================================
