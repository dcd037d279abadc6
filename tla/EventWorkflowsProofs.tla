------------------------- MODULE EventWorkflowsProofs -------------------------
(***************************************************************************)
(* Proofs about the event workflows of an entity, for every number of      *)
(* replicas, workflows, versions, messages, deliveries and failures, and   *)
(* whatever the triggers decide.                                           *)
(***************************************************************************)
EXTENDS EventWorkflows, SequenceTheorems, TLAPS

-----------------------------------------------------------------------------
(* The inductive invariant.                                                 *)

\* A message that is not published is not delivered, and one that is ready has
\* a delivery left.
Undelivered ==
    /\ Len(stream) <= MaxMessages
    /\ \A s \in Sequences : message[s] = "ready" => delivered[s] < MaxDeliver
    /\ \A s \in Sequences : s > Len(stream) => message[s] = "ready"
    /\ \A r \in Replicas : \A i \in DOMAIN batch[r] : batch[r][i] <= Len(stream)

\* A row has the key of its workflow and message, and the rows of one admission
\* are of workflows of their own.
RowKeys ==
    /\ \A m \in runs : m.key = <<m.workflow, m.seq>>
    /\ \A r \in Replicas : \A m \in matches[r] : m.key = <<m.workflow, m.seq>>
    /\ \A r \in Replicas : \A a, b \in matches[r] :
          a.workflow = b.workflow /\ a.seq = b.seq => a = b

\* The message s of the stream is after the enable of w that stands, and starts it.
Due(w, s) == s > since[w] /\ Verdict(trigger, w, s) = "deliver"

\* An admission that decided of a message has a row for every workflow that is
\* due, and one that committed has started it.
Decided ==
    \A r \in Replicas, w \in Workflows :
        /\ pc[r] = "commit" /\ Due(w, Head(batch[r])) =>
              \E m \in matches[r] : m.workflow = w /\ m.seq = Head(batch[r])
        /\ pc[r] = "ack" /\ Due(w, Head(batch[r])) => Started(w, Head(batch[r]))

Inv ==
    /\ TypeOK /\ Undelivered /\ RowKeys /\ Decided
    /\ OneRunPerDelivery /\ EnabledStarts

-----------------------------------------------------------------------------
(* The parts of the type invariant, and what a step may leave alone.         *)

StreamType ==
    /\ stream \in Seq(Kinds) /\ delivered \in [Sequences -> 0 .. MaxDeliver]
    /\ message \in [Sequences -> {"ready", "out", "acked", "terminated", "exhausted"}]
VerbType ==
    /\ trigger \in Triggers /\ since \in [Workflows -> 0 .. MaxMessages]
    /\ verb \in {NoVerb} \cup [workflow : Workflows, version : Versions, tail : 0 .. MaxMessages]
RowType == runs \subseteq RunRows /\ matches \in [Replicas -> SUBSET RunRows]
ReplicaType ==
    /\ pc \in [Replicas -> {"idle", "fetch", "prepare", "terminate", "admit", "commit", "ack", "nack"}]
    /\ servings \in [Replicas -> Triggers] /\ batch \in [Replicas -> Seq(Sequences)]
    /\ \A r \in Replicas : batch[r] = <<>> <=> pc[r] \in {"idle", "fetch"}

\* The type invariant is the conjunction of its parts.
LEMMA TypeParts == TypeOK <=> StreamType /\ VerbType /\ RowType /\ ReplicaType
  BY DEF TypeOK, StreamType, VerbType, RowType, ReplicaType

\* A message that a replica holds was published.
LEMMA HeadPublished ==
  ASSUME Inv, NEW r \in Replicas, pc[r] \notin {"idle", "fetch"}
  PROVE  /\ batch[r] \in Seq(Sequences) /\ batch[r] # <<>> /\ Len(batch[r]) \in Nat \ {0}
         /\ Head(batch[r]) \in Sequences /\ Head(batch[r]) \in 1 .. Len(stream)
<1>1. batch[r] \in Seq(Sequences) /\ batch[r] # <<>>
  BY DEF Inv, TypeOK
<1>2. 1 \in DOMAIN batch[r] /\ Len(batch[r]) \in Nat \ {0} /\ Head(batch[r]) = batch[r][1]
  BY <1>1
<1>3. batch[r][1] \in Sequences
  BY <1>1, <1>2
<1>4. batch[r][1] <= Len(stream)
  BY <1>2 DEF Inv, Undelivered
<1>5. Len(stream) \in Nat
  BY DEF Inv, TypeOK
<1> QED  BY <1>1, <1>2, <1>3, <1>4, <1>5 DEF Sequences

\* What is due changes with the triggers and the stream only.
LEMMA DueStill ==
  ASSUME UNCHANGED <<stream, trigger, since>>, NEW w, NEW s
  PROVE  Due(w, s)' <=> Due(w, s)
  BY DEF Due, Verdict

\* The other replicas do not move.
OthersStill(r) ==
    \A q \in Replicas : q # r =>
        /\ pc'[q] = pc[q] /\ servings'[q] = servings[q]
        /\ batch'[q] = batch[q] /\ matches'[q] = matches[q]

\* A replica that decided of nothing, or that forgets it, keeps what the others
\* decided.
LEMMA DecidedStill ==
  ASSUME Inv, UNCHANGED <<stream, trigger, since>>, runs \subseteq runs',
         NEW r \in Replicas, OthersStill(r),
         \A w \in Workflows :
            /\ pc'[r] = "commit" /\ Due(w, Head(batch'[r])) =>
                  \E m \in matches'[r] : m.workflow = w /\ m.seq = Head(batch'[r])
            /\ pc'[r] = "ack" /\ Due(w, Head(batch'[r])) => Started(w, Head(batch[r]))'
  PROVE  Decided'
<1> SUFFICES ASSUME NEW q \in Replicas, NEW w \in Workflows
             PROVE  /\ pc'[q] = "commit" /\ Due(w, Head(batch'[q])) =>
                          \E m \in matches'[q] : m.workflow = w /\ m.seq = Head(batch'[q])
                    /\ pc'[q] = "ack" /\ Due(w, Head(batch'[q])) => Started(w, Head(batch[q]))'
  BY DueStill DEF Decided, Due, Verdict
<1>1. CASE q = r
  BY <1>1
<1>2. CASE q # r
  <2>1. pc'[q] = pc[q] /\ batch'[q] = batch[q] /\ matches'[q] = matches[q]
    BY <1>2 DEF OthersStill
  <2>2. /\ pc[q] = "commit" /\ Due(w, Head(batch[q])) =>
              \E m \in matches[q] : m.workflow = w /\ m.seq = Head(batch[q])
        /\ pc[q] = "ack" /\ Due(w, Head(batch[q])) => Started(w, Head(batch[q]))
    BY DEF Inv, Decided
  <2>3. Started(w, Head(batch[q])) => Started(w, Head(batch[q]))'
    BY <2>1 DEF Started
  <2> QED  BY <2>1, <2>2, <2>3
<1> QED  BY <1>1, <1>2

\* A step that acknowledges only messages whose workflows have started.
LEMMA StartsStill ==
  ASSUME Inv, UNCHANGED <<stream, trigger, since>>, runs \subseteq runs',
         \A s \in 1 .. Len(stream) : message'[s] = "acked" =>
             message[s] = "acked" \/ \A w \in Workflows : Due(w, s) => Started(w, s)
  PROVE  EnabledStarts'
<1> SUFFICES ASSUME NEW w \in Workflows, NEW s \in 1 .. Len(stream), message'[s] = "acked", Due(w, s)
             PROVE  Started(w, s)'
  BY DueStill DEF EnabledStarts, Due, Verdict
<1>1. Started(w, s)
  BY DEF Inv, EnabledStarts, Due
<1> QED  BY <1>1 DEF Started

\* A step that inserts no row.
LEMMA RowsStill ==
  ASSUME Inv, UNCHANGED runs, matches' \in [Replicas -> SUBSET RunRows],
         \A r \in Replicas : matches'[r] = matches[r] \/ matches'[r] = {}
  PROVE  RowKeys' /\ RowType' /\ OneRunPerDelivery'
<1>1. RowType'
  BY DEF Inv, TypeOK, RowType
<1>2. RowKeys'
  BY DEF Inv, RowKeys
<1>3. OneRunPerDelivery'
  BY DEF Inv, OneRunPerDelivery
<1> QED  BY <1>1, <1>2, <1>3

-----------------------------------------------------------------------------
(* The stream, the broker and the triggers.                                 *)

\* A new message: nothing is decided of it yet.
LEMMA PublishKeeps ==
  ASSUME Inv, NEW k \in Kinds, Publish(k)
  PROVE  Inv'
<1>1. /\ stream' = Append(stream, k) /\ Len(stream) < MaxMessages
      /\ UNCHANGED <<message, delivered, trigger, since, verb, pc, servings, batch, matches, runs>>
  BY DEF Publish, verbVars, replicaVars
<1>2. stream \in Seq(Kinds) /\ Len(stream) \in Nat /\ MaxMessages \in Nat
  BY EventAssumption DEF Inv, TypeOK, EventAssumption
<1>3. /\ stream' \in Seq(Kinds) /\ Len(stream') = Len(stream) + 1
      /\ \A s \in 1 .. Len(stream) : stream'[s] = stream[s]
  BY <1>1, <1>2
<1>4. TypeOK'
  BY <1>1, <1>3 DEF Inv, TypeOK
<1>5. Undelivered'
  <2>1. Len(stream') <= MaxMessages
    BY <1>1, <1>2, <1>3
  <2>2. \A s \in Sequences : s > Len(stream') => s > Len(stream)
    BY <1>2, <1>3 DEF Sequences
  <2>3. ASSUME NEW r \in Replicas, NEW i \in DOMAIN batch[r]  PROVE batch[r][i] <= Len(stream')
    <3>1. batch[r][i] \in Sequences /\ batch[r][i] <= Len(stream)
      BY DEF Inv, TypeOK, Undelivered
    <3> QED  BY <1>2, <1>3, <3>1 DEF Sequences
  <2> QED  BY <1>1, <2>1, <2>2, <2>3 DEF Inv, Undelivered
<1>6. \A w \in Workflows, s \in 1 .. Len(stream) : Due(w, s)' <=> Due(w, s)
  BY <1>1, <1>3 DEF Due, Verdict
<1>7. Decided'
  <2> SUFFICES ASSUME NEW r \in Replicas, NEW w \in Workflows, pc[r] \in {"commit", "ack"},
                      Due(w, Head(batch[r]))'
               PROVE  /\ pc[r] = "commit" =>
                            \E m \in matches[r] : m.workflow = w /\ m.seq = Head(batch[r])
                      /\ pc[r] = "ack" => Started(w, Head(batch[r]))
    BY <1>1 DEF Decided, Started
  <2>1. Due(w, Head(batch[r]))
    BY <1>1, <1>6, HeadPublished
  <2> QED  BY <2>1 DEF Inv, Decided
<1>8. EnabledStarts'
  <2> SUFFICES ASSUME NEW w \in Workflows, NEW s \in 1 .. Len(stream'), message[s] = "acked", Due(w, s)'
               PROVE  Started(w, s)
    BY <1>1 DEF EnabledStarts, Due, Started
  <2>1. s \in 1 .. Len(stream)
    BY <1>1, <1>2, <1>3 DEF Inv, Undelivered, Sequences
  <2> QED  BY <1>6, <2>1 DEF Inv, EnabledStarts, Due
<1>9. RowKeys' /\ OneRunPerDelivery'
  BY <1>1 DEF Inv, RowKeys, OneRunPerDelivery
<1> QED  BY <1>4, <1>5, <1>7, <1>8, <1>9 DEF Inv

\* The broker settles or redelivers a message that was delivered.
Broker ==
    /\ UNCHANGED <<stream, delivered>>
    /\ message' \in [Sequences -> {"ready", "out", "acked", "terminated", "exhausted"}]
    /\ \A s \in Sequences : message'[s] # message[s] =>
          /\ s <= Len(stream)
          /\ message'[s] = "ready" => delivered[s] < MaxDeliver

\* Every settlement is such a step, when the message was published.
LEMMA BrokerSettles ==
  ASSUME Inv, UNCHANGED <<stream, delivered>>, NEW s \in Sequences, s <= Len(stream),
         \/ Again(s)
         \/ \E how \in {"acked", "terminated"} : Settle(s, how)
         \/ UNCHANGED message
  PROVE  Broker /\ \A t \in Sequences : t # s => message'[t] = message[t]
  BY DEF Inv, TypeOK, Again, Settle, Broker

\* It delivers nothing that was not published, and leaves the deliveries bounded.
LEMMA BrokerKeeps ==
  ASSUME Inv, Broker, batch' \in [Replicas -> Seq(Sequences)],
         \A r \in Replicas : batch'[r] = batch[r] \/ batch'[r] = <<>>
                             \/ (batch[r] # <<>> /\ batch'[r] = Tail(batch[r]))
  PROVE  StreamType' /\ Undelivered'
<1>1. StreamType'
  BY DEF Inv, TypeOK, StreamType, Broker
<1>2. \A s \in Sequences : message'[s] = "ready" => delivered'[s] < MaxDeliver
  BY DEF Inv, Undelivered, Broker
<1>3. \A s \in Sequences : s > Len(stream') => message'[s] = "ready"
  <2>1. Len(stream) \in Nat
    BY DEF Inv, TypeOK
  <2> QED  BY <2>1 DEF Inv, Undelivered, Broker, Sequences
<1>4. ASSUME NEW r \in Replicas, NEW i \in DOMAIN batch'[r]  PROVE batch'[r][i] <= Len(stream')
  <2>1. \A j \in DOMAIN batch[r] : batch[r][j] <= Len(stream)
    BY DEF Inv, Undelivered
  <2>2. CASE batch'[r] = batch[r]
    BY <2>1, <2>2 DEF Broker
  <2>3. CASE batch'[r] = <<>>
    BY <2>3
  <2>4. CASE batch[r] # <<>> /\ batch'[r] = Tail(batch[r])
    <3>1. batch[r] \in Seq(Sequences)
      BY DEF Inv, TypeOK
    <3>2. i + 1 \in DOMAIN batch[r] /\ batch'[r][i] = batch[r][i + 1]
      BY <2>4, <3>1
    <3> QED  BY <2>1, <3>2 DEF Broker
  <2> QED  BY <2>2, <2>3, <2>4
<1> QED  BY <1>1, <1>2, <1>3, <1>4 DEF Inv, Undelivered, Broker

\* The acknowledgement wait of a message passes.
LEMMA AckWaitKeeps ==
  ASSUME Inv, NEW s \in Sequences, AckWaitPasses(s)
  PROVE  Inv'
<1>1. /\ message[s] = "out" /\ Again(s) /\ UNCHANGED <<stream, delivered>>
      /\ UNCHANGED <<trigger, since, verb, pc, servings, batch, matches, runs>>
  BY DEF AckWaitPasses, verbVars, replicaVars
<1>2. s <= Len(stream)
  <2>1. Len(stream) \in Nat
    BY DEF Inv, TypeOK
  <2> QED  BY <1>1, <2>1 DEF Inv, Undelivered, Sequences
<1>3. Broker /\ \A t \in Sequences : t # s => message'[t] = message[t]
  BY <1>1, <1>2, BrokerSettles
<1>4. StreamType' /\ Undelivered'
  <2>1. batch' \in [Replicas -> Seq(Sequences)]
    BY <1>1 DEF Inv, TypeOK
  <2>2. \A r \in Replicas : batch'[r] = batch[r] \/ batch'[r] = <<>>
                             \/ (batch[r] # <<>> /\ batch'[r] = Tail(batch[r]))
    BY <1>1
  <2> QED  BY <1>3, <2>1, <2>2, BrokerKeeps
<1>5. TypeOK'
  BY <1>1, <1>4 DEF Inv, TypeOK, StreamType
<1>6. message'[s] # "acked"
  BY <1>1 DEF Again, Inv, TypeOK
<1>7. EnabledStarts'
  <2>1. 1 .. Len(stream) \subseteq Sequences
    <3>1. stream \in Seq(Kinds) /\ Len(stream) <= MaxMessages /\ MaxMessages \in Nat
      BY EventAssumption DEF Inv, TypeOK, Undelivered, EventAssumption
    <3> QED  BY <3>1 DEF Sequences
  <2>2. \A t \in 1 .. Len(stream) : message'[t] = "acked" => message[t] = "acked"
    BY <1>3, <1>6, <2>1
  <2> QED  BY <1>1, <2>2, StartsStill
<1>8. Decided'
  BY <1>1 DEF Inv, Decided, Due, Verdict, Started
<1>9. RowKeys' /\ OneRunPerDelivery'
  BY <1>1 DEF Inv, RowKeys, OneRunPerDelivery
<1> QED  BY <1>4, <1>5, <1>7, <1>8, <1>9 DEF Inv

\* A change of the triggers that makes no published message due.
LEMMA TriggersChange ==
  ASSUME Inv, UNCHANGED <<streamVars, replicaVars, runs>>, VerbType',
         \A w \in Workflows, s \in 1 .. Len(stream) : Due(w, s)' => Due(w, s)
  PROVE  Inv'
<1>1. UNCHANGED <<stream, message, delivered, pc, servings, batch, matches, runs>>
  BY DEF streamVars, replicaVars
<1>2. TypeOK'
  BY <1>1 DEF Inv, TypeOK, VerbType
<1>3. Undelivered' /\ RowKeys' /\ OneRunPerDelivery'
  BY <1>1 DEF Inv, Undelivered, RowKeys, OneRunPerDelivery
<1>4. Decided'
  <2> SUFFICES ASSUME NEW r \in Replicas, NEW w \in Workflows, pc[r] \in {"commit", "ack"},
                      Due(w, Head(batch[r]))'
               PROVE  /\ pc[r] = "commit" =>
                            \E m \in matches[r] : m.workflow = w /\ m.seq = Head(batch[r])
                      /\ pc[r] = "ack" => Started(w, Head(batch[r]))
    BY <1>1 DEF Decided, Started
  <2>1. Due(w, Head(batch[r]))
    BY <1>1, HeadPublished
  <2> QED  BY <2>1 DEF Inv, Decided
<1>5. EnabledStarts'
  BY <1>1 DEF Inv, EnabledStarts, Due, Started
<1> QED  BY <1>2, <1>3, <1>4, <1>5 DEF Inv

\* enable and disable: a message is due of a new trigger only when it is
\* published after the commit.
LEMMA VerbKeeps ==
  ASSUME Inv, \/ EnableCommits \/ EnableFails
              \/ \E w \in Workflows : Disable(w) \/ \E v \in Versions : EnableReads(w, v)
  PROVE  Inv'
<1>1. UNCHANGED <<streamVars, replicaVars, runs>>
  BY DEF EnableCommits, EnableFails, Disable, EnableReads
<1>2. Len(stream) \in 0 .. MaxMessages /\ MaxMessages \in Nat
  BY EventAssumption DEF Inv, TypeOK, Undelivered, EventAssumption
<1>3. CASE EnableCommits
  <2>1. PICK w \in Workflows, v \in Versions, n \in 0 .. MaxMessages :
          verb = [workflow |-> w, version |-> v, tail |-> n]
    BY <1>3 DEF EnableCommits, Inv, TypeOK
  <2>2. /\ trigger' = [trigger EXCEPT ![w] = [version |-> v, boundary |-> n]]
        /\ since' = [since EXCEPT ![w] = Len(stream)] /\ verb' = NoVerb
    BY <1>3, <2>1 DEF EnableCommits
  <2>3. VerbType'
    BY <1>2, <2>1, <2>2 DEF Inv, TypeOK, VerbType, Triggers
  <2>4. ASSUME NEW x \in Workflows, NEW s \in 1 .. Len(stream), Due(x, s)'  PROVE Due(x, s)
    <3>1. CASE x = w
      <4>1. since'[w] = Len(stream)
        BY <2>2 DEF Inv, TypeOK
      <4> QED  BY <1>2, <2>4, <3>1, <4>1 DEF Due
    <3>2. CASE x # w
      <4>1. trigger'[x] = trigger[x] /\ since'[x] = since[x] /\ stream' = stream
        BY <1>1, <2>2, <3>2 DEF Inv, TypeOK, Triggers, streamVars
      <4> QED  BY <2>4, <4>1 DEF Due, Verdict
    <3> QED  BY <3>1, <3>2
  <2> QED  BY <1>1, <2>3, <2>4, TriggersChange
<1>4. CASE EnableFails
  <2>1. VerbType' /\ UNCHANGED <<stream, trigger, since>>
    BY <1>4 DEF EnableFails, Inv, TypeOK, VerbType, streamVars
  <2> QED  BY <1>1, <2>1, DueStill, TriggersChange
<1>5. ASSUME NEW w \in Workflows, NEW v \in Versions, EnableReads(w, v)  PROVE Inv'
  <2>1. VerbType' /\ UNCHANGED <<stream, trigger, since>>
    BY <1>2, <1>5 DEF EnableReads, Inv, TypeOK, VerbType, streamVars
  <2> QED  BY <1>1, <2>1, DueStill, TriggersChange
<1>6. ASSUME NEW w \in Workflows, Disable(w)  PROVE Inv'
  <2>1. trigger' = [trigger EXCEPT ![w] = Disabled] /\ UNCHANGED <<stream, since, verb>>
    BY <1>6 DEF Disable, streamVars
  <2>2. Disabled \in [version : Versions \cup {0}, boundary : 0 .. MaxMessages]
    BY <1>2 DEF Disabled
  <2>3. VerbType'
    BY <2>1, <2>2 DEF Inv, TypeOK, VerbType, Triggers
  <2>4. ASSUME NEW x \in Workflows, NEW s \in 1 .. Len(stream), Due(x, s)'  PROVE Due(x, s)
    <3>1. CASE x = w
      <4>1. trigger'[w].version = 0
        BY <2>1 DEF Inv, TypeOK, Triggers, Disabled
      <4> QED  BY <2>4, <3>1, <4>1 DEF Due, Verdict
    <3>2. CASE x # w
      <4>1. trigger'[x] = trigger[x] /\ since'[x] = since[x] /\ stream' = stream
        BY <2>1, <3>2 DEF Inv, TypeOK, Triggers
      <4> QED  BY <2>4, <4>1 DEF Due, Verdict
    <3> QED  BY <3>1, <3>2
  <2> QED  BY <1>1, <2>3, <2>4, TriggersChange
<1> QED  BY <1>3, <1>4, <1>5, <1>6

-----------------------------------------------------------------------------
(* The replicas.                                                            *)

\* A replica that moves and neither decides of a message nor inserts a row.
LEMMA ReplicaKeeps ==
  ASSUME Inv, NEW r \in Replicas, UNCHANGED <<trigger, since, verb, runs>>, Broker,
         ReplicaType', OthersStill(r), pc'[r] \notin {"commit", "ack"},
         \/ batch'[r] = batch[r] \/ batch'[r] = <<>>
         \/ (batch[r] # <<>> /\ batch'[r] = Tail(batch[r])),
         matches' \in [Replicas -> SUBSET RunRows], matches'[r] = matches[r] \/ matches'[r] = {},
         \A s \in 1 .. Len(stream) : message'[s] = "acked" =>
             message[s] = "acked" \/ \A w \in Workflows : Due(w, s) => Started(w, s)
  PROVE  Inv'
<1>1. UNCHANGED stream
  BY DEF Broker
<1>2. StreamType' /\ Undelivered'
  <2>1. batch' \in [Replicas -> Seq(Sequences)]
    BY DEF ReplicaType
  <2>2. \A q \in Replicas : batch'[q] = batch[q] \/ batch'[q] = <<>>
                             \/ (batch[q] # <<>> /\ batch'[q] = Tail(batch[q]))
    BY DEF OthersStill
  <2> QED  BY <2>1, <2>2, BrokerKeeps
<1>3. RowKeys' /\ RowType' /\ OneRunPerDelivery'
  <2>1. \A q \in Replicas : matches'[q] = matches[q] \/ matches'[q] = {}
    BY DEF OthersStill
  <2> QED  BY <2>1, RowsStill
<1>4. TypeOK'
  BY <1>2, <1>3 DEF Inv, TypeOK, StreamType, RowType, ReplicaType
<1>5. Decided'
  BY <1>1, DecidedStill
<1>6. EnabledStarts'
  BY <1>1, StartsStill
<1> QED  BY <1>2, <1>3, <1>4, <1>5, <1>6 DEF Inv

\* The broker sees nothing of a step of a replica alone.
LEMMA BrokerStill ==
  ASSUME Inv, UNCHANGED streamVars
  PROVE  Broker /\ \A s \in 1 .. Len(stream) : message'[s] = "acked" => message[s] = "acked"
  BY DEF Inv, TypeOK, Broker, streamVars

\* The servings of a replica without a sweep.
LEMMA NoServings == [w \in Workflows |-> Disabled] \in Triggers
<1>1. Disabled \in [version : Versions \cup {0}, boundary : 0 .. MaxMessages]
  BY EventAssumption DEF Disabled, EventAssumption
<1> QED  BY <1>1 DEF Triggers

\* A sweep, a fetch of nothing, and the decision of prepare_message.
LEMMA MoveKeeps ==
  ASSUME Inv, NEW r \in Replicas, Sweep(r) \/ FetchNothing(r) \/ Prepare(r)
  PROVE  Inv'
<1>1. UNCHANGED <<streamVars, trigger, since, verb, runs, batch, matches>>
  BY DEF Sweep, FetchNothing, Prepare, verbVars
<1>2. PICK p \in {"idle", "fetch", "terminate", "admit", "nack"} :
        /\ pc' = [pc EXCEPT ![r] = p]
        /\ pc[r] \in {"idle", "fetch"} <=> p \in {"idle", "fetch"}
  BY DEF Sweep, FetchNothing, Prepare, Idle, Goto
<1>3. servings' \in [Replicas -> Triggers] /\ \A q \in Replicas : q # r => servings'[q] = servings[q]
  <2>1. trigger \in Triggers /\ servings \in [Replicas -> Triggers]
    BY DEF Inv, TypeOK
  <2>2. PICK t \in Triggers : servings' = [servings EXCEPT ![r] = t] \/ servings' = servings
    BY <2>1, NoServings DEF Sweep, FetchNothing, Prepare, Idle
  <2> QED  BY <2>1, <2>2
<1>4. ReplicaType' /\ OthersStill(r) /\ pc'[r] = p
  BY <1>1, <1>2, <1>3 DEF Inv, TypeOK, ReplicaType, OthersStill
<1>5. matches' \in [Replicas -> SUBSET RunRows]
  BY <1>1 DEF Inv, TypeOK
<1> QED  BY <1>1, <1>2, <1>4, <1>5, BrokerStill, ReplicaKeeps

\* The last message of a batch leaves it empty.
LEMMA ShorterBatch ==
  ASSUME NEW S, NEW q \in Seq(S), q # <<>>
  PROVE  /\ Tail(q) \in Seq(S) /\ Len(q) \in Nat \ {0}
         /\ Tail(q) = <<>> <=> ~(Len(q) > 1)
<1>1. Len(q) \in Nat \ {0}
  BY EmptySeq
<1>2. PICK t \in Seq(S) : t = Tail(q) /\ Len(t) = Len(q) - 1
  BY HeadTailProperties
<1>3. CASE Len(q) > 1
  <2>1. t # <<>>
    BY <1>1, <1>2, <1>3
  <2> QED  BY <1>1, <1>2, <1>3, <2>1
<1>4. CASE ~(Len(q) > 1)
  <2>1. Len(t) = 0
    BY <1>1, <1>2, <1>4
  <2>2. t = <<>>
    BY <1>2, <2>1, EmptySeq
  <2> QED  BY <1>1, <1>2, <1>4, <2>2
<1> QED  BY <1>3, <1>4

\* The replica is done with a message, or dies: its batch is shorter, and it is
\* at the next message or idle.
LEMMA NextMessageMoves ==
  ASSUME Inv, NEW r \in Replicas, pc[r] \notin {"idle", "fetch"},
         \/ NextMessage(r)
         \/ /\ Idle(r) /\ batch' = [batch EXCEPT ![r] = <<>>]
            /\ matches' = [matches EXCEPT ![r] = {}]
  PROVE  /\ ReplicaType' /\ OthersStill(r) /\ pc'[r] \in {"idle", "prepare"}
         /\ batch'[r] = <<>> \/ (batch[r] # <<>> /\ batch'[r] = Tail(batch[r]))
         /\ matches' \in [Replicas -> SUBSET RunRows] /\ matches'[r] = {}
<1>1. batch[r] \in Seq(Sequences) /\ batch[r] # <<>>
  BY HeadPublished
<1>2. /\ Tail(batch[r]) \in Seq(Sequences) /\ Len(batch[r]) \in Nat \ {0}
      /\ Tail(batch[r]) = <<>> <=> ~(Len(batch[r]) > 1)
  BY <1>1, ShorterBatch
<1>3. PICK b \in Seq(Sequences), p \in {"idle", "prepare"} :
        /\ batch' = [batch EXCEPT ![r] = b] /\ pc' = [pc EXCEPT ![r] = p]
        /\ b = <<>> <=> p = "idle"
        /\ b = <<>> \/ b = Tail(batch[r])
        /\ matches' = [matches EXCEPT ![r] = {}]
  <2>1. CASE NextMessage(r)
    BY <1>2, <2>1 DEF NextMessage, Idle, Goto
  <2>2. CASE Idle(r) /\ batch' = [batch EXCEPT ![r] = <<>>] /\ matches' = [matches EXCEPT ![r] = {}]
    <3>1. <<>> \in Seq(Sequences)
      OBVIOUS
    <3> QED  BY <2>2, <3>1 DEF Idle, Goto
  <2> QED  BY <2>1, <2>2
<1>4. servings' \in [Replicas -> Triggers] /\ \A q \in Replicas : q # r => servings'[q] = servings[q]
  <2>1. PICK t \in Triggers : servings' = [servings EXCEPT ![r] = t] \/ servings' = servings
    BY NoServings DEF NextMessage, Idle
  <2>2. servings \in [Replicas -> Triggers]
    BY DEF Inv, TypeOK
  <2> QED  BY <2>1, <2>2
<1>5. ReplicaType' /\ OthersStill(r)
  BY <1>3, <1>4 DEF Inv, TypeOK, ReplicaType, OthersStill
<1>6. matches' \in [Replicas -> SUBSET RunRows] /\ matches'[r] = {}
  BY <1>3 DEF Inv, TypeOK
<1>7. pc'[r] \in {"idle", "prepare"} /\ batch'[r] = b
  BY <1>3 DEF Inv, TypeOK
<1> QED  BY <1>1, <1>3, <1>5, <1>6, <1>7

\* A message leaves a replica by an acknowledgement, a termination or a nack,
\* whose answer may be lost, or by a crash.  An acknowledged one has started
\* every workflow that was due.
LEMMA LeaveKeeps ==
  ASSUME Inv, NEW r \in Replicas, Terminate(r) \/ Acknowledge(r) \/ Nack(r) \/ Crash(r)
  PROVE  Inv'
<1>1. /\ pc[r] \notin {"idle", "fetch"} \/ Crash(r)
      /\ UNCHANGED <<stream, delivered, trigger, since, verb, runs>>
  BY DEF Terminate, Acknowledge, Nack, Crash, Answers, streamVars, verbVars
<1>2. CASE pc[r] \in {"idle", "fetch"}
  <2>1. /\ pc[r] = "fetch" /\ Idle(r) /\ batch' = [batch EXCEPT ![r] = <<>>]
        /\ matches' = [matches EXCEPT ![r] = {}] /\ UNCHANGED streamVars
    BY <1>1, <1>2 DEF Crash
  <2>2. servings' \in [Replicas -> Triggers] /\ \A q \in Replicas : q # r => servings'[q] = servings[q]
    BY <2>1, NoServings DEF Idle, Inv, TypeOK
  <2>3. ReplicaType' /\ OthersStill(r) /\ pc'[r] = "idle" /\ batch'[r] = <<>>
    <3>1. <<>> \in Seq(Sequences)
      OBVIOUS
    <3> QED  BY <2>1, <2>2, <3>1 DEF Inv, TypeOK, ReplicaType, OthersStill, Idle, Goto
  <2>4. matches' \in [Replicas -> SUBSET RunRows] /\ matches'[r] = {}
    BY <2>1 DEF Inv, TypeOK
  <2> QED  BY <1>1, <2>1, <2>3, <2>4, BrokerStill, ReplicaKeeps
<1>3. CASE pc[r] \notin {"idle", "fetch"}
  <2>1. PICK s \in Sequences : s = Head(batch[r]) /\ s \in 1 .. Len(stream)
    BY <1>3, HeadPublished
  <2>2. s <= Len(stream)
    <3>1. Len(stream) \in Nat
      BY DEF Inv, TypeOK
    <3> QED  BY <2>1, <3>1
  <2>3. \/ Again(s) \/ UNCHANGED message
        \/ \E how \in {"acked", "terminated"} : Settle(s, how)
    BY <2>1 DEF Terminate, Acknowledge, Nack, Crash, Answers, streamVars
  <2>4. Broker /\ \A t \in Sequences : t # s => message'[t] = message[t]
    BY <1>1, <2>2, <2>3, BrokerSettles
  <2>5. message'[s] = "acked" => message[s] = "acked" \/ \A w \in Workflows : Due(w, s) => Started(w, s)
    <3>1. CASE pc[r] = "ack"
      BY <2>1, <3>1 DEF Inv, Decided
    <3>2. CASE pc[r] # "ack"
      BY <2>1, <3>2 DEF Terminate, Acknowledge, Nack, Crash, Answers, Settle, Again, streamVars,
                        Inv, TypeOK
    <3> QED  BY <3>1, <3>2
  <2>6. \A t \in 1 .. Len(stream) : message'[t] = "acked" =>
          message[t] = "acked" \/ \A w \in Workflows : Due(w, t) => Started(w, t)
    <3>1. 1 .. Len(stream) \subseteq Sequences
      <4>1. stream \in Seq(Kinds) /\ Len(stream) <= MaxMessages /\ MaxMessages \in Nat
        BY EventAssumption DEF Inv, TypeOK, Undelivered, EventAssumption
      <4> QED  BY <4>1 DEF Sequences
    <3> QED  BY <2>4, <2>5, <3>1
  <2>7. /\ ReplicaType' /\ OthersStill(r) /\ pc'[r] \in {"idle", "prepare"}
        /\ batch'[r] = <<>> \/ (batch[r] # <<>> /\ batch'[r] = Tail(batch[r]))
        /\ matches' \in [Replicas -> SUBSET RunRows] /\ matches'[r] = {}
    <3>1. \/ NextMessage(r)
          \/ /\ Idle(r) /\ batch' = [batch EXCEPT ![r] = <<>>]
             /\ matches' = [matches EXCEPT ![r] = {}]
      BY DEF Terminate, Acknowledge, Nack, Crash, Answers
    <3> QED  BY <1>3, <3>1, NextMessageMoves
  <2> QED  BY <1>1, <2>4, <2>6, <2>7, ReplicaKeeps
<1> QED  BY <1>2, <1>3

\* fetch: ready messages, which were published, go out in the stream's order.
LEMMA FetchKeeps ==
  ASSUME Inv, NEW r \in Replicas, Fetch(r)
  PROVE  Inv'
<1>1. PICK n \in 1 .. Batch : \E q \in Oldest(n) :
        LET taken == {q[i] : i \in 1 .. n} IN
        /\ message' = [s \in Sequences |-> IF s \in taken THEN "out" ELSE message[s]]
        /\ delivered' = [s \in Sequences |-> delivered[s] + (IF s \in taken THEN 1 ELSE 0)]
        /\ batch' = [batch EXCEPT ![r] = q]
  BY DEF Fetch
<1>2. PICK q \in [1 .. n -> Ready] :
        /\ message' = [s \in Sequences |-> IF s \in {q[i] : i \in 1 .. n} THEN "out" ELSE message[s]]
        /\ delivered' = [s \in Sequences |->
                            delivered[s] + (IF s \in {q[i] : i \in 1 .. n} THEN 1 ELSE 0)]
        /\ batch' = [batch EXCEPT ![r] = q]
  BY <1>1 DEF Oldest
<1>3. /\ pc[r] = "fetch" /\ pc' = [pc EXCEPT ![r] = "prepare"]
      /\ UNCHANGED <<stream, trigger, since, verb, servings, matches, runs>>
  BY DEF Fetch, Goto, verbVars
<1>4. n \in Nat \ {0} /\ MaxDeliver \in Nat /\ MaxMessages \in Nat
  BY EventAssumption DEF EventAssumption
<1>5. Ready \subseteq Sequences /\ \A s \in Ready : s <= Len(stream) /\ message[s] = "ready"
  <2>1. stream \in Seq(Kinds) /\ Len(stream) <= MaxMessages
    BY DEF Inv, TypeOK, Undelivered
  <2> QED  BY <1>4, <2>1 DEF Ready, Sequences
<1>6. q \in Seq(Sequences) /\ q # <<>> /\ DOMAIN q = 1 .. n /\ \A i \in 1 .. n : q[i] \in Ready
  <2>1. q \in [1 .. n -> Sequences]
    BY <1>2, <1>5
  <2>2. q \in Seq(Sequences)
    BY <1>4, <2>1
  <2>3. 1 \in DOMAIN q
    BY <1>4, <2>1
  <2> QED  BY <1>2, <2>2, <2>3
<1>7. \A s \in Sequences :
        \/ s \in Ready /\ message'[s] = "out" /\ delivered'[s] = delivered[s] + 1
        \/ message'[s] = message[s] /\ delivered'[s] = delivered[s]
  <2>1. \A s \in Sequences : delivered[s] \in Nat
    BY <1>4 DEF Inv, TypeOK
  <2> QED  BY <1>2, <1>6, <2>1
<1>8. StreamType'
  <2>1. \A s \in Ready : delivered[s] < MaxDeliver
    BY <1>5 DEF Inv, Undelivered
  <2>2. \A s \in Sequences : delivered[s] \in 0 .. MaxDeliver
    BY DEF Inv, TypeOK
  <2>3. \A s \in Sequences : delivered'[s] \in 0 .. MaxDeliver
    BY <1>4, <1>7, <2>1, <2>2
  <2>4. \A s \in Sequences : message'[s] \in {"ready", "out", "acked", "terminated", "exhausted"}
    BY <1>7 DEF Inv, TypeOK
  <2>5. delivered' \in [Sequences -> 0 .. MaxDeliver]
    BY <1>2, <2>3
  <2>6. message' \in [Sequences -> {"ready", "out", "acked", "terminated", "exhausted"}]
    BY <1>2, <2>4
  <2> QED  BY <1>3, <2>5, <2>6 DEF Inv, TypeOK, StreamType
<1>9. ReplicaType' /\ OthersStill(r) /\ batch'[r] = q /\ pc'[r] = "prepare"
  BY <1>2, <1>3, <1>6 DEF Inv, TypeOK, ReplicaType, OthersStill
<1>10. TypeOK'
  BY <1>3, <1>8, <1>9 DEF Inv, TypeOK, StreamType, ReplicaType
<1>11. Undelivered'
  <2>1. \A s \in Sequences : message'[s] = "ready" => delivered'[s] < MaxDeliver
    BY <1>7 DEF Inv, Undelivered
  <2>2. \A s \in Sequences : s > Len(stream) => message'[s] = "ready"
    <3>1. Len(stream) \in Nat
      BY DEF Inv, TypeOK
    <3> QED  BY <1>5, <1>7, <3>1 DEF Inv, Undelivered, Sequences
  <2>3. ASSUME NEW p \in Replicas, NEW i \in DOMAIN batch'[p]  PROVE batch'[p][i] <= Len(stream)
    <3>1. CASE p = r
      BY <1>5, <1>6, <1>9, <3>1, <2>3
    <3>2. CASE p # r
      BY <1>9, <3>2, <2>3 DEF OthersStill, Inv, Undelivered
    <3> QED  BY <3>1, <3>2
  <2> QED  BY <1>3, <2>1, <2>2, <2>3 DEF Inv, Undelivered
<1>12. Decided'
  BY <1>3, <1>9, DecidedStill
<1>13. EnabledStarts'
  <2>1. 1 .. Len(stream) \subseteq Sequences
    <3>1. stream \in Seq(Kinds) /\ Len(stream) <= MaxMessages
      BY DEF Inv, TypeOK, Undelivered
    <3> QED  BY <1>4, <3>1 DEF Sequences
  <2>2. \A t \in 1 .. Len(stream) : message'[t] = "acked" => message[t] = "acked"
    BY <1>7, <2>1
  <2> QED  BY <1>3, <2>2, StartsStill
<1>14. RowKeys' /\ OneRunPerDelivery'
  BY <1>3 DEF Inv, RowKeys, OneRunPerDelivery
<1> QED  BY <1>10, <1>11, <1>12, <1>13, <1>14 DEF Inv

-----------------------------------------------------------------------------
(* The admission.                                                           *)

\* The row that the admission inserts for workflow w and message s.
RowOf(w, s) ==
    [key |-> Key(w, trigger[w].version, s), workflow |-> w, version |-> trigger[w].version, seq |-> s]

\* A row of a workflow that matches is a run row, and names its message.
LEMMA RowOfType ==
  ASSUME Inv, NEW w \in Workflows, NEW s \in Sequences, Verdict(trigger, w, s) = "deliver"
  PROVE  /\ RowOf(w, s) \in RunRows
         /\ RowOf(w, s).workflow = w /\ RowOf(w, s).seq = s /\ RowOf(w, s).key = <<w, s>>
<1>1. trigger[w].version \in Versions
  BY DEF Inv, TypeOK, Triggers, Verdict
<1>2. w \in Workflows \cup Nat /\ s \in Workflows \cup Nat
  BY DEF Sequences
<1>3. <<w, s>> \in Seq(Workflows \cup Nat)
  BY <1>2
<1> QED  BY <1>1, <1>3 DEF RowOf, RunRows, Key

\* admit_event_batch decides by the triggers that it reads: a row for every
\* workflow that is due.
LEMMA AdmitReadsKeeps ==
  ASSUME Inv, NEW r \in Replicas, AdmitReads(r)
  PROVE  Inv'
<1>1. /\ pc[r] = "admit" /\ UNCHANGED streamVars
      /\ UNCHANGED <<stream, message, delivered, trigger, since, verb, servings, batch, runs>>
  BY DEF AdmitReads, streamVars, verbVars
<1>2. CASE pc' = [pc EXCEPT ![r] = "nack"] /\ matches' = matches
  <2>1. ReplicaType' /\ OthersStill(r) /\ pc'[r] = "nack"
    BY <1>1, <1>2 DEF Inv, TypeOK, ReplicaType, OthersStill
  <2>2. matches' \in [Replicas -> SUBSET RunRows]
    BY <1>2 DEF Inv, TypeOK
  <2> QED  BY <1>1, <1>2, <2>1, <2>2, BrokerStill, ReplicaKeeps
<1>3. PICK s \in Sequences : s = Head(batch[r])
  BY <1>1, HeadPublished
<1>4. CASE /\ pc' = [pc EXCEPT ![r] = "commit"]
           /\ matches' = [matches EXCEPT ![r] =
                  {RowOf(w, s) : w \in {w \in Workflows : Verdict(trigger, w, s) = "deliver"}}]
  <2> DEFINE M == {RowOf(w, s) : w \in {w \in Workflows : Verdict(trigger, w, s) = "deliver"}}
  <2>1. \A m \in M : /\ m \in RunRows /\ m.key = <<m.workflow, m.seq>> /\ m.seq = s
                     /\ m.workflow \in Workflows /\ m = RowOf(m.workflow, s)
    BY RowOfType
  <2>2. matches' = [matches EXCEPT ![r] = M]
    BY <1>4
  <2>3. M \subseteq RunRows
    BY <2>1
  <2>4. \A w \in Workflows : Due(w, s) => \E m \in M : m.workflow = w /\ m.seq = s
    BY RowOfType DEF Due
  <2> HIDE DEF M
  <2>5. ReplicaType' /\ pc'[r] = "commit" /\ matches'[r] = M /\ OthersStill(r)
    BY <1>1, <1>4, <2>2 DEF Inv, TypeOK, ReplicaType, OthersStill
  <2>6. matches' \in [Replicas -> SUBSET RunRows]
    BY <2>2, <2>3 DEF Inv, TypeOK
  <2>7. TypeOK'
    BY <1>1, <2>5, <2>6 DEF Inv, TypeOK, ReplicaType
  <2>8. RowKeys'
    BY <1>1, <2>1, <2>5 DEF Inv, RowKeys, OthersStill
  <2>9. Decided'
    BY <1>1, <1>3, <2>4, <2>5, DecidedStill
  <2>10. EnabledStarts'
    BY <1>1, StartsStill
  <2> QED  BY <1>1, <2>7, <2>8, <2>9, <2>10 DEF Inv, Undelivered, OneRunPerDelivery
<1> QED  BY <1>2, <1>3, <1>4 DEF AdmitReads, Admitted, Goto, RowOf

\* INSERT ... ON CONFLICT DO NOTHING: one row for a key.
LEMMA InsertKeeps ==
  ASSUME Inv, NEW r \in Replicas, Insert(r), UNCHANGED matches
  PROVE  /\ runs \subseteq runs' /\ RowType' /\ RowKeys' /\ OneRunPerDelivery'
         /\ \A w, s : (\E m \in matches[r] : m.workflow = w /\ m.seq = s) => Started(w, s)'
<1>1. runs' = runs \cup {m \in matches[r] : \A row \in runs : row.key # m.key}
  BY DEF Insert
<1>2. RowType'
  BY <1>1 DEF Inv, TypeOK, RowType
<1>3. RowKeys'
  BY <1>1 DEF Inv, RowKeys
<1>4. OneRunPerDelivery'
  <2> SUFFICES ASSUME NEW a \in runs', NEW b \in runs', a.workflow = b.workflow, a.seq = b.seq
               PROVE  a = b
    BY DEF OneRunPerDelivery
  <2>1. a.key = b.key
    BY <1>3 DEF RowKeys
  <2>2. CASE a \in runs /\ b \in runs
    BY <2>2 DEF Inv, OneRunPerDelivery
  <2>3. CASE a \notin runs /\ b \notin runs
    <3>1. a \in matches[r] /\ b \in matches[r]
      BY <1>1, <2>3
    <3> QED  BY <3>1 DEF Inv, RowKeys
  <2> QED  BY <1>1, <2>1, <2>2, <2>3
<1>5. ASSUME NEW w, NEW s, NEW m \in matches[r], m.workflow = w, m.seq = s  PROVE Started(w, s)'
  <2>1. CASE m \in runs'
    BY <1>5, <2>1 DEF Started
  <2>2. CASE m \notin runs'
    <3>1. PICK row \in runs : row.key = m.key
      BY <1>1, <2>2
    <3>2. row.key = <<row.workflow, row.seq>> /\ m.key = <<m.workflow, m.seq>>
      BY DEF Inv, RowKeys
    <3>3. <<row.workflow, row.seq>> = <<w, s>>
      BY <1>5, <3>1, <3>2
    <3> QED  BY <1>1, <3>3 DEF Started
  <2> QED  BY <2>1, <2>2
<1> QED  BY <1>1, <1>2, <1>3, <1>4, <1>5

\* The transaction commits, or it fails, or its answer is lost.
LEMMA AdmitEndsKeeps ==
  ASSUME Inv, NEW r \in Replicas, AdmitCommits(r) \/ AdmitFails(r)
  PROVE  Inv'
<1>1. /\ pc[r] = "commit" /\ UNCHANGED streamVars
      /\ UNCHANGED <<stream, message, delivered, trigger, since, verb, servings, batch, matches>>
  BY DEF AdmitCommits, AdmitFails, streamVars, verbVars
<1>2. \/ pc' = [pc EXCEPT ![r] = "ack"] /\ Insert(r)
      \/ pc' = [pc EXCEPT ![r] = "nack"] /\ (Insert(r) \/ runs' = runs)
  BY DEF AdmitCommits, AdmitFails, Goto
<1>3. ReplicaType' /\ OthersStill(r) /\ pc'[r] \in {"ack", "nack"}
  BY <1>1, <1>2 DEF Inv, TypeOK, ReplicaType, OthersStill
<1>4. CASE runs' = runs /\ pc'[r] = "nack"
  <2>1. matches' \in [Replicas -> SUBSET RunRows]
    BY <1>1 DEF Inv, TypeOK
  <2> QED  BY <1>1, <1>3, <1>4, <2>1, BrokerStill, ReplicaKeeps
<1>5. CASE Insert(r)
  <2>1. /\ runs \subseteq runs' /\ RowType' /\ RowKeys' /\ OneRunPerDelivery'
        /\ \A w, s : (\E m \in matches[r] : m.workflow = w /\ m.seq = s) => Started(w, s)'
    BY <1>1, <1>5, InsertKeeps
  <2>2. TypeOK'
    BY <1>1, <1>3, <2>1 DEF Inv, TypeOK, RowType, ReplicaType
  <2>3. Decided'
    <3>1. \A w \in Workflows : Due(w, Head(batch[r])) => Started(w, Head(batch[r]))'
      <4> SUFFICES ASSUME NEW w \in Workflows, Due(w, Head(batch[r]))
                   PROVE  Started(w, Head(batch[r]))'
        OBVIOUS
      <4>1. \E m \in matches[r] : m.workflow = w /\ m.seq = Head(batch[r])
        BY <1>1 DEF Inv, Decided
      <4>2. \E m \in runs' : m.workflow = w /\ m.seq = Head(batch[r])
        BY <2>1, <4>1 DEF Started
      <4> QED  BY <1>1, <4>2 DEF Started
    <3> QED  BY <1>1, <1>3, <2>1, <3>1, DecidedStill
  <2>4. EnabledStarts'
    BY <1>1, <2>1, StartsStill
  <2> QED  BY <1>1, <2>1, <2>2, <2>3, <2>4 DEF Inv, Undelivered
<1> QED  BY <1>1, <1>2, <1>4, <1>5 DEF Inv, TypeOK

-----------------------------------------------------------------------------
(* The theorems.                                                            *)

\* Nothing is published, and no run is there.
LEMMA InitEstablishes == Init => Inv
<1> SUFFICES ASSUME Init  PROVE Inv
  OBVIOUS
<1>1. Len(stream) = 0 /\ stream \in Seq(Kinds)
  BY DEF Init
<1>2. /\ Disabled \in [version : Versions \cup {0}, boundary : 0 .. MaxMessages]
      /\ Workflows # {} => [version |-> 1, boundary |-> 0]
                             \in [version : Versions \cup {0}, boundary : 0 .. MaxMessages]
  <2>1. Workflows # {} => 1 \in Versions
    BY EventAssumption DEF EventAssumption
  <2>2. 0 \in 0 .. MaxMessages
    BY EventAssumption DEF EventAssumption
  <2> QED  BY <2>1, <2>2 DEF Disabled
<1>3. VerbType
  <2>1. trigger \in Triggers
    BY <1>2 DEF Init, Triggers
  <2>2. since \in [Workflows -> 0 .. MaxMessages]
    BY EventAssumption DEF Init, EventAssumption
  <2> QED  BY <2>1, <2>2 DEF Init, VerbType
<1>4. StreamType
  BY <1>1, EventAssumption DEF Init, StreamType, EventAssumption
<1>5. ReplicaType /\ RowType
  <2>1. <<>> \in Seq(Sequences)
    OBVIOUS
  <2> QED  BY <2>1, NoServings DEF Init, ReplicaType, RowType
<1>6. TypeOK
  BY <1>3, <1>4, <1>5, TypeParts
<1>7. Undelivered
  BY <1>1, EventAssumption DEF Init, Undelivered, EventAssumption
<1>8. RowKeys /\ OneRunPerDelivery /\ Decided
  BY DEF Init, RowKeys, OneRunPerDelivery, Decided
<1>9. EnabledStarts
  BY <1>1 DEF EnabledStarts
<1> QED  BY <1>6, <1>7, <1>8, <1>9 DEF Inv

\* Every step of the broker, the verbs and the replicas keeps the invariant.
LEMMA NextKeeps == Inv /\ [Next]_vars => Inv'
<1> SUFFICES ASSUME Inv, [Next]_vars  PROVE Inv'
  OBVIOUS
<1>1. CASE \E k \in Kinds : Publish(k)
  BY <1>1, PublishKeeps
<1>2. CASE \E s \in Sequences : AckWaitPasses(s)
  BY <1>2, AckWaitKeeps
<1>3. CASE \/ EnableCommits \/ EnableFails
           \/ \E w \in Workflows : Disable(w) \/ \E v \in Versions : EnableReads(w, v)
  BY <1>3, VerbKeeps
<1>4. ASSUME NEW r \in Replicas,
             \/ Sweep(r) \/ Fetch(r) \/ FetchNothing(r) \/ Prepare(r) \/ Terminate(r)
             \/ AdmitReads(r) \/ AdmitCommits(r) \/ AdmitFails(r) \/ Acknowledge(r) \/ Nack(r)
             \/ Crash(r)
      PROVE  Inv'
  BY <1>4, MoveKeeps, FetchKeeps, LeaveKeeps, AdmitReadsKeeps, AdmitEndsKeeps
<1>5. CASE UNCHANGED vars
  <2>1. UNCHANGED <<streamVars, replicaVars, runs, trigger, since, verb, stream>>
    BY <1>5 DEF vars, verbVars, streamVars
  <2>2. VerbType'
    BY <2>1 DEF Inv, TypeOK, VerbType
  <2> QED  BY <2>1, <2>2, DueStill, TriggersChange
<1> QED  BY <1>1, <1>2, <1>3, <1>4, <1>5 DEF Next

\* The invariant holds in every state.
THEOREM EventInvariance == Spec => []Inv
<1>1. Init => Inv
  BY InitEstablishes
<1>2. Inv /\ [Next]_vars => Inv'
  BY NextKeeps
<1> QED  BY <1>1, <1>2, PTL DEF Spec

\* The stream, the rows and the replicas keep their types.
THEOREM TypeCorrect == Spec => []TypeOK
<1>1. Inv => TypeOK
  BY DEF Inv
<1> QED  BY <1>1, EventInvariance, PTL

\* One message starts a workflow at most once, whatever is redelivered, lost or
\* enabled in between (admit_event_batch).
THEOREM DeliveryStartsOnce == Spec => []OneRunPerDelivery
<1>1. Inv => OneRunPerDelivery
  BY DEF Inv
<1> QED  BY <1>1, EventInvariance, PTL

\* An acknowledged message has started every enabled workflow that matches it,
\* when it was published after the enable committed.
THEOREM AcknowledgedStarts == Spec => []EnabledStarts
<1>1. Inv => EnabledStarts
  BY DEF Inv
<1> QED  BY <1>1, EventInvariance, PTL

===============================================================================
