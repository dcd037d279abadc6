---------------------------- MODULE WriteLogProofs ----------------------------
(***************************************************************************)
(* Proofs about the write log for every set of concurrent calls, keys and  *)
(* inputs, and calls of any number of request elements.                    *)
(***************************************************************************)
EXTENDS WriteLogClients, TLAPS

-----------------------------------------------------------------------------
(* The inductive invariant.                                                 *)

\* A call has no more answers than elements, and an open one still has fewer.
CallShape ==
    \A r \in Requests :
        /\ Len(answers[r]) <= Len(elements[r])
        /\ phase[r] \in Steps => Len(answers[r]) < Len(elements[r])

\* What the row of a key says about the work that stands under it.
RowSound(k) ==
    /\ row[k].state = "none" => row[k] = NoRow /\ effects[k] = <<>>
    /\ row[k].state # "none" =>
          row[k].input \in Inputs /\ effects[k] \in {<<>>, <<row[k].input>>}
    /\ row[k].state = "finished" => effects[k] = <<row[k].input>>

\* An uncommitted claim is of a key without a row, and of the call at that key.
ClaimSound(k) ==
    /\ claim[k].by # NoRequest =>
          k \in Transacted /\ row[k] = NoRow /\ claim[k].input \in Inputs
    /\ \A r \in Requests : claim[k].by = r =>
          phase[r] \in {"run", "commit"} /\ Current(r) = [key |-> k, input |-> claim[k].input]

\* What the phase of a call says about the claim, the row and the work of the
\* element that it is at.
CallSound(r) ==
    /\ phase[r] = "commit" => HasSql(r)
    /\ phase[r] = "finish" => ~HasSql(r) /\ effects[Key(r)] = <<Current(r).input>>
    /\ phase[r] = "run" => effects[Key(r)] = <<>>
    /\ phase[r] \in Working /\ HasSql(r) => claim[Key(r)].by = r
    /\ phase[r] \in Working /\ ~HasSql(r) =>
          row[Key(r)] = [state |-> "begun", input |-> Current(r).input]

\* One call at a time works on a key.
Alone ==
    \A r, s \in Requests :
        phase[r] \in Working /\ phase[s] \in Working /\ Key(r) = Key(s) => r = s

\* What the invariant says of the tables and of the calls at work on them.
TablesSound ==
    /\ \A k \in Keys : RowSound(k) /\ ClaimSound(k)
    /\ \A r \in Requests : CallSound(r)
    /\ Alone

\* A row that is older than 30 days exists, and only an export without SQL can
\* leave work that no row names.
RetainedSound ==
    /\ \A k \in aged : row[k] # NoRow
    /\ \A k \in stray : k \notin Transacted

\* The type invariant in three parts: the tables, the calls and the retention.
TablesType ==
    /\ row \in [Keys -> [state : {"none", "begun", "finished"}, input : Inputs \cup {NoInput}]]
    /\ claim \in [Keys -> [by : Requests \cup {NoRequest, Limbo}, input : Inputs \cup {NoInput}]]
    /\ effects \in [Keys -> Seq(Inputs)]
RetainedType ==
    aged \subseteq Keys /\ expired \in [Keys -> SUBSET Inputs] /\ stray \subseteq Keys
CallsType ==
    /\ phase \in [Requests -> Phases]
    /\ elements \in [Requests -> Seq(Elements)]
    /\ answers \in [Requests -> Seq(Answers)]

\* What calls and tables say of each other, and the whole invariant.
CoreInv == TablesType /\ CallsType /\ CallShape /\ TablesSound /\ ValueIsTrue
LogInv  == CoreInv /\ RetainedType /\ RetainedSound

\* The finished rows and the work under them stand.
FinishedStand ==
    \A k \in Keys : row[k].state = "finished" => row'[k] = row[k] /\ effects'[k] = effects[k]

USE DEF Steps, Working, Phases, retained

-----------------------------------------------------------------------------
(* Calls: what a step does to the phases, the elements and the answers.     *)

\* The invariant says what the types are.
LEMMA TypeHalves ==
  /\ LogTypeOK <=> TablesType /\ CallsType /\ RetainedType
  /\ LogInv => TablesType /\ CallsType
  BY DEF LogTypeOK, TablesType, CallsType, RetainedType, LogInv, CoreInv

\* A call at a step has an element to work on.
LEMMA CurrentElement ==
  ASSUME CallsType, CallShape, NEW r \in Requests, phase[r] \in Steps
  PROVE  Current(r) \in Elements /\ Key(r) \in Keys /\ Current(r).input \in Inputs
<1>1. elements[r] \in Seq(Elements) /\ answers[r] \in Seq(Answers)
  BY DEF CallsType
<1>2. Len(answers[r]) + 1 \in 1..Len(elements[r])
  BY <1>1 DEF CallShape
<1>3. Current(r) \in Elements
  BY <1>1, <1>2 DEF Current
<1> QED  BY <1>3 DEF Key, Elements

\* A call that moves to another phase keeps its elements and answers.
LEMMA Moved ==
  ASSUME LogInv, NEW r \in Requests, NEW p \in Phases, Goto(r, p),
         p \in Steps => phase[r] \in Steps, UNCHANGED <<elements, answers, expired>>,
         FinishedStand
  PROVE  /\ CallsType' /\ CallShape' /\ ValueIsTrue' /\ phase'[r] = p
         /\ \A s \in Requests : Current(s)' = Current(s)
         /\ \A s \in Requests : s # r => phase'[s] = phase[s]
<1>1. CallsType
  BY TypeHalves DEF LogInv, CoreInv
<1>2. phase' = [phase EXCEPT ![r] = p]
  BY DEF Goto
<1>3. CallsType' /\ phase'[r] = p /\ \A s \in Requests : s # r => phase'[s] = phase[s]
  BY <1>1, <1>2 DEF CallsType
<1>4. CallShape'
  BY <1>3 DEF LogInv, CoreInv, CallShape
<1>5. \A s \in Requests : Current(s)' = Current(s)
  BY DEF Current
<1>6. ValueIsTrue'
  <2> SUFFICES ASSUME NEW s \in Requests, NEW i \in DOMAIN answers[s], answers[s][i] = "value"
               PROVE  \/ /\ row'[elements[s][i].key]
                               = [state |-> "finished", input |-> elements[s][i].input]
                         /\ effects'[elements[s][i].key] = <<elements[s][i].input>>
                      \/ elements[s][i].input \in expired[elements[s][i].key]
    BY DEF ValueIsTrue, Recorded
  <2>1. elements[s][i].key \in Keys
    <3>1. elements[s] \in Seq(Elements) /\ answers[s] \in Seq(Answers)
      BY <1>1 DEF CallsType
    <3>2. i \in 1..Len(elements[s])
      BY <3>1 DEF LogInv, CoreInv, CallShape
    <3>3. elements[s][i] \in Elements
      BY <3>1, <3>2
    <3> QED  BY <3>3 DEF Elements
  <2>2. \/ /\ row[elements[s][i].key] = [state |-> "finished", input |-> elements[s][i].input]
           /\ effects[elements[s][i].key] = <<elements[s][i].input>>
        \/ elements[s][i].input \in expired[elements[s][i].key]
    BY DEF LogInv, CoreInv, ValueIsTrue, Recorded
  <2> QED  BY <2>1, <2>2 DEF FinishedStand
<1> QED  BY <1>3, <1>4, <1>5, <1>6

\* A call that answers its element goes on to the next one or has ended, and a
\* value that it answers has to be the outcome of the element.
LEMMA Answered ==
  ASSUME LogInv, NEW r \in Requests, NEW a \in Answers, phase[r] \in Steps, Answer(r, a),
         FinishedStand, UNCHANGED expired,
         a = "value" => /\ row'[Key(r)] = [state |-> "finished", input |-> Current(r).input]
                        /\ effects'[Key(r)] = <<Current(r).input>>
  PROVE  /\ CallsType' /\ CallShape' /\ ValueIsTrue'
         /\ phase'[r] \in {"open", "answered"}
         /\ \A s \in Requests : s # r => phase'[s] = phase[s] /\ Current(s)' = Current(s)
<1> DEFINE n == Len(answers[r])
<1>1. CallsType /\ CallShape
  BY TypeHalves DEF LogInv, CoreInv
<1>2. /\ answers' = [answers EXCEPT ![r] = Append(answers[r], a)]
      /\ phase' = [phase EXCEPT ![r] = IF n + 1 = Len(elements[r]) THEN "answered" ELSE "open"]
      /\ elements' = elements
  BY DEF Answer, Goto
<1>3. answers[r] \in Seq(Answers) /\ elements[r] \in Seq(Elements) /\ n < Len(elements[r])
  BY <1>1 DEF CallsType, CallShape
<1>4. /\ Append(answers[r], a) \in Seq(Answers)
      /\ Len(Append(answers[r], a)) = n + 1
      /\ \A i \in 1..n : Append(answers[r], a)[i] = answers[r][i]
      /\ Append(answers[r], a)[n + 1] = a
  BY <1>3
<1>5. /\ answers'[r] = Append(answers[r], a)
      /\ phase'[r] = IF n + 1 = Len(elements[r]) THEN "answered" ELSE "open"
      /\ \A s \in Requests : s # r => phase'[s] = phase[s] /\ answers'[s] = answers[s]
  BY <1>1, <1>2 DEF CallsType
<1>6. CallsType'
  BY <1>1, <1>2, <1>4 DEF CallsType
<1>7. CallShape'
  <2> SUFFICES ASSUME NEW s \in Requests
               PROVE  /\ Len(answers'[s]) <= Len(elements[s])
                      /\ phase'[s] \in Steps => Len(answers'[s]) < Len(elements[s])
    BY <1>2 DEF CallShape
  <2>1. CASE s = r
    BY <2>1, <1>3, <1>4, <1>5
  <2>2. CASE s # r
    BY <2>2, <1>1, <1>5 DEF CallShape
  <2> QED  BY <2>1, <2>2
<1>8. \A s \in Requests : s # r => Current(s)' = Current(s)
  BY <1>2, <1>5 DEF Current
<1>9. ValueIsTrue'
  <2> SUFFICES ASSUME NEW s \in Requests, NEW i \in DOMAIN answers'[s], answers'[s][i] = "value"
               PROVE  \/ /\ row'[elements[s][i].key]
                               = [state |-> "finished", input |-> elements[s][i].input]
                         /\ effects'[elements[s][i].key] = <<elements[s][i].input>>
                      \/ elements[s][i].input \in expired[elements[s][i].key]
    BY <1>2 DEF ValueIsTrue, Recorded
  <2>1. CASE s = r /\ i = n + 1
    BY <2>1, <1>4, <1>5 DEF Key, Current
  <2>2. CASE ~(s = r /\ i = n + 1)
    <3>1. i \in DOMAIN answers[s] /\ answers[s][i] = "value" /\ i \in 1..Len(answers[s])
      <4>1. answers[s] \in Seq(Answers)
        BY <1>1 DEF CallsType
      <4>2. CASE s = r
        BY <2>2, <4>1, <4>2, <1>3, <1>4, <1>5
      <4>3. CASE s # r
        BY <4>1, <4>3, <1>5
      <4> QED  BY <4>2, <4>3
    <3>2. elements[s][i].key \in Keys
      <4>1. elements[s] \in Seq(Elements) /\ answers[s] \in Seq(Answers)
        BY <1>1 DEF CallsType
      <4>2. i \in 1..Len(elements[s])
        BY <1>1, <3>1, <4>1 DEF CallShape
      <4>3. elements[s][i] \in Elements
        BY <4>1, <4>2
      <4> QED  BY <4>3 DEF Elements
    <3>3. \/ /\ row[elements[s][i].key] = [state |-> "finished", input |-> elements[s][i].input]
             /\ effects[elements[s][i].key] = <<elements[s][i].input>>
          \/ elements[s][i].input \in expired[elements[s][i].key]
      BY <3>1 DEF LogInv, CoreInv, ValueIsTrue, Recorded
    <3> QED  BY <3>2, <3>3 DEF FinishedStand
  <2> QED  BY <2>1, <2>2
<1>10. phase'[r] \in {"open", "answered"}
  BY <1>5
<1> QED  BY <1>5, <1>6, <1>7, <1>8, <1>9, <1>10

-----------------------------------------------------------------------------
(* Tables: what a step may do to the rows, the claims and the work.         *)

\* Calls that work on no key come and go without the tables.
LEMMA TablesUntouched ==
  ASSUME TablesSound, UNCHANGED <<row, claim, effects>>,
         \A s \in Requests : phase'[s] \in Working \/ (\E k \in Keys : claim[k].by = s)
             => phase'[s] = phase[s] /\ Current(s)' = Current(s)
  PROVE  TablesSound'
<1>1. \A k \in Keys : RowSound(k)'
  BY DEF TablesSound, RowSound, NoRow
<1>2. \A k \in Keys : ClaimSound(k)'
  BY DEF TablesSound, ClaimSound, NoRow
<1>3. \A s \in Requests : CallSound(s)'
  BY DEF TablesSound, CallSound, Key, HasSql
<1>4. Alone'
  BY DEF TablesSound, Alone, Key
<1> QED  BY <1>1, <1>2, <1>3, <1>4 DEF TablesSound

\* A step that changes one key, and leaves no call at work on it.
LEMMA OneKeyChanges ==
  ASSUME TablesSound, NEW k \in Keys,
         \A j \in Keys : j # k => row'[j] = row[j] /\ claim'[j] = claim[j] /\ effects'[j] = effects[j],
         RowSound(k)', claim'[k].by \notin Requests,
         claim'[k].by # NoRequest => k \in Transacted /\ row'[k] = NoRow /\ claim'[k].input \in Inputs,
         \A s \in Requests : phase'[s] \in Working =>
             phase'[s] = phase[s] /\ Current(s)' = Current(s) /\ Key(s) # k /\ Key(s) \in Keys,
         \A s \in Requests : phase[s] \in Working /\ Key(s) # k =>
             phase'[s] = phase[s] /\ Current(s)' = Current(s)
  PROVE  TablesSound'
<1>1. \A j \in Keys : RowSound(j)'
  BY DEF TablesSound, RowSound, NoRow
<1>2. \A j \in Keys : ClaimSound(j)'
  <2> SUFFICES ASSUME NEW j \in Keys  PROVE ClaimSound(j)'
    OBVIOUS
  <2>1. CASE j = k
    BY <2>1 DEF ClaimSound, NoRow
  <2>2. CASE j # k
    <3>1. claim'[j] = claim[j] /\ row'[j] = row[j] /\ ClaimSound(j)
      BY <2>2 DEF TablesSound
    <3>2. ASSUME NEW s \in Requests, claim[j].by = s
          PROVE  phase'[s] = phase[s] /\ Current(s)' = Current(s)
      <4>1. phase[s] \in {"run", "commit"} /\ Current(s).key = j
        BY <3>1, <3>2 DEF ClaimSound
      <4> QED  BY <4>1, <2>2 DEF Key
    <3> QED  BY <3>1, <3>2 DEF ClaimSound, NoRow
  <2> QED  BY <2>1, <2>2
<1>3. \A s \in Requests : CallSound(s)'
  <2> SUFFICES ASSUME NEW s \in Requests, phase'[s] \in Working  PROVE CallSound(s)'
    BY DEF CallSound
  <2>1. /\ phase'[s] = phase[s] /\ Current(s)' = Current(s) /\ Key(s) # k /\ Key(s) \in Keys
        /\ CallSound(s)
    BY DEF TablesSound
  <2> QED  BY <2>1 DEF CallSound, Key, HasSql
<1>4. Alone'
  BY DEF TablesSound, Alone, Key
<1> QED  BY <1>1, <1>2, <1>3, <1>4 DEF TablesSound

\* The step changes at most key k, and leaves it without a call at work on it.
KeyFreed(k) ==
    /\ TablesType'
    /\ \A j \in Keys : j # k => row'[j] = row[j] /\ claim'[j] = claim[j] /\ effects'[j] = effects[j]
    /\ RowSound(k)'
    /\ claim'[k].by \notin Requests
    /\ claim'[k].by # NoRequest => k \in Transacted /\ row'[k] = NoRow /\ claim'[k].input \in Inputs
    /\ FinishedStand

\* What holds of a call at work: its key, and what the tables say of it.
LEMMA AtWork ==
  ASSUME LogInv, NEW r \in Requests, phase[r] \in Working, NEW k, k = Key(r)
  PROVE  /\ k \in Keys /\ Current(r) = [key |-> k, input |-> Current(r).input]
         /\ Current(r).input \in Inputs /\ RowSound(k) /\ ClaimSound(k) /\ CallSound(r)
         /\ HasSql(r) => row[k] = NoRow /\ effects[k] = <<>> /\ claim[k].by = r
                         /\ claim[k].input = Current(r).input
         /\ ~HasSql(r) => /\ row[k] = [state |-> "begun", input |-> Current(r).input]
                          /\ row[k].state = "begun" /\ claim[k].by = NoRequest
<1>1. CallsType /\ CallShape /\ TablesSound
  BY TypeHalves DEF LogInv, CoreInv
<1>2. Current(r) \in Elements /\ k \in Keys /\ Current(r).input \in Inputs
  BY <1>1, CurrentElement
<1>3. Current(r) = [key |-> k, input |-> Current(r).input]
  BY <1>2 DEF Elements, Key
<1>4. RowSound(k) /\ ClaimSound(k) /\ CallSound(r)
  BY <1>1, <1>2 DEF TablesSound
<1>5. HasSql(r) => claim[k].by = r
  BY <1>4 DEF CallSound
<1>6. HasSql(r) => row[k] = NoRow /\ claim[k].input = Current(r).input
  BY <1>2, <1>4, <1>5, WriteLogAssumption DEF ClaimSound, WriteLogAssumption
<1>7. HasSql(r) => effects[k] = <<>>
  BY <1>4, <1>6 DEF RowSound, NoRow
<1>8. ~HasSql(r) => row[k] = [state |-> "begun", input |-> Current(r).input]
  BY <1>4 DEF CallSound
<1>9. ~HasSql(r) => row[k].state = "begun"
  BY <1>8
<1>10. ~HasSql(r) => claim[k].by = NoRequest
  BY <1>4 DEF ClaimSound, HasSql
<1> QED  BY <1>2, <1>3, <1>4, <1>5, <1>6, <1>7, <1>8, <1>9, <1>10

\* A call leaves the key that it worked on.
LEMMA CallLeaves ==
  ASSUME LogInv, NEW r \in Requests, phase[r] \in Working, phase'[r] \notin Working,
         \A s \in Requests : s # r => phase'[s] = phase[s] /\ Current(s)' = Current(s),
         NEW k, k = Key(r), KeyFreed(k)
  PROVE  TablesSound'
<1>1. k \in Keys /\ TablesSound /\ Alone
  BY AtWork DEF LogInv, CoreInv, TablesSound
<1>2. \A s \in Requests : phase'[s] \in Working =>
        phase'[s] = phase[s] /\ Current(s)' = Current(s) /\ Key(s) # k /\ Key(s) \in Keys
  <2> SUFFICES ASSUME NEW s \in Requests, phase'[s] \in Working
               PROVE  phase'[s] = phase[s] /\ Current(s)' = Current(s) /\ Key(s) # k /\ Key(s) \in Keys
    OBVIOUS
  <2>1. s # r /\ phase'[s] = phase[s] /\ Current(s)' = Current(s)
    OBVIOUS
  <2>2. Key(s) \in Keys
    BY <2>1, AtWork
  <2>3. Key(s) # k
    BY <1>1, <2>1 DEF Alone
  <2> QED  BY <2>1, <2>2, <2>3
<1>3. \A s \in Requests : phase[s] \in Working /\ Key(s) # k =>
        phase'[s] = phase[s] /\ Current(s)' = Current(s)
  OBVIOUS
<1> QED  BY <1>1, <1>2, <1>3, OneKeyChanges DEF KeyFreed

\* It leaves with an answer.
LEMMA AnswerLeaves ==
  ASSUME LogInv, NEW r \in Requests, phase[r] \in Working, NEW a \in Answers, Answer(r, a),
         NEW k, k = Key(r), KeyFreed(k), UNCHANGED expired,
         a = "value" => /\ row'[k] = [state |-> "finished", input |-> Current(r).input]
                        /\ effects'[k] = <<Current(r).input>>
  PROVE  CoreInv'
<1>1. FinishedStand /\ TablesType'
  BY DEF KeyFreed
<1>2. /\ CallsType' /\ CallShape' /\ ValueIsTrue'
      /\ phase'[r] \in {"open", "answered"}
      /\ \A s \in Requests : s # r => phase'[s] = phase[s] /\ Current(s)' = Current(s)
  BY <1>1, Answered
<1>3. TablesSound'
  BY <1>2, CallLeaves
<1> QED  BY <1>1, <1>2, <1>3 DEF CoreInv

\* It leaves without one.
LEMMA MoveLeaves ==
  ASSUME LogInv, NEW r \in Requests, phase[r] \in Working, NEW p \in {"refused", "failed"},
         Goto(r, p), UNCHANGED <<elements, answers, expired>>, NEW k, k = Key(r), KeyFreed(k)
  PROVE  CoreInv'
<1>1. FinishedStand /\ TablesType' /\ p \in Phases /\ p \notin Steps
  BY DEF KeyFreed
<1>2. /\ CallsType' /\ CallShape' /\ ValueIsTrue' /\ phase'[r] = p
      /\ \A s \in Requests : s # r => phase'[s] = phase[s]
      /\ \A s \in Requests : Current(s)' = Current(s)
  BY <1>1, Moved
<1>3. TablesSound'
  BY <1>1, <1>2, CallLeaves
<1> QED  BY <1>1, <1>2, <1>3 DEF CoreInv

\* A call outside its work has no claim, so its own moves leave the tables sound.
LEMMA IdleMoves ==
  ASSUME LogInv, NEW r \in Requests, phase[r] \notin Working, phase'[r] \notin Working,
         \A s \in Requests : s # r => phase'[s] = phase[s] /\ Current(s)' = Current(s),
         UNCHANGED <<row, claim, effects>>
  PROVE  TablesSound' /\ TablesType'
<1>1. TablesSound /\ TablesType
  BY TypeHalves DEF LogInv, CoreInv
<1>2. ASSUME NEW s \in Requests, phase'[s] \in Working \/ \E k \in Keys : claim[k].by = s
      PROVE  phase'[s] = phase[s] /\ Current(s)' = Current(s)
  <2>1. s # r
    BY <1>1, <1>2 DEF TablesSound, ClaimSound
  <2> QED  BY <2>1
<1>3. TablesSound'
  BY <1>1, <1>2, TablesUntouched
<1> QED  BY <1>1, <1>3 DEF TablesType

-----------------------------------------------------------------------------
(* One lemma per action.                                                    *)

\* Nothing is stored, claimed or sent.
LEMMA InitEstablishes == LogInit => LogInv
<1> SUFFICES ASSUME LogInit PROVE LogInv
  OBVIOUS
<1>1. LogTypeOK
  BY DEF LogInit, LogTypeOK, NoRow, Open
<1>2. CallShape /\ ValueIsTrue
  BY DEF LogInit, CallShape, ValueIsTrue
<1>3. TablesSound
  BY WriteLogAssumption
  DEF LogInit, TablesSound, RowSound, ClaimSound, CallSound, Alone, NoRow, Open, WriteLogAssumption
<1>4. RetainedSound
  BY DEF LogInit, RetainedSound
<1> QED  BY <1>1, <1>2, <1>3, <1>4, TypeHalves DEF LogInv, CoreInv

\* A new call has its elements and no answers.
LEMMA SubmitKeeps ==
  ASSUME LogInv, NEW r \in Requests, NEW es \in Calls, Submit(r, es)
  PROVE  CoreInv'
<1>1. CallsType /\ CallShape
  BY TypeHalves DEF LogInv, CoreInv
<1>2. es \in Seq(Elements) /\ Len(es) > 0
  BY CallsAssumption DEF CallsAssumption
<1>3. /\ \A s \in Requests : s # r => /\ phase'[s] = phase[s]
                                      /\ elements'[s] = elements[s] /\ answers'[s] = answers[s]
      /\ phase'[r] \in {"open", "refused"} /\ elements'[r] = es /\ answers'[r] = <<>>
      /\ phase[r] = "free" /\ UNCHANGED <<row, claim, effects, expired>>
  BY <1>1 DEF Submit, Goto, CallsType
<1>4. CallsType'
  BY <1>1, <1>2 DEF Submit, Goto, CallsType
<1>5. CallShape'
  BY <1>1, <1>2, <1>3 DEF CallShape
<1>6. \A s \in Requests : s # r => Current(s)' = Current(s)
  BY <1>3 DEF Current
<1>7. TablesSound' /\ TablesType'
  BY <1>3, <1>6, IdleMoves
<1>8. ValueIsTrue'
  BY <1>3 DEF LogInv, CoreInv, ValueIsTrue, Recorded
<1> QED  BY <1>4, <1>5, <1>7, <1>8 DEF CoreInv

\* A call that ended leaves nothing but what the tables hold.
LEMMA CollectKeeps ==
  ASSUME LogInv, NEW r \in Requests, Collect(r)
  PROVE  CoreInv'
<1>1. CallsType /\ CallShape
  BY TypeHalves DEF LogInv, CoreInv
<1>2. /\ \A s \in Requests : s # r => /\ phase'[s] = phase[s]
                                      /\ elements'[s] = elements[s] /\ answers'[s] = answers[s]
      /\ phase'[r] = "free" /\ elements'[r] = <<>> /\ answers'[r] = <<>>
      /\ phase[r] \notin Working /\ UNCHANGED <<row, claim, effects, expired>>
  BY <1>1 DEF Collect, Goto, CallsType
<1>3. CallsType'
  BY <1>1 DEF Collect, Goto, CallsType
<1>4. CallShape'
  BY <1>1, <1>2 DEF CallShape
<1>5. \A s \in Requests : s # r => Current(s)' = Current(s)
  BY <1>2 DEF Current
<1>6. TablesSound' /\ TablesType'
  BY <1>2, <1>5, IdleMoves
<1>7. ValueIsTrue'
  <2> SUFFICES ASSUME NEW s \in Requests, NEW i \in DOMAIN answers'[s], answers'[s][i] = "value"
               PROVE  \/ /\ row[elements'[s][i].key]
                               = [state |-> "finished", input |-> elements'[s][i].input]
                         /\ effects[elements'[s][i].key] = <<elements'[s][i].input>>
                      \/ elements'[s][i].input \in expired[elements'[s][i].key]
    BY <1>2 DEF ValueIsTrue, Recorded
  <2>1. s # r
    BY <1>2
  <2>2. /\ elements'[s] = elements[s] /\ answers'[s] = answers[s]
        /\ i \in DOMAIN answers[s] /\ answers[s][i] = "value"
    BY <1>2, <2>1
  <2>3. \/ /\ row[elements[s][i].key] = [state |-> "finished", input |-> elements[s][i].input]
           /\ effects[elements[s][i].key] = <<elements[s][i].input>>
        \/ elements[s][i].input \in expired[elements[s][i].key]
    BY <2>2 DEF LogInv, CoreInv, ValueIsTrue, Recorded
  <2> QED  BY <2>2, <2>3
<1> QED  BY <1>3, <1>4, <1>6, <1>7 DEF CoreInv

\* A repeat answers what the row says; a value only for the same input.
LEMMA ReadClaimKeeps ==
  ASSUME LogInv, NEW r \in Requests, ReadClaim(r)
  PROVE  CoreInv'
<1>1. /\ phase[r] = "read" /\ UNCHANGED <<row, claim, effects, expired>> /\ FinishedStand
      /\ CallsType /\ CallShape /\ TablesType
  BY TypeHalves DEF ReadClaim, LogInv, CoreInv, FinishedStand
<1>2. CASE row[Key(r)] = NoRow
  <2>1. Goto(r, "failed") /\ UNCHANGED <<elements, answers>>
    BY <1>2 DEF ReadClaim
  <2>2. /\ CallsType' /\ CallShape' /\ ValueIsTrue' /\ phase'[r] = "failed"
        /\ \A s \in Requests : s # r => phase'[s] = phase[s]
        /\ \A s \in Requests : Current(s)' = Current(s)
    BY <1>1, <2>1, Moved
  <2>3. TablesSound' /\ TablesType'
    BY <1>1, <2>2, IdleMoves
  <2> QED  BY <2>2, <2>3 DEF CoreInv
<1>3. CASE row[Key(r)] # NoRow
  <2>1. PICK a \in Answers : /\ Answer(r, a)
                             /\ a = "value" => /\ row[Key(r)].input = Current(r).input
                                               /\ row[Key(r)].state = "finished"
    <3> DEFINE out == IF row[Key(r)].input # Current(r).input THEN "conflict"
                      ELSE IF row[Key(r)].state = "finished" THEN "value" ELSE "uncertain"
    <3>1. Answer(r, out)
      BY <1>3 DEF ReadClaim
    <3>2. out \in Answers
      BY DEF Answers
    <3>3. out = "value" => row[Key(r)].input = Current(r).input /\ row[Key(r)].state = "finished"
      OBVIOUS
    <3> HIDE DEF out
    <3> QED  BY <3>1, <3>2, <3>3
  <2>2. Key(r) \in Keys /\ Current(r).input \in Inputs
    BY <1>1, CurrentElement
  <2>3. a = "value" => /\ row'[Key(r)] = [state |-> "finished", input |-> Current(r).input]
                       /\ effects'[Key(r)] = <<Current(r).input>>
    <3>1. RowSound(Key(r))
      BY <2>2 DEF LogInv, CoreInv, TablesSound
    <3>2. row[Key(r)] \in [state : {"none", "begun", "finished"}, input : Inputs \cup {NoInput}]
      BY <1>1, <2>2 DEF TablesType
    <3> QED  BY <1>1, <2>1, <3>1, <3>2 DEF RowSound
  <2>4. /\ CallsType' /\ CallShape' /\ ValueIsTrue'
        /\ phase'[r] \in {"open", "answered"}
        /\ \A s \in Requests : s # r => phase'[s] = phase[s] /\ Current(s)' = Current(s)
    BY <1>1, <2>1, <2>3, Answered
  <2>5. TablesSound' /\ TablesType'
    BY <1>1, <2>4, IdleMoves
  <2> QED  BY <2>4, <2>5 DEF CoreInv
<1> QED  BY <1>2, <1>3

\* The claim of a key waits for nobody, and the key is new.
LEMMA ClaimKeyKeeps ==
  ASSUME LogInv, NEW r \in Requests, ClaimKey(r)
  PROVE  CoreInv'
<1>1. /\ phase[r] = "open" /\ UNCHANGED <<effects, expired, elements, answers>>
      /\ CallsType /\ CallShape /\ TablesType /\ TablesSound
  BY TypeHalves DEF ClaimKey, LogInv, CoreInv
<1>2. PICK k \in Keys : k = Key(r)
  BY <1>1, CurrentElement
<1>3. /\ Current(r).input \in Inputs /\ RowSound(k) /\ ClaimSound(k) /\ claim[k].by = NoRequest
      /\ Current(r) = [key |-> k, input |-> Current(r).input]
  BY <1>1, <1>2, CurrentElement DEF TablesSound, ClaimKey, Elements, Key
<1>4. CASE row[k] # NoRow
  <2>1. Goto(r, "read") /\ UNCHANGED <<row, claim>> /\ FinishedStand
    BY <1>1, <1>2, <1>4 DEF ClaimKey, FinishedStand
  <2>2. /\ CallsType' /\ CallShape' /\ ValueIsTrue' /\ phase'[r] = "read"
        /\ \A s \in Requests : s # r => phase'[s] = phase[s]
        /\ \A s \in Requests : Current(s)' = Current(s)
    BY <1>1, <2>1, Moved
  <2>3. TablesSound' /\ TablesType'
    BY <1>1, <2>1, <2>2, IdleMoves
  <2> QED  BY <2>2, <2>3 DEF CoreInv
<1>5. CASE row[k] = NoRow
  <2>1. Goto(r, "run")
    BY <1>2, <1>5 DEF ClaimKey
  <2>2. effects[k] = <<>>
    BY <1>3, <1>5 DEF RowSound, NoRow
  <2>3. \A s \in Requests : s # r /\ phase[s] \in Working => Key(s) # k /\ Key(s) \in Keys
    <3> SUFFICES ASSUME NEW s \in Requests, phase[s] \in Working, Key(s) = k  PROVE FALSE
      BY AtWork
    <3>1. HasSql(s) => claim[k].by = s
      BY AtWork
    <3>2. ~HasSql(s) => row[k] = [state |-> "begun", input |-> Current(s).input]
      BY AtWork
    <3> QED  BY <1>3, <1>5, <3>1, <3>2, WriteLogAssumption DEF WriteLogAssumption, NoRow
  <2>4. CASE HasSql(r)
    <3>1. /\ claim' = [claim EXCEPT ![k] = [by |-> r, input |-> Current(r).input]]
          /\ row' = row /\ FinishedStand
      BY <1>1, <1>2, <1>5, <2>4 DEF ClaimKey, FinishedStand
    <3>2. /\ CallsType' /\ CallShape' /\ ValueIsTrue' /\ phase'[r] = "run"
          /\ \A s \in Requests : s # r => phase'[s] = phase[s]
          /\ \A s \in Requests : Current(s)' = Current(s)
      BY <1>1, <2>1, <3>1, Moved
    <3>3. TablesType'
      BY <1>1, <1>3, <3>1 DEF TablesType
    <3>4. \A j \in Keys : RowSound(j)'
      BY <1>1, <3>1 DEF TablesSound, RowSound, NoRow
    <3>5. ASSUME NEW j \in Keys  PROVE ClaimSound(j)'
      <4>1. CASE j = k
        <5>1. claim'[k].by = r /\ claim'[k].input = Current(r).input
          BY <1>1, <3>1 DEF TablesType
        <5>2. k \in Transacted
          BY <1>2, <2>4 DEF HasSql
        <5> QED  BY <1>1, <1>3, <1>5, <3>1, <3>2, <4>1, <5>1, <5>2 DEF ClaimSound, NoRow
      <4>2. CASE j # k
        <5>1. claim'[j] = claim[j] /\ row'[j] = row[j] /\ ClaimSound(j)
          BY <1>1, <3>1, <4>2 DEF TablesType, TablesSound
        <5>2. claim[j].by # r
          BY <1>1, <5>1 DEF ClaimSound
        <5> QED  BY <3>2, <5>1, <5>2 DEF ClaimSound, NoRow
      <4> QED  BY <4>1, <4>2
    <3>6. ASSUME NEW s \in Requests  PROVE CallSound(s)'
      <4>1. CASE s = r
        <5>1. claim'[k].by = r
          BY <1>1, <3>1 DEF TablesType
        <5> QED  BY <1>1, <1>2, <2>2, <2>4, <3>2, <4>1, <5>1 DEF CallSound, Key, HasSql
      <4>2. CASE s # r
        <5>1. CallSound(s) /\ phase'[s] = phase[s] /\ Current(s)' = Current(s)
          BY <1>1, <3>2, <4>2 DEF TablesSound
        <5>2. phase[s] \in Working => claim'[Key(s)] = claim[Key(s)]
          BY <1>1, <2>3, <3>1, <4>2 DEF TablesType
        <5> QED  BY <1>1, <3>1, <5>1, <5>2 DEF CallSound, Key, HasSql
      <4> QED  BY <4>1, <4>2
    <3>7. Alone'
      BY <1>1, <1>2, <2>3, <3>2 DEF TablesSound, Alone, Key
    <3> QED  BY <3>2, <3>3, <3>4, <3>5, <3>6, <3>7
             DEF CoreInv, TablesSound
  <2>5. CASE ~HasSql(r)
    <3>1. /\ row' = [row EXCEPT ![k] = [state |-> "begun", input |-> Current(r).input]]
          /\ claim' = claim
      BY <1>2, <1>5, <2>5 DEF ClaimKey, Store
    <3>2. /\ row'[k] = [state |-> "begun", input |-> Current(r).input]
          /\ \A j \in Keys : j # k => row'[j] = row[j]
      BY <1>1, <3>1 DEF TablesType
    <3>3. FinishedStand
      BY <1>1, <1>5, <3>2 DEF FinishedStand, NoRow
    <3>4. /\ CallsType' /\ CallShape' /\ ValueIsTrue' /\ phase'[r] = "run"
          /\ \A s \in Requests : s # r => phase'[s] = phase[s]
          /\ \A s \in Requests : Current(s)' = Current(s)
      BY <1>1, <2>1, <3>3, Moved
    <3>5. TablesType'
      BY <1>1, <1>3, <3>1 DEF TablesType
    <3>6. \A j \in Keys : RowSound(j)'
      BY <1>1, <1>3, <2>2, <3>2 DEF TablesSound, RowSound, NoRow
    <3>7. ASSUME NEW j \in Keys  PROVE ClaimSound(j)'
      <4>1. ClaimSound(j) /\ \A s \in Requests : claim[j].by = s => s # r
        BY <1>1 DEF TablesSound, ClaimSound
      <4> QED  BY <1>3, <3>1, <3>2, <3>4, <4>1, WriteLogAssumption
               DEF ClaimSound, NoRow, WriteLogAssumption
    <3>8. ASSUME NEW s \in Requests  PROVE CallSound(s)'
      <4>1. CASE s = r
        BY <1>1, <1>2, <2>2, <2>5, <3>2, <3>4, <4>1 DEF CallSound, Key, HasSql
      <4>2. CASE s # r
        <5>1. CallSound(s) /\ phase'[s] = phase[s] /\ Current(s)' = Current(s)
          BY <1>1, <3>4, <4>2 DEF TablesSound
        <5>2. phase[s] \in Working => row'[Key(s)] = row[Key(s)]
          BY <2>3, <3>2, <4>2
        <5> QED  BY <1>1, <3>1, <5>1, <5>2 DEF CallSound, Key, HasSql
      <4> QED  BY <4>1, <4>2
    <3>9. Alone'
      BY <1>1, <1>2, <2>3, <3>4 DEF TablesSound, Alone, Key
    <3> QED  BY <3>4, <3>5, <3>6, <3>7, <3>8, <3>9
             DEF CoreInv, TablesSound
  <2> QED  BY <2>4, <2>5
<1> QED  BY <1>4, <1>5

\* The element has its value: with SQL it goes on to its COMMIT, without SQL
\* its work stands under the begun row.
LEMMA RunValueKeeps ==
  ASSUME LogInv, NEW r \in Requests, RunValue(r)
  PROVE  CoreInv'
<1>1. /\ phase[r] = "run" /\ UNCHANGED <<row, claim, expired, elements, answers>>
      /\ TablesType /\ TablesSound
  BY TypeHalves DEF RunValue, LogInv, CoreInv
<1>2. PICK k \in Keys : k = Key(r)
  BY <1>1, AtWork
<1>3. /\ Current(r).input \in Inputs /\ CallSound(r) /\ RowSound(k) /\ effects[k] = <<>>
      /\ ~HasSql(r) => row[k] = [state |-> "begun", input |-> Current(r).input]
  BY <1>1, <1>2, AtWork DEF CallSound
<1>4. PICK p \in {"commit", "finish"} : Goto(r, p) /\ (p = "commit" <=> HasSql(r))
  BY DEF RunValue
<1>5. /\ HasSql(r) => effects' = effects
      /\ ~HasSql(r) => effects' = [effects EXCEPT ![k] = Append(effects[k], Current(r).input)]
  BY <1>2 DEF RunValue, Work
<1>6. /\ \A j \in Keys : j # k => effects'[j] = effects[j]
      /\ HasSql(r) => effects'[k] = <<>>
      /\ ~HasSql(r) => effects'[k] = <<Current(r).input>>
      /\ TablesType'
  <2>1. Append(effects[k], Current(r).input) = <<Current(r).input>>
    BY <1>3
  <2>2. <<Current(r).input>> \in Seq(Inputs)
    BY <1>3
  <2>3. CASE HasSql(r)
    BY <1>1, <1>3, <1>5, <2>3 DEF TablesType
  <2>4. CASE ~HasSql(r)
    <3>1. effects' = [effects EXCEPT ![k] = <<Current(r).input>>]
      BY <1>5, <2>1, <2>4
    <3> QED  BY <1>1, <2>2, <2>4, <3>1 DEF TablesType
  <2> QED  BY <2>3, <2>4
<1>7. FinishedStand
  <2>1. row[k].state # "finished"
    BY <1>3, <1>1 DEF RowSound
  <2> QED  BY <1>1, <1>6, <2>1 DEF FinishedStand
<1>8. /\ CallsType' /\ CallShape' /\ ValueIsTrue' /\ phase'[r] = p
      /\ \A s \in Requests : s # r => phase'[s] = phase[s]
      /\ \A s \in Requests : Current(s)' = Current(s)
  BY <1>1, <1>4, <1>7, Moved
<1>9. ASSUME NEW j \in Keys  PROVE RowSound(j)'
  <2>1. RowSound(j)
    BY <1>1 DEF TablesSound
  <2>2. CASE j # k \/ HasSql(r)
    <3>1. effects'[j] = effects[j] /\ row'[j] = row[j]
      BY <1>1, <1>3, <1>6, <2>2
    <3> QED  BY <2>1, <3>1 DEF RowSound, NoRow
  <2>3. CASE j = k /\ ~HasSql(r)
    <3>1. row'[j] = [state |-> "begun", input |-> Current(r).input]
      BY <1>1, <1>3, <2>3
    <3>2. /\ row'[j].state = "begun" /\ row'[j].input = Current(r).input
          /\ effects'[j] = <<Current(r).input>>
      BY <1>6, <2>3, <3>1
    <3> QED  BY <1>3, <3>2 DEF RowSound, NoRow
  <2> QED  BY <2>2, <2>3
<1>10. ASSUME NEW j \in Keys  PROVE ClaimSound(j)'
  <2>1. ClaimSound(j)
    BY <1>1 DEF TablesSound
  <2>2. claim[j].by = r => p = "commit"
    BY <1>4, <2>1, WriteLogAssumption DEF ClaimSound, HasSql, Key, WriteLogAssumption
  <2> QED  BY <1>1, <1>8, <2>1, <2>2 DEF ClaimSound, NoRow
<1>11. ASSUME NEW s \in Requests  PROVE CallSound(s)'
  <2>1. CallSound(s) /\ Current(s)' = Current(s)
    BY <1>1, <1>8 DEF TablesSound
  <2>2. CASE s = r
    BY <1>1, <1>2, <1>4, <1>6, <1>8, <2>1, <2>2 DEF CallSound, Key, HasSql
  <2>3. CASE s # r
    <3>1. phase'[s] = phase[s]
      BY <1>8, <2>3
    <3>2. phase[s] \in Working => effects'[Key(s)] = effects[Key(s)]
      <4> SUFFICES ASSUME phase[s] \in Working  PROVE effects'[Key(s)] = effects[Key(s)]
        OBVIOUS
      <4>1. Key(s) \in Keys
        BY AtWork
      <4>2. Key(s) # k
        BY <1>1, <1>2, <2>3 DEF TablesSound, Alone
      <4> QED  BY <1>6, <4>1, <4>2
    <3> QED  BY <1>1, <2>1, <3>1, <3>2 DEF CallSound, Key, HasSql
  <2> QED  BY <2>2, <2>3
<1>12. Alone'
  BY <1>1, <1>8 DEF TablesSound, Alone, Key
<1> QED  BY <1>6, <1>8, <1>9, <1>10, <1>11, <1>12
         DEF CoreInv, TablesSound

\* The release of a key that did no work leaves it new.
LEMMA ReleaseFrees ==
  ASSUME LogInv, NEW r \in Requests, phase[r] = "run", Release(r), NEW k, k = Key(r)
  PROVE  KeyFreed(k) /\ UNCHANGED expired
<1>1. /\ TablesType /\ k \in Keys /\ RowSound(k) /\ effects[k] = <<>>
      /\ UNCHANGED <<effects, expired>>
  BY AtWork, TypeHalves DEF LogInv, CoreInv, CallSound, Release
<1>2. CASE HasSql(r)
  <2>1. claim' = [claim EXCEPT ![k] = Open] /\ row' = row
    BY <1>2 DEF Release, Unclaim
  <2> QED  BY <1>1, <2>1, WriteLogAssumption
           DEF KeyFreed, TablesType, RowSound, FinishedStand, Open, NoRow, WriteLogAssumption
<1>3. CASE ~HasSql(r)
  <2>1. row' = [row EXCEPT ![k] = NoRow] /\ claim' = claim
    BY <1>3 DEF Release
  <2>2. row[k].state = "begun" /\ claim[k].by = NoRequest
    BY <1>3, AtWork
  <2> QED  BY <1>1, <2>1, <2>2, WriteLogAssumption
           DEF KeyFreed, TablesType, RowSound, FinishedStand, NoRow, WriteLogAssumption
<1> QED  BY <1>2, <1>3

\* A refused element frees its key and is answered.
LEMMA RunRefusedKeeps ==
  ASSUME LogInv, NEW r \in Requests, RunRefused(r)
  PROVE  CoreInv'
<1>1. phase[r] = "run" /\ Release(r) /\ Answer(r, "error")
  BY DEF RunRefused
<1>2. PICK k : k = Key(r)
  OBVIOUS
<1>3. KeyFreed(k) /\ UNCHANGED expired
  BY <1>1, <1>2, ReleaseFrees
<1> QED  BY <1>1, <1>2, <1>3, AnswerLeaves DEF Answers

\* A failed element frees its key; the only element of a call fails the call.
LEMMA RunFailedKeeps ==
  ASSUME LogInv, NEW r \in Requests, RunFailed(r)
  PROVE  CoreInv'
<1>1. phase[r] = "run" /\ Release(r)
  BY DEF RunFailed
<1>2. PICK k : k = Key(r)
  OBVIOUS
<1>3. KeyFreed(k) /\ UNCHANGED expired
  BY <1>1, <1>2, ReleaseFrees
<1>4. CASE Answer(r, "error")
  BY <1>1, <1>2, <1>3, <1>4, AnswerLeaves DEF Answers
<1>5. CASE (Goto(r, "refused") \/ Goto(r, "failed")) /\ UNCHANGED <<elements, answers>>
  BY <1>1, <1>2, <1>3, <1>5, MoveLeaves
<1> QED  BY <1>4, <1>5 DEF RunFailed

\* Without SQL the intent stays begun, with its work or without.
LEMMA BegunFrees ==
  ASSUME LogInv, NEW r \in Requests, phase[r] = "run", ~HasSql(r), UNCHANGED <<row, claim>>,
         Work(r) \/ UNCHANGED effects, NEW k, k = Key(r)
  PROVE  KeyFreed(k)
<1>1. /\ TablesType /\ k \in Keys /\ RowSound(k) /\ effects[k] = <<>>
      /\ row[k] = [state |-> "begun", input |-> Current(r).input] /\ claim[k].by = NoRequest
      /\ Current(r).input \in Inputs
  BY AtWork, TypeHalves DEF LogInv, CoreInv, CallSound
<1>2. PICK w \in {<<>>, <<Current(r).input>>} : effects' = [effects EXCEPT ![k] = w]
  <2>1. CASE Work(r)
    <3>1. Append(effects[k], Current(r).input) = <<Current(r).input>>
      BY <1>1
    <3> QED  BY <2>1, <3>1 DEF Work
  <2>2. CASE UNCHANGED effects
    BY <1>1, <2>2 DEF TablesType
  <2> QED  BY <2>1, <2>2
<1>3. w \in Seq(Inputs)
  <2>1. <<>> \in Seq(Inputs) /\ <<Current(r).input>> \in Seq(Inputs)
    BY <1>1
  <2> QED  BY <1>2, <2>1
<1> QED  BY <1>1, <1>2, <1>3, WriteLogAssumption
         DEF KeyFreed, TablesType, RowSound, FinishedStand, NoRow, WriteLogAssumption

\* A silent element frees its key with SQL, and leaves it begun without.
LEMMA RunSilentKeeps ==
  ASSUME LogInv, NEW r \in Requests, RunSilent(r)
  PROVE  CoreInv'
<1>1. phase[r] = "run"
  BY DEF RunSilent
<1>2. PICK k : k = Key(r)
  OBVIOUS
<1>3. CASE HasSql(r)
  <2>1. Release(r) /\ Answer(r, "error")
    BY <1>3 DEF RunSilent
  <2>2. KeyFreed(k) /\ UNCHANGED expired
    BY <1>1, <1>2, <2>1, ReleaseFrees
  <2> QED  BY <1>1, <1>2, <2>1, <2>2, AnswerLeaves DEF Answers
<1>4. CASE ~HasSql(r)
  <2>1. /\ Answer(r, "uncertain") /\ (Work(r) \/ UNCHANGED effects)
        /\ UNCHANGED <<row, claim, expired>>
    BY <1>4 DEF RunSilent
  <2>2. KeyFreed(k)
    BY <1>1, <1>2, <1>4, <2>1, BegunFrees
  <2> QED  BY <1>1, <1>2, <2>1, <2>2, AnswerLeaves DEF Answers
<1> QED  BY <1>3, <1>4

\* FINISH_SQL closes the intent whose work stands.
LEMMA FinishKeeps ==
  ASSUME LogInv, NEW r \in Requests, Finish(r)
  PROVE  CoreInv'
<1>1. phase[r] = "finish" /\ Answer(r, "value") /\ UNCHANGED <<claim, effects, expired>>
  BY DEF Finish
<1>2. PICK k : k = Key(r)
  OBVIOUS
<1>3. /\ TablesType /\ k \in Keys /\ Current(r).input \in Inputs
      /\ effects[k] = <<Current(r).input>> /\ claim[k].by = NoRequest
      /\ row[k].state = "begun"
  <2>1. k \in Keys /\ CallSound(r) /\ TablesType /\ Current(r).input \in Inputs
    BY <1>1, <1>2, AtWork, TypeHalves DEF LogInv, CoreInv
  <2>2. ~HasSql(r) /\ effects[k] = <<Current(r).input>>
    BY <1>1, <1>2, <2>1 DEF CallSound
  <2> QED  BY <1>1, <1>2, <2>1, <2>2, AtWork
<1>4. row' = [row EXCEPT ![k] = [state |-> "finished", input |-> Current(r).input]]
  BY <1>2 DEF Finish, Store
<1>5. row'[k] = [state |-> "finished", input |-> Current(r).input]
  BY <1>3, <1>4 DEF TablesType
<1>6. KeyFreed(k)
  BY <1>1, <1>3, <1>4, WriteLogAssumption
  DEF KeyFreed, TablesType, RowSound, FinishedStand, NoRow, WriteLogAssumption
<1> QED  BY <1>1, <1>2, <1>3, <1>5, <1>6, AnswerLeaves DEF Answers

\* Claim, work and outcome commit together.
LEMMA CommitKeeps ==
  ASSUME LogInv, NEW r \in Requests, Commit(r)
  PROVE  CoreInv'
<1>1. phase[r] = "commit" /\ Answer(r, "value") /\ UNCHANGED expired
  BY DEF Commit
<1>2. PICK k : k = Key(r)
  OBVIOUS
<1>3. /\ TablesType /\ k \in Keys /\ Current(r).input \in Inputs
      /\ effects[k] = <<>> /\ row[k] = NoRow
  <2>1. CallSound(r) /\ TablesType
    BY <1>1, AtWork, TypeHalves DEF LogInv, CoreInv
  <2>2. HasSql(r)
    BY <1>1, <2>1 DEF CallSound
  <2> QED  BY <1>1, <1>2, <2>1, <2>2, AtWork
<1>4. /\ row' = [row EXCEPT ![k] = [state |-> "finished", input |-> Current(r).input]]
      /\ claim' = [claim EXCEPT ![k] = Open]
      /\ effects' = [effects EXCEPT ![k] = Append(effects[k], Current(r).input)]
  BY <1>2 DEF Commit, Store, Unclaim, Work
<1>5. Append(effects[k], Current(r).input) = <<Current(r).input>>
  BY <1>3
<1>6. <<Current(r).input>> \in Seq(Inputs)
  BY <1>3
<1>7. /\ row'[k] = [state |-> "finished", input |-> Current(r).input]
      /\ effects'[k] = <<Current(r).input>>
  BY <1>3, <1>4, <1>5 DEF TablesType
<1>8. KeyFreed(k)
  BY <1>3, <1>4, <1>5, <1>6, WriteLogAssumption
  DEF KeyFreed, TablesType, RowSound, FinishedStand, NoRow, Open, WriteLogAssumption
<1> QED  BY <1>1, <1>2, <1>7, <1>8, AnswerLeaves DEF Answers

\* A call at its COMMIT whose claim ends, or outlives its host.
LEMMA ClaimEnds ==
  ASSUME LogInv, NEW r \in Requests, phase[r] \in Working, HasSql(r), NEW k, k = Key(r),
         NEW b \in {NoRequest, Limbo}, NEW i \in {NoInput, Current(r).input},
         b = Limbo => i = Current(r).input,
         claim' = [claim EXCEPT ![k] = [by |-> b, input |-> i]], UNCHANGED <<row, effects>>
  PROVE  KeyFreed(k)
<1>1. /\ TablesType /\ k \in Keys /\ Current(r).input \in Inputs /\ RowSound(k)
      /\ row[k] = NoRow /\ k \in Transacted
  BY AtWork, TypeHalves DEF LogInv, CoreInv, HasSql
<1>2. claim'[k].by = b /\ claim'[k].input = i
  BY <1>1 DEF TablesType
<1>3. TablesType'
  BY <1>1 DEF TablesType
<1> QED  BY <1>1, <1>2, <1>3, WriteLogAssumption
         DEF KeyFreed, TablesType, RowSound, FinishedStand, NoRow, WriteLogAssumption

\* A COMMIT that the server refuses leaves the key new.
LEMMA CommitRolledBackKeeps ==
  ASSUME LogInv, NEW r \in Requests, CommitRolledBack(r)
  PROVE  CoreInv'
<1>1. phase[r] = "commit" /\ Answer(r, "error") /\ UNCHANGED <<row, effects, expired>>
  BY DEF CommitRolledBack
<1>2. PICK k : k = Key(r)
  OBVIOUS
<1>3. HasSql(r) /\ claim' = [claim EXCEPT ![k] = [by |-> NoRequest, input |-> NoInput]]
  BY <1>1, <1>2, AtWork DEF CommitRolledBack, Unclaim, Open, CallSound
<1>4. KeyFreed(k)
  BY <1>1, <1>2, <1>3, ClaimEnds, WriteLogAssumption DEF WriteLogAssumption
<1> QED  BY <1>1, <1>2, <1>4, AnswerLeaves DEF Answers

\* A COMMIT without an answer leaves the claim to the server.
LEMMA CommitUnreadKeeps ==
  ASSUME LogInv, NEW r \in Requests, CommitUnread(r)
  PROVE  CoreInv'
<1>1. phase[r] = "commit" /\ Answer(r, "uncertain") /\ UNCHANGED <<row, effects, expired>>
  BY DEF CommitUnread
<1>2. PICK k : k = Key(r)
  OBVIOUS
<1>3. HasSql(r) /\ TablesType /\ k \in Keys /\ claim[k].input = Current(r).input
  <2>1. CallSound(r) /\ TablesType
    BY <1>1, AtWork, TypeHalves DEF LogInv, CoreInv
  <2>2. HasSql(r)
    BY <1>1, <2>1 DEF CallSound
  <2> QED  BY <1>1, <1>2, <2>1, <2>2, AtWork
<1>4. claim' = [claim EXCEPT ![k] = [by |-> Limbo, input |-> Current(r).input]]
  <2>1. claim[k] \in [by : Requests \cup {NoRequest, Limbo}, input : Inputs \cup {NoInput}]
    BY <1>3 DEF TablesType
  <2>2. [claim[k] EXCEPT !.by = Limbo] = [by |-> Limbo, input |-> Current(r).input]
    BY <1>3, <2>1
  <2>3. claim' = [claim EXCEPT ![k] = [claim[k] EXCEPT !.by = Limbo]]
    BY <1>2 DEF CommitUnread
  <2> QED  BY <2>2, <2>3
<1>5. KeyFreed(k)
  BY <1>1, <1>2, <1>3, <1>4, ClaimEnds
<1> QED  BY <1>1, <1>2, <1>5, AnswerLeaves DEF Answers

\* No call works on a key whose claim no host waits for.
LEMMA LimboKeeps ==
  ASSUME LogInv, NEW k \in Keys, LimboCommits(k) \/ LimboRollsBack(k)
  PROVE  CoreInv'
<1>1. claim[k].by = Limbo /\ UNCHANGED <<expired, phase, elements, answers>>
  BY DEF LimboCommits, LimboRollsBack
<1>2. /\ TablesType /\ CallsType /\ CallShape /\ TablesSound /\ RowSound(k)
      /\ k \in Transacted /\ row[k] = NoRow /\ claim[k].input \in Inputs /\ effects[k] = <<>>
  BY <1>1, TypeHalves, WriteLogAssumption
  DEF LogInv, CoreInv, TablesSound, ClaimSound, RowSound, NoRow, WriteLogAssumption
<1>3. KeyFreed(k)
  <2>1. CASE LimboCommits(k)
    <3>1. Append(effects[k], claim[k].input) = <<claim[k].input>>
      BY <1>2
    <3>2. <<claim[k].input>> \in Seq(Inputs)
      BY <1>2
    <3> QED  BY <1>2, <2>1, <3>1, <3>2, WriteLogAssumption
             DEF LimboCommits, KeyFreed, TablesType, RowSound, FinishedStand, NoRow, Open,
                 WriteLogAssumption
  <2>2. CASE LimboRollsBack(k)
    BY <1>2, <2>2, WriteLogAssumption
    DEF LimboRollsBack, KeyFreed, TablesType, RowSound, FinishedStand, NoRow, Open,
        WriteLogAssumption
  <2> QED  BY <2>1, <2>2
<1>4. \A s \in Requests : Current(s)' = Current(s) /\ phase'[s] = phase[s]
  BY <1>1 DEF Current
<1>5. ASSUME NEW s \in Requests, phase[s] \in Working  PROVE Key(s) # k /\ Key(s) \in Keys
  <2>1. Key(s) \in Keys /\ (HasSql(s) => claim[Key(s)].by = s)
    BY <1>5, AtWork
  <2>2. Key(s) = k => claim[k].by = s
    BY <1>2, <2>1 DEF HasSql
  <2> QED  BY <1>1, <2>1, <2>2, WriteLogAssumption DEF WriteLogAssumption
<1>6. TablesSound'
  BY <1>2, <1>3, <1>4, <1>5, OneKeyChanges DEF KeyFreed
<1>7. CallsType' /\ CallShape' /\ TablesType'
  BY <1>1, <1>2, <1>3 DEF CallsType, CallShape, KeyFreed
<1>8. ValueIsTrue'
  <2> SUFFICES ASSUME NEW s \in Requests, NEW i \in DOMAIN answers[s], answers[s][i] = "value"
               PROVE  \/ /\ row'[elements[s][i].key]
                               = [state |-> "finished", input |-> elements[s][i].input]
                         /\ effects'[elements[s][i].key] = <<elements[s][i].input>>
                      \/ elements[s][i].input \in expired[elements[s][i].key]
    BY <1>1 DEF ValueIsTrue, Recorded
  <2>1. elements[s] \in Seq(Elements) /\ answers[s] \in Seq(Answers)
    BY <1>2 DEF CallsType
  <2>2. i \in 1..Len(elements[s])
    BY <1>2, <2>1 DEF CallShape
  <2>3. elements[s][i] \in Elements
    BY <2>1, <2>2
  <2>4. elements[s][i].key \in Keys
    BY <2>3 DEF Elements
  <2>5. \/ /\ row[elements[s][i].key] = [state |-> "finished", input |-> elements[s][i].input]
           /\ effects[elements[s][i].key] = <<elements[s][i].input>>
        \/ elements[s][i].input \in expired[elements[s][i].key]
    BY DEF LogInv, CoreInv, ValueIsTrue, Recorded
  <2> QED  BY <1>3, <2>4, <2>5 DEF KeyFreed, FinishedStand
<1> QED  BY <1>6, <1>7, <1>8 DEF CoreInv

\* A call may fail at every step of its work, also after COMMIT was sent.
LEMMA CallFailsKeeps ==
  ASSUME LogInv, NEW r \in Requests, CallFails(r)
  PROVE  CoreInv'
<1>1. /\ phase[r] \in Steps /\ Goto(r, "failed") /\ UNCHANGED <<row, expired, elements, answers>>
      /\ TablesType /\ TablesSound
  BY TypeHalves DEF CallFails, LogInv, CoreInv
<1>2. CASE phase[r] \notin Working
  <2>1. \A j \in Keys : claim[j].by # r
    BY <1>1, <1>2 DEF TablesSound, ClaimSound
  <2>2. claim' = claim /\ effects' = effects /\ FinishedStand
    BY <1>1, <1>2, <2>1 DEF CallFails, TablesType, FinishedStand
  <2>3. /\ CallsType' /\ CallShape' /\ ValueIsTrue' /\ phase'[r] = "failed"
        /\ \A s \in Requests : s # r => phase'[s] = phase[s]
        /\ \A s \in Requests : Current(s)' = Current(s)
    BY <1>1, <2>2, Moved
  <2>4. TablesSound' /\ TablesType'
    BY <1>1, <1>2, <2>2, <2>3, IdleMoves
  <2> QED  BY <2>3, <2>4 DEF CoreInv
<1>3. CASE phase[r] \in Working
  <2>1. PICK k \in Keys : k = Key(r)
    BY <1>3, AtWork
  <2>2. \A j \in Keys : j # k => claim[j].by # r
    BY <1>1, <2>1 DEF TablesSound, ClaimSound, Key
  <2>3. KeyFreed(k)
    <3>1. CASE HasSql(r)
      <4>1. effects' = effects /\ claim[k].by = r /\ claim[k].input = Current(r).input
        BY <1>3, <2>1, <3>1, AtWork DEF CallFails
      <4>2. CASE phase[r] = "commit"
        <5>1. claim' = [claim EXCEPT ![k] = [by |-> Limbo, input |-> Current(r).input]]
          <6>1. claim[k] \in [by : Requests \cup {NoRequest, Limbo}, input : Inputs \cup {NoInput}]
            BY <1>1 DEF TablesType
          <6>2. [claim[k] EXCEPT !.by = Limbo] = [by |-> Limbo, input |-> Current(r).input]
            BY <4>1, <6>1
          <6>3. claim' = [j \in Keys |-> IF j = k THEN [claim[k] EXCEPT !.by = Limbo] ELSE claim[j]]
            BY <2>2, <4>1, <4>2 DEF CallFails
          <6> QED  BY <1>1, <6>2, <6>3 DEF TablesType
        <5> QED  BY <1>1, <1>3, <2>1, <3>1, <4>1, <5>1, ClaimEnds
      <4>3. CASE phase[r] # "commit"
        <5>1. claim' = [claim EXCEPT ![k] = [by |-> NoRequest, input |-> NoInput]]
          BY <1>1, <2>2, <4>1, <4>3 DEF CallFails, TablesType, Open
        <5> QED  BY <1>1, <1>3, <2>1, <3>1, <4>1, <5>1, ClaimEnds, WriteLogAssumption
                 DEF WriteLogAssumption
      <4> QED  BY <4>2, <4>3
    <3>2. CASE ~HasSql(r)
      <4>1. claim[k].by = NoRequest /\ row[k].state = "begun" /\ RowSound(k) /\ CallSound(r)
        BY <1>3, <2>1, <3>2, AtWork
      <4>2. claim' = claim
        <5>1. \A j \in Keys : claim[j].by # r
          BY <2>2, <4>1, WriteLogAssumption DEF WriteLogAssumption
        <5> QED  BY <1>1, <5>1 DEF CallFails, TablesType
      <4>3. CASE phase[r] = "run"
        BY <1>1, <2>1, <3>2, <4>2, <4>3, BegunFrees DEF CallFails
      <4>4. CASE phase[r] # "run"
        <5>1. effects' = effects
          BY <4>4 DEF CallFails
        <5> QED  BY <1>1, <4>1, <4>2, <5>1, WriteLogAssumption
                 DEF KeyFreed, TablesType, RowSound, FinishedStand, NoRow, WriteLogAssumption
      <4> QED  BY <4>3, <4>4
    <3> QED  BY <3>1, <3>2
  <2> QED  BY <1>1, <1>3, <2>1, <2>3, MoveLeaves
<1> QED  BY <1>2, <1>3

\* Time changes no row.
LEMMA RowAgesKeeps ==
  ASSUME LogInv, NEW k \in Keys, RowAges(k)
  PROVE  LogInv'
<1>1. /\ UNCHANGED <<row, claim, effects, expired, stray, phase, elements, answers>>
      /\ aged' = aged \cup {k} /\ row[k] # NoRow /\ CoreInv /\ RetainedType /\ RetainedSound
  BY DEF RowAges, LogInv
<1>2. CoreInv'
  BY <1>1
  DEF CoreInv, TablesType, CallsType, CallShape, TablesSound, RowSound, ClaimSound, CallSound, Alone,
      ValueIsTrue, Recorded, Key, HasSql, Current, NoRow
<1>3. RetainedType' /\ RetainedSound'
  BY <1>1 DEF RetainedType, RetainedSound, NoRow
<1> QED  BY <1>2, <1>3 DEF LogInv

\* What the retention job does to each key.
LEMMA PruneRows ==
  ASSUME LogInv, Prune, NEW k \in Keys
  PROVE  /\ \/ /\ k \in aged /\ row[k].state = "finished"
               /\ row'[k] = NoRow /\ effects'[k] = <<>> /\ k \notin aged'
               /\ row[k].input \in expired'[k]
            \/ row'[k] = row[k] /\ effects'[k] = effects[k] /\ (k \in aged' => k \in aged)
         /\ expired[k] \subseteq expired'[k]
         /\ expired'[k] \in SUBSET Inputs
<1> DEFINE old == {j \in aged : row[j].state = "finished"}
<1>1. /\ row' = [j \in Keys |-> IF j \in old THEN NoRow ELSE row[j]]
      /\ effects' = [j \in Keys |-> IF j \in old THEN <<>> ELSE effects[j]]
      /\ expired' = [j \in Keys |-> IF j \in old THEN expired[j] \cup {row[j].input} ELSE expired[j]]
      /\ aged' = aged \ old
  BY DEF Prune
<1>2. expired[k] \in SUBSET Inputs /\ (row[k].state = "finished" => row[k].input \in Inputs)
  BY DEF LogInv, CoreInv, RetainedType, TablesSound, RowSound
<1>3. CASE k \in old
  BY <1>1, <1>2, <1>3
<1>4. CASE k \notin old
  BY <1>1, <1>2, <1>4
<1> QED  BY <1>3, <1>4

\* The retention job deletes whole outcomes that no call works on.
LEMMA PruneKeeps ==
  ASSUME LogInv, Prune
  PROVE  LogInv'
<1>1. /\ UNCHANGED <<claim, stray, phase, elements, answers>> /\ aged' \subseteq aged
      /\ CoreInv /\ RetainedType /\ RetainedSound
  BY DEF Prune, LogInv
<1>2. TablesType' /\ RetainedType'
  <2>1. NoRow \in [state : {"none", "begun", "finished"}, input : Inputs \cup {NoInput}]
    BY DEF NoRow
  <2>2. <<>> \in Seq(Inputs)
    OBVIOUS
  <2>3. row' \in [Keys -> [state : {"none", "begun", "finished"}, input : Inputs \cup {NoInput}]]
    BY <1>1, <2>1 DEF Prune, CoreInv, TablesType
  <2>4. effects' \in [Keys -> Seq(Inputs)]
    BY <1>1, <2>2 DEF Prune, CoreInv, TablesType
  <2>5. expired' \in [Keys -> SUBSET Inputs]
    <3>1. expired' = [k \in Keys |-> expired'[k]]
      BY DEF Prune
    <3>2. \A k \in Keys : expired'[k] \in SUBSET Inputs
      BY PruneRows
    <3> QED  BY <3>1, <3>2
  <2> QED  BY <1>1, <2>3, <2>4, <2>5 DEF CoreInv, TablesType, RetainedType
<1>3. CallsType' /\ CallShape'
  BY <1>1 DEF CoreInv, CallsType, CallShape
<1>4. \A s \in Requests : Current(s)' = Current(s) /\ phase'[s] = phase[s]
  BY <1>1 DEF Current
<1>5. ASSUME NEW k \in Keys  PROVE RowSound(k)'
  <2>1. RowSound(k)
    BY <1>1 DEF CoreInv, TablesSound
  <2>2. CASE row'[k] = NoRow /\ effects'[k] = <<>>
    BY <2>2 DEF RowSound, NoRow
  <2>3. CASE row'[k] = row[k] /\ effects'[k] = effects[k]
    BY <2>1, <2>3 DEF RowSound, NoRow
  <2> QED  BY <2>2, <2>3, PruneRows
<1>6. ASSUME NEW k \in Keys  PROVE ClaimSound(k)'
  <2>1. ClaimSound(k) /\ claim' = claim
    BY <1>1 DEF CoreInv, TablesSound
  <2>2. row[k] = NoRow => row'[k] = NoRow
    BY PruneRows
  <2> QED  BY <1>4, <2>1, <2>2 DEF ClaimSound, NoRow
<1>7. ASSUME NEW s \in Requests  PROVE CallSound(s)'
  <2> SUFFICES ASSUME phase[s] \in Working  PROVE CallSound(s)'
    BY <1>4 DEF CallSound
  <2>1. CallSound(s) /\ Key(s) \in Keys /\ row[Key(s)].state # "finished"
    <3>1. PICK k : k = Key(s)
      OBVIOUS
    <3>2. k \in Keys /\ CallSound(s) /\ (HasSql(s) => row[k] = NoRow)
          /\ (~HasSql(s) => row[k].state = "begun")
      BY <3>1, AtWork
    <3> QED  BY <3>1, <3>2 DEF NoRow
  <2>2. row'[Key(s)] = row[Key(s)] /\ effects'[Key(s)] = effects[Key(s)]
    BY <2>1, PruneRows
  <2> QED  BY <1>1, <1>4, <2>1, <2>2 DEF CallSound, Key, HasSql
<1>8. Alone'
  BY <1>1, <1>4 DEF CoreInv, TablesSound, Alone, Key
<1>9. ValueIsTrue'
  <2> SUFFICES ASSUME NEW s \in Requests, NEW i \in DOMAIN answers[s], answers[s][i] = "value",
                      NEW k, k = elements[s][i].key, NEW x, x = elements[s][i].input
               PROVE  \/ row'[k] = [state |-> "finished", input |-> x] /\ effects'[k] = <<x>>
                      \/ x \in expired'[k]
    BY <1>1 DEF ValueIsTrue, Recorded
  <2>1. elements[s] \in Seq(Elements) /\ answers[s] \in Seq(Answers)
    BY <1>1 DEF CoreInv, CallsType
  <2>2. i \in 1..Len(elements[s])
    BY <1>1, <2>1 DEF CoreInv, CallShape
  <2>3. k \in Keys
    <3>1. elements[s][i] \in Elements
      BY <2>1, <2>2
    <3> QED  BY <3>1 DEF Elements
  <2>4. \/ row[k] = [state |-> "finished", input |-> x] /\ effects[k] = <<x>>
        \/ x \in expired[k]
    BY <1>1 DEF CoreInv, ValueIsTrue, Recorded
  <2>5. CASE x \in expired[k]
    BY <2>3, <2>5, PruneRows
  <2>6. CASE row[k] = [state |-> "finished", input |-> x] /\ effects[k] = <<x>>
    BY <2>3, <2>6, PruneRows
  <2> QED  BY <2>4, <2>5, <2>6
<1>10. RetainedSound'
  <2>1. ASSUME NEW k \in aged'  PROVE row'[k] # NoRow
    <3>1. k \in Keys /\ k \in aged /\ row[k] # NoRow
      BY <1>1, <2>1 DEF RetainedType, RetainedSound
    <3> QED  BY <2>1, <3>1, PruneRows
  <2>2. \A k \in stray' : k \notin Transacted
    BY <1>1 DEF RetainedSound
  <2> QED  BY <2>1, <2>2 DEF RetainedSound, NoRow
<1> QED  BY <1>2, <1>3, <1>5, <1>6, <1>7, <1>8, <1>9, <1>10 DEF LogInv, CoreInv, TablesSound

\* No step of a call or of the server leaves an old row behind its deletion, and
\* only an export without SQL leaves work behind.
LEMMA RetainedKeeps ==
  ASSUME LogInv,
         \/ \E r \in Requests : \/ \E es \in Calls : Submit(r, es)
                                \/ Collect(r) \/ HostStep(r) \/ CallFails(r)
         \/ \E k \in Keys : LimboCommits(k) \/ LimboRollsBack(k)
  PROVE  RetainedType' /\ RetainedSound'
<1>1. RetainedType /\ RetainedSound /\ TablesType
  BY DEF LogInv, CoreInv
<1>2. ASSUME UNCHANGED retained, \A k \in Keys : row'[k] = row[k] \/ row'[k] # NoRow
      PROVE  RetainedType' /\ RetainedSound'
  BY <1>1, <1>2 DEF RetainedType, RetainedSound, NoRow
<1>3. ASSUME NEW r \in Requests, Store(r, "begun") \/ Store(r, "finished"), NEW k \in Keys
      PROVE  row'[k] = row[k] \/ row'[k] # NoRow
  BY <1>1, <1>3 DEF Store, TablesType, NoRow
<1>4. ASSUME NEW r \in Requests, Release(r), phase[r] = "run"
      PROVE  RetainedType' /\ RetainedSound'
  <2>1. Key(r) \in Keys
    BY <1>4, AtWork
  <2>2. CASE HasSql(r)
    BY <1>2, <1>4, <2>2 DEF Release
  <2>3. CASE ~HasSql(r)
    <3>1. /\ row' = [row EXCEPT ![Key(r)] = NoRow] /\ aged' = aged \ {Key(r)} /\ expired' = expired
          /\ stray' \in {stray, stray \cup {Key(r)}}
      BY <1>4, <2>3 DEF Release
    <3>2. Key(r) \notin Transacted
      BY <2>3 DEF HasSql
    <3>3. ASSUME NEW k \in aged'  PROVE row'[k] # NoRow
      BY <1>1, <3>1 DEF RetainedType, RetainedSound, TablesType
    <3>4. \A k \in stray' : k \notin Transacted
      BY <1>1, <3>1, <3>2 DEF RetainedSound
    <3> QED  BY <1>1, <2>1, <3>1, <3>3, <3>4 DEF RetainedType, RetainedSound, NoRow
  <2> QED  BY <2>2, <2>3
<1>5. ASSUME NEW r \in Requests, HostStep(r)  PROVE RetainedType' /\ RetainedSound'
  <2>1. CASE ClaimKey(r)
    BY <1>2, <1>3, <2>1 DEF ClaimKey
  <2>2. CASE ReadClaim(r) \/ RunValue(r) \/ CommitRolledBack(r) \/ CommitUnread(r)
    BY <1>2, <2>2 DEF ReadClaim, RunValue, CommitRolledBack, CommitUnread
  <2>3. CASE RunRefused(r) \/ RunFailed(r)
    BY <1>4, <2>3 DEF RunRefused, RunFailed
  <2>4. CASE RunSilent(r)
    BY <1>2, <1>4, <2>4 DEF RunSilent
  <2>5. CASE Finish(r) \/ Commit(r)
    BY <1>2, <1>3, <2>5 DEF Finish, Commit
  <2> QED  BY <1>5, <2>1, <2>2, <2>3, <2>4, <2>5 DEF HostStep
<1>6. ASSUME NEW r \in Requests, Collect(r) \/ CallFails(r) \/ \E es \in Calls : Submit(r, es)
      PROVE  RetainedType' /\ RetainedSound'
  BY <1>2, <1>6 DEF Collect, CallFails, Submit
<1>7. ASSUME NEW k \in Keys, LimboCommits(k)  PROVE RetainedType' /\ RetainedSound'
  <2>1. \A j \in Keys : row'[j] = row[j] \/ row'[j] # NoRow
    BY <1>1, <1>7 DEF LimboCommits, TablesType, NoRow
  <2> QED  BY <1>2, <1>7, <2>1 DEF LimboCommits
<1>8. ASSUME NEW k \in Keys, LimboRollsBack(k)  PROVE RetainedType' /\ RetainedSound'
  BY <1>2, <1>8 DEF LimboRollsBack
<1> QED  BY <1>5, <1>6, <1>7, <1>8

-----------------------------------------------------------------------------
(* The theorems.                                                            *)

\* Every step of hosts, clients and server keeps the invariant.
LEMMA NextKeeps == LogInv /\ [ClientsNext]_logVars => LogInv'
<1> SUFFICES ASSUME LogInv, [ClientsNext]_logVars PROVE LogInv'
  OBVIOUS
<1>1. ASSUME NEW r \in Requests, NEW es \in Calls, Submit(r, es) PROVE CoreInv'
  BY <1>1, SubmitKeeps
<1>2. ASSUME NEW r \in Requests, Collect(r) PROVE CoreInv'
  BY <1>2, CollectKeeps
<1>3. ASSUME NEW r \in Requests, HostStep(r) PROVE CoreInv'
  BY <1>3, ClaimKeyKeeps, ReadClaimKeeps, RunValueKeeps, RunRefusedKeeps, RunFailedKeeps,
     RunSilentKeeps, FinishKeeps, CommitKeeps, CommitRolledBackKeeps, CommitUnreadKeeps
  DEF HostStep
<1>4. ASSUME NEW r \in Requests, CallFails(r) PROVE CoreInv'
  BY <1>4, CallFailsKeeps
<1>5. ASSUME NEW k \in Keys, LimboCommits(k) \/ LimboRollsBack(k) PROVE CoreInv'
  BY <1>5, LimboKeeps
<1>6. CASE UNCHANGED logVars
  BY <1>6
  DEF logVars, LogInv, CoreInv, TablesType, CallsType, RetainedType, RetainedSound, CallShape,
      TablesSound, RowSound, ClaimSound, CallSound, Alone, ValueIsTrue, Recorded, Key, HasSql,
      Current, NoRow
<1>7. ASSUME NEW k \in Keys, RowAges(k) PROVE LogInv'
  BY <1>7, RowAgesKeeps
<1>8. CASE Prune
  BY <1>8, PruneKeeps
<1>9. CASE \/ \E r \in Requests : \/ \E es \in Calls : Submit(r, es)
                                  \/ Collect(r) \/ HostStep(r) \/ CallFails(r)
           \/ \E k \in Keys : LimboCommits(k) \/ LimboRollsBack(k)
  BY <1>1, <1>2, <1>3, <1>4, <1>5, <1>9, RetainedKeeps DEF LogInv
<1> QED  BY <1>6, <1>7, <1>8, <1>9 DEF ClientsNext, LogStep

\* The inductive invariant holds for every set of calls, keys and inputs.
THEOREM LogInvariance == ClientsSpec => []LogInv
<1>1. LogInit => LogInv
  BY InitEstablishes
<1>2. LogInv /\ [ClientsNext]_logVars => LogInv'
  BY NextKeeps
<1> QED  BY <1>1, <1>2, PTL DEF ClientsSpec

\* Rows, claims and calls keep their types.
THEOREM LogTypeCorrect == ClientsSpec => []LogTypeOK
<1>1. LogInv => LogTypeOK
  BY TypeHalves DEF LogInv, CoreInv
<1> QED  BY <1>1, LogInvariance, PTL

\* The work of a key (settle_request_element) is done by one call at a time, at
\* most once while its row is kept (WRITE_LOG_RETENTION_SQL), and never without a
\* row that answers for it, unless an export without SQL failed after it.
THEOREM WorkIsDoneOnce == ClientsSpec => []WorkedOnce
<1>1. LogInv => WorkedOnce
  <2> SUFFICES ASSUME LogInv, NEW k \in Keys
               PROVE  /\ \A r, s \in Requests :
                           {phase[r], phase[s]} \subseteq Working /\ Key(r) = k /\ Key(s) = k => r = s
                      /\ effects[k] # <<>> => /\ row[k].state # "none"
                                              /\ effects[k] = <<row[k].input>>
                      /\ k \in stray => k \notin Transacted
    BY DEF WorkedOnce
  <2>1. Alone /\ RowSound(k) /\ RetainedSound
    BY DEF LogInv, CoreInv, TablesSound
  <2>2. \A r, s \in Requests :
          {phase[r], phase[s]} \subseteq Working /\ Key(r) = k /\ Key(s) = k => r = s
    BY <2>1 DEF Alone
  <2>3. effects[k] # <<>> => row[k].state # "none" /\ effects[k] = <<row[k].input>>
    BY <2>1 DEF RowSound
  <2>4. k \in stray => k \notin Transacted
    BY <2>1 DEF RetainedSound
  <2> QED  BY <2>2, <2>3, <2>4
<1> QED  BY <1>1, LogInvariance, PTL

\* A value that a call answers is the outcome of the input that it carried, whose
\* row is kept or expired.
THEOREM AnsweredValueIsTrue == ClientsSpec => []ValueIsTrue
<1>1. LogInv => ValueIsTrue
  BY DEF LogInv, CoreInv
<1> QED  BY <1>1, LogInvariance, PTL

\* What OutcomeStands says of a step and a key.
Stands(k) ==
    /\ row[k].state = "finished" =>
          \/ row'[k] = row[k] /\ effects'[k] = effects[k]
          \/ k \in aged /\ row'[k] = NoRow /\ effects'[k] = <<>> /\ row[k].input \in expired'[k]
    /\ row[k].state = "begun"
       /\ (\A r \in Requests : phase[r] \in {"run", "finish"} => Key(r) # k)
       => row'[k] = row[k] /\ effects'[k] = effects[k]

\* A call at work changes its own key only, whose row it holds begun or absent.
LEMMA WorkerStands ==
  ASSUME LogInv, NEW r \in Requests, phase[r] \in Working,
         \A j \in Keys : j # Key(r) => row'[j] = row[j] /\ effects'[j] = effects[j],
         NEW k \in Keys
  PROVE  Stands(k)
<1>1. CASE k # Key(r)
  BY <1>1 DEF Stands
<1>2. CASE k = Key(r) /\ HasSql(r)
  <2>1. row[k] = NoRow
    BY <1>2, AtWork
  <2> QED  BY <2>1 DEF Stands, NoRow
<1>3. CASE k = Key(r) /\ ~HasSql(r)
  <2>1. row[k].state = "begun" /\ CallSound(r)
    BY <1>3, AtWork
  <2>2. phase[r] \in {"run", "finish"}
    BY <1>3, <2>1 DEF CallSound
  <2> QED  BY <1>3, <2>1, <2>2 DEF Stands
<1> QED  BY <1>1, <1>2, <1>3

\* Every step lets the outcomes stand.
LEMMA StepStands ==
  ASSUME LogInv, ClientsNext, NEW k \in Keys
  PROVE  Stands(k)
<1>1. TablesType /\ TablesSound
  BY TypeHalves DEF LogInv, CoreInv
<1>2. ASSUME UNCHANGED <<row, effects>>  PROVE Stands(k)
  BY <1>2 DEF Stands
<1>3. ASSUME NEW r \in Requests, ClaimKey(r)  PROVE Stands(k)
  <2>1. effects' = effects /\ (row' = row \/ (row[Key(r)] = NoRow /\ Store(r, "begun")))
    BY <1>3 DEF ClaimKey
  <2>2. CASE row' = row
    BY <1>2, <2>1, <2>2
  <2>3. CASE row[Key(r)] = NoRow /\ Store(r, "begun")
    <3>1. k # Key(r) => row'[k] = row[k]
      BY <1>1, <2>3 DEF Store, TablesType
    <3>2. k = Key(r) => row[k].state = "none"
      BY <2>3 DEF NoRow
    <3> QED  BY <2>1, <3>1, <3>2 DEF Stands
  <2> QED  BY <2>1, <2>2, <2>3
<1>4. ASSUME NEW r \in Requests,
             \/ RunValue(r) \/ RunRefused(r) \/ RunFailed(r) \/ RunSilent(r)
             \/ Finish(r) \/ Commit(r)
      PROVE  Stands(k)
  <2>1. phase[r] \in Working
    BY <1>4 DEF RunValue, RunRefused, RunFailed, RunSilent, Finish, Commit
  <2>2. \A j \in Keys : j # Key(r) => row'[j] = row[j] /\ effects'[j] = effects[j]
    BY <1>1, <1>4
    DEF RunValue, RunRefused, RunFailed, RunSilent, Finish, Commit, Release, Store, Work, TablesType
  <2> QED  BY <2>1, <2>2, WorkerStands
<1>5. ASSUME NEW r \in Requests, CallFails(r)  PROVE Stands(k)
  <2>1. CASE effects' = effects
    BY <1>2, <1>5, <2>1 DEF CallFails
  <2>2. CASE phase[r] = "run" /\ Work(r)
    <3>1. \A j \in Keys : j # Key(r) => row'[j] = row[j] /\ effects'[j] = effects[j]
      BY <1>1, <1>5, <2>2 DEF CallFails, Work, TablesType
    <3> QED  BY <2>2, <3>1, WorkerStands
  <2> QED  BY <1>5, <2>1, <2>2 DEF CallFails
<1>6. ASSUME NEW j \in Keys, LimboCommits(j)  PROVE Stands(k)
  <2>1. row[j].state = "none"
    BY <1>1, <1>6, WriteLogAssumption
    DEF LimboCommits, TablesSound, ClaimSound, NoRow, WriteLogAssumption
  <2>2. k # j => row'[k] = row[k] /\ effects'[k] = effects[k]
    BY <1>1, <1>6 DEF LimboCommits, TablesType
  <2> QED  BY <2>1, <2>2 DEF Stands
<1>7. ASSUME NEW r \in Requests,
             \/ ReadClaim(r) \/ CommitRolledBack(r) \/ CommitUnread(r) \/ Collect(r)
             \/ \E es \in Calls : Submit(r, es)
      PROVE  Stands(k)
  BY <1>2, <1>7 DEF ReadClaim, CommitRolledBack, CommitUnread, Collect, Submit
<1>8. ASSUME NEW j \in Keys, LimboRollsBack(j)  PROVE Stands(k)
  BY <1>2, <1>8 DEF LimboRollsBack
<1>9. ASSUME NEW j \in Keys, RowAges(j)  PROVE Stands(k)
  BY <1>2, <1>9 DEF RowAges
<1>10. CASE Prune
  BY <1>10, PruneRows DEF Stands
<1> QED  BY <1>3, <1>4, <1>5, <1>6, <1>7, <1>8, <1>9, <1>10 DEF ClientsNext, LogStep, HostStep

\* The work of an expired row stands.
LEMMA ExpiredKept ==
  ASSUME LogInv, ClientsNext, NEW k \in Keys
  PROVE  expired[k] \subseteq expired'[k]
<1>1. CASE Prune
  BY <1>1, PruneRows
<1>2. ASSUME NEW r \in Requests, HostStep(r)  PROVE expired' = expired
  BY <1>2
  DEF HostStep, ClaimKey, ReadClaim, RunValue, RunRefused, RunFailed, RunSilent, Finish, Commit,
      CommitRolledBack, CommitUnread, Release
<1>3. CASE ~Prune
  BY <1>2, <1>3
  DEF ClientsNext, LogStep, CallFails, Collect, Submit, LimboCommits, LimboRollsBack, RowAges
<1> QED  BY <1>1, <1>3

\* A finished row and its work stand until the row is older than 30 days and the
\* retention job deletes it whole, and a begun row that no call works on any more
\* stays as it is, whatever its age.
THEOREM OutcomesStand == ClientsSpec => OutcomeStands
<1>1. LogInv /\ [ClientsNext]_logVars
        => [\A k \in Keys :
              /\ row[k].state = "finished" =>
                    \/ row'[k] = row[k] /\ effects'[k] = effects[k]
                    \/ k \in aged /\ row'[k] = NoRow /\ effects'[k] = <<>> /\ row[k].input \in expired'[k]
              /\ row[k].state = "begun"
                 /\ (\A r \in Requests : phase[r] \in {"run", "finish"} => Key(r) # k)
                 => row'[k] = row[k] /\ effects'[k] = effects[k]]_logVars
  BY StepStands DEF Stands
<1> QED  BY <1>1, LogInvariance, PTL DEF ClientsSpec, OutcomeStands

===============================================================================
