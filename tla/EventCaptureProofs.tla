-------------------------- MODULE EventCaptureProofs --------------------------
(***************************************************************************)
(* Proofs about EventCapture, for every WAL history, every number of rows, *)
(* of acks in flight, of lost slots and of forgotten duplicate windows:    *)
(* what the slot confirmed is on the stream, the stream keeps the commit   *)
(* order, and a gap row misses nothing.                                    *)
(***************************************************************************)
EXTENDS EventCapture, FiniteSetTheorems, WellFoundedInduction, TLAPS

On(e) == \E s \in DOMAIN stream : stream[s] = e

\* No event of a later transaction lies before the first copy of e.
Ordered(e) ==
    \A a \in DOMAIN stream : stream[a][1] > e[1] =>
        \E c \in 1 .. (a - 1) : stream[c] = e

\* Every position that anyone holds is one the WAL has reached.
Places ==
    /\ slot.from <= slot.confirmed /\ slot.confirmed <= Len(wal)
    /\ cursor <= Len(wal) /\ flushed <= Len(wal) /\ txn <= Len(wal)
    /\ ctl.lsn <= Len(wal) /\ ctl.at <= Len(wal) /\ ctl.to <= Len(wal)
    /\ \A g \in DOMAIN gaps : gaps[g].end_lsn <= Len(wal)

\* Only own transactions have rows, and the window knows only stored events.
Events ==
    /\ \A i \in DOMAIN wal : wal[i].own \/ wal[i].rows = 0
    /\ \A s \in DOMAIN stream : stream[s][1] <= Len(wal)
    /\ \A e \in window : On(e)

\* A session streams an existing slot, and its feedback and its buffered
\* transaction skip no transaction of this database.
Reading ==
    /\ pc \notin {"drain", "publish"} => session = "none" /\ late = {}
    /\ session \in {"idle", "mid"} => slot.state = "ok" /\ slot.from <= cursor
    /\ session = "mid" =>
           /\ pc = "drain" /\ cursor < txn /\ wal[txn].own
           /\ \A i \in (cursor + 1) .. (txn - 1) : ~wal[i].own
    /\ pc = "drain" /\ session \in {"idle", "mid"} =>
           \A i \in (cursor + 1) .. flushed : ~wal[i].own
    /\ pc = "publish" => 1 <= txn /\ cursor = txn /\ flushed < txn

\* What the slot or the session has passed is on the stream.
FlushedPublished == \A i \in (slot.from + 1) .. flushed : Published(i)
CursorPublished ==
    \A i \in (slot.from + 1) .. cursor : Published(i) \/ (pc = "publish" /\ i = txn)
AcksPublished ==
    pc = "publish" =>
        /\ acked + Len(held) <= wal[txn].rows
        /\ \A k \in 1 .. acked : On(<<txn, k>>)
        /\ \A j \in DOMAIN held : held[j] => On(<<txn, acked + j>>)

\* A publish left in the client's buffer is one of the transaction that is
\* being published, or a copy of an event that was acknowledged since.
Waits(e) ==
    /\ e[1] \in DOMAIN wal /\ e[2] \in 1 .. wal[e[1]].rows
    /\ (On(e) /\ e[1] <= flushed) \/ (pc = "publish" /\ e[1] = txn)
    /\ \A i \in (slot.from + 1) .. (e[1] - 1) : Published(i)
Buffered == \A e \in late : Waits(e)

\* Whatever is stored next keeps the order.
StreamOrdered == \A s \in DOMAIN stream : Ordered(stream[s])
SlotOrdered ==
    \A i \in (slot.from + 1) .. Len(wal) : \A k \in 1 .. wal[i].rows : Ordered(<<i, k>>)
TxnOrdered == pc = "publish" => \A k \in 1 .. wal[txn].rows : Ordered(<<txn, k>>)
LateOrdered == \A e \in late : Ordered(e)

\* What is not on the stream after base is at or after at and behind lsn.
Covered(base, end, at, lsn) ==
    \A i \in (base + 1) .. end : Published(i) \/ (i >= at /\ i > lsn)

\* What recover-capture-gap has read covers the slot it replaces.
Recovering ==
    /\ ctl.step = "events" /\ ctl.reason = "lost" =>
           \A i \in (slot.from + 1) .. ctl.lsn : Published(i)
    /\ ctl.step = "drop" => Covered(slot.from, Len(wal), ctl.at, ctl.lsn)
    /\ ctl.step \in {"create", "position", "insert"} =>
           Covered(ctl.base, Len(wal), ctl.at, ctl.lsn)

Order == StreamOrdered /\ SlotOrdered /\ TxnOrdered /\ LateOrdered
Delivered == ConfirmedPublished /\ FlushedPublished /\ CursorPublished /\ AcksPublished
Working ==
    /\ Places /\ Events /\ Reading
    /\ Delivered /\ Buffered /\ Order /\ Recovering /\ GapRowMissesNone
Inv == TypeOK /\ Working
-----------------------------------------------------------------------------
(* The operators of the model.                                              *)

LEMMA LeastNatural ==
  ASSUME NEW S \in SUBSET Nat, S # {}
  PROVE  \E x \in S : \A y \in S : x <= y
<1>1. IsWellFoundedOn(OpToRel(<, Nat), Nat)
  BY NatLessThanWellFounded
<1>2. PICK x \in S : \A y \in S : ~(<<y, x>> \in OpToRel(<, Nat))
  BY <1>1, WFMin
<1>3. \A y \in S : ~(y < x)
  BY <1>2 DEF OpToRel
<1> QED  BY <1>3

\* What the proofs use of the types of the WAL and of the stream.
WalForm ==
    /\ Len(wal) \in Nat /\ DOMAIN wal = 1 .. Len(wal)
    /\ \A i \in DOMAIN wal : wal[i].own \in BOOLEAN /\ wal[i].rows \in Nat
StreamForm ==
    /\ Len(stream) \in Nat /\ DOMAIN stream = 1 .. Len(stream)
    /\ \A s \in DOMAIN stream : stream[s] \in Nat \X Nat

LEMMA SeqForm ==
  ASSUME NEW S, NEW q \in Seq(S)
  PROVE  Len(q) \in Nat /\ DOMAIN q = 1 .. Len(q) /\ \A i \in DOMAIN q : q[i] \in S
OBVIOUS

LEMMA Forms ==
  ASSUME TypeOK
  PROVE  WalForm /\ StreamForm
<1>1. wal \in Seq(Entries) /\ stream \in Seq(Nat \X Nat)
  BY DEF TypeOK, ServerTypes, BrokerTypes
<1>2. MaxRows \in Nat
  BY BoundsAssumption
<1>3. /\ Len(wal) \in Nat /\ DOMAIN wal = 1 .. Len(wal)
      /\ \A i \in DOMAIN wal : wal[i] \in Entries
  BY <1>1, SeqForm
<1>4. \A i \in DOMAIN wal : wal[i].rows \in Nat
  BY <1>2, <1>3 DEF Entries
<1>5. \A i \in DOMAIN wal : wal[i].own \in BOOLEAN
  BY <1>3 DEF Entries
<1>6. /\ Len(stream) \in Nat /\ DOMAIN stream = 1 .. Len(stream)
      /\ \A s \in DOMAIN stream : stream[s] \in Nat \X Nat
  BY <1>1
<1> QED  BY <1>3, <1>4, <1>5, <1>6 DEF WalForm, StreamForm

LEMMA NextForms ==
  ASSUME TypeOK'
  PROVE  WalForm' /\ StreamForm'
<1>1. wal' \in Seq(Entries) /\ stream' \in Seq(Nat \X Nat)
  BY DEF TypeOK, ServerTypes, BrokerTypes
<1>2. MaxRows \in Nat
  BY BoundsAssumption
<1>3. /\ Len(wal') \in Nat /\ DOMAIN wal' = 1 .. Len(wal')
      /\ \A i \in DOMAIN wal' : wal'[i] \in Entries
  BY <1>1, SeqForm
<1>4. \A i \in DOMAIN wal' : wal'[i].rows \in Nat
  BY <1>2, <1>3 DEF Entries
<1>5. \A i \in DOMAIN wal' : wal'[i].own \in BOOLEAN
  BY <1>3 DEF Entries
<1>6. /\ Len(stream') \in Nat /\ DOMAIN stream' = 1 .. Len(stream')
      /\ \A s \in DOMAIN stream' : stream'[s] \in Nat \X Nat
  BY <1>1
<1> QED  BY <1>3, <1>4, <1>5, <1>6 DEF WalForm, StreamForm

\* Decoding passes over no transaction of this database.
LEMMA NextOwnIsNext ==
  ASSUME TypeOK, NEW p \in Nat, OwnAfter(p) # {}
  PROVE  /\ NextOwn(p) \in DOMAIN wal /\ p < NextOwn(p) /\ wal[NextOwn(p)].own
         /\ \A i \in (p + 1) .. (NextOwn(p) - 1) : ~wal[i].own
<1>0. WalForm
  BY Forms
<1>1. OwnAfter(p) \in SUBSET Nat
  BY <1>0 DEF WalForm, OwnAfter
<1>2. \E x \in OwnAfter(p) : \A y \in OwnAfter(p) : x <= y
  BY <1>1, LeastNatural
<1>3. NextOwn(p) \in OwnAfter(p) /\ \A j \in OwnAfter(p) : NextOwn(p) <= j
  BY <1>2 DEF NextOwn
<1>4. NextOwn(p) \in DOMAIN wal /\ p < NextOwn(p) /\ wal[NextOwn(p)].own
  BY <1>3 DEF OwnAfter
<1>5. ASSUME NEW i \in (p + 1) .. (NextOwn(p) - 1), wal[i].own  PROVE FALSE
  <2>1. i \in DOMAIN wal /\ i > p
    BY <1>0, <1>4, <1>5 DEF WalForm
  <2>2. i \in OwnAfter(p)
    BY <2>1, <1>5 DEF OwnAfter
  <2> QED  BY <2>2, <1>0, <1>3, <1>4, <1>5 DEF WalForm
<1> QED  BY <1>4, <1>5

\* settle_all counts acks up to the first that fails, and no others.
LEMMA SettledPrefix ==
  ASSUME TypeOK
  PROVE  /\ Settled \in Nat /\ Settled <= Len(held)
         /\ \A j \in 1 .. Settled : held[j]
<1> DEFINE S == {i \in DOMAIN held : \A j \in 1 .. i : held[j]}
<1> DEFINE F == {i \in DOMAIN held : ~held[i]}
<1>0. Len(held) \in Nat /\ DOMAIN held = 1 .. Len(held)
  BY DEF TypeOK
<1>1. \E n \in 0 .. Len(held) : S = 1 .. n /\ \A j \in 1 .. n : held[j]
  <2>1. CASE F = {}
    <3>1. \A j \in 1 .. Len(held) : held[j]
      BY <2>1, <1>0
    <3>2. S = 1 .. Len(held)
      BY <3>1, <1>0
    <3> QED  BY <3>1, <3>2, <1>0
  <2>2. CASE F # {}
    <3>1. F \in SUBSET Nat
      BY <1>0
    <3>2. PICK m \in F : \A y \in F : m <= y
      BY <2>2, <3>1, LeastNatural
    <3>3. m \in 1 .. Len(held) /\ ~held[m]
      BY <3>2, <1>0
    <3>4. \A j \in 1 .. (m - 1) : held[j]
      BY <3>2, <3>3, <1>0
    <3>5. S = 1 .. (m - 1)
      BY <3>3, <3>4, <1>0
    <3> QED  BY <3>3, <3>4, <3>5, <1>0
  <2> QED  BY <2>1, <2>2
<1>2. PICK n \in 0 .. Len(held) : S = 1 .. n /\ \A j \in 1 .. n : held[j]
  BY <1>1
<1>3. Cardinality(1 .. n) = n
  BY FS_Interval, <1>0
<1>4. Settled = n
  BY <1>2, <1>3 DEF Settled
<1> QED  BY <1>2, <1>4, <1>0

\* The WAL and the stream are only ever appended to.
Grows ==
    /\ Len(wal) <= Len(wal') /\ \A i \in DOMAIN wal : wal'[i] = wal[i]
    /\ Len(stream) <= Len(stream') /\ \A s \in DOMAIN stream : stream'[s] = stream[s]

LEMMA StaysOn ==
  ASSUME StreamForm, StreamForm', Grows, NEW e, On(e)
  PROVE  On(e)'
<1>1. PICK s \in DOMAIN stream : stream[s] = e
  BY DEF On
<1>2. s \in DOMAIN stream' /\ stream'[s] = e
  BY <1>1 DEF Grows, StreamForm
<1> QED  BY <1>2 DEF On

LEMMA StaysPublished ==
  ASSUME WalForm, StreamForm, StreamForm', Grows, NEW i \in DOMAIN wal, Published(i)
  PROVE  Published(i)'
<1>1. wal'[i] = wal[i] /\ wal[i].rows \in Nat
  BY DEF Grows, WalForm
<1>2. SUFFICES ASSUME NEW k \in 1 .. wal[i].rows
               PROVE  \E s \in DOMAIN stream' : stream'[s] = <<i, k>>
  BY <1>1 DEF Published
<1>3. PICK s \in DOMAIN stream : stream[s] = <<i, k>>
  BY <1>2 DEF Published
<1>4. s \in DOMAIN stream' /\ stream'[s] = <<i, k>>
  BY <1>3 DEF Grows, StreamForm
<1> QED  BY <1>4

-----------------------------------------------------------------------------
(* Types.  Each lemma says which parts a group of actions can disturb.      *)

LEMMA StoreTypes ==
  ASSUME BrokerTypes, NEW m \in Nat \X Nat, Store(m)
  PROVE  BrokerTypes'
BY DEF BrokerTypes, Store

LEMMA NoAcks == <<>> \in Seq(BOOLEAN)
OBVIOUS

LEMMA EndTypes ==
  ASSUME End
  PROVE  LoopTypes' /\ DrainTypes'
BY NoAcks DEF End, LoopTypes, DrainTypes

\* PostgreSQL and the reader's loop.
LEMMA LoopKeepsTypes ==
  ASSUME TypeOK,
         \/ SlotLost \/ SlotDropped \/ Restart \/ Crash \/ Shutdown \/ LoopTop \/ ReadGap
         \/ SlotDrift \/ Preflight \/ Poll \/ OpenSession \/ OpenFails \/ Sever
  PROVE  TypeOK'
<1> USE DEF TypeOK
<1>1. CASE SlotLost \/ SlotDropped
  <2>1. ServerTypes'
    BY <1>1 DEF ServerTypes, SlotLost, SlotDropped, Slots
  <2>2. BrokerTypes' /\ LoopTypes' /\ DrainTypes' /\ VerbTypes'
    BY <1>1 DEF BrokerTypes, LoopTypes, DrainTypes, VerbTypes, SlotLost, SlotDropped, NoSession,
       brokerVars, loopVars, drainVars
  <2> QED  BY <2>1, <2>2
<1>2. CASE Restart \/ LoopTop \/ ReadGap \/ Preflight \/ Poll \/ OpenFails
  <2>1. LoopTypes'
    BY <1>2 DEF LoopTypes, Restart, LoopTop, ReadGap, Preflight, Poll, OpenFails, Goto, WaitOut
  <2>2. ServerTypes' /\ BrokerTypes' /\ DrainTypes' /\ VerbTypes'
    BY <1>2 DEF ServerTypes, BrokerTypes, DrainTypes, VerbTypes, Restart, LoopTop, ReadGap,
       Preflight, Poll, OpenFails, slotVars, brokerVars, drainVars
  <2> QED  BY <2>1, <2>2
<1>3. CASE Crash \/ SlotDrift
  <2>1. LoopTypes' /\ DrainTypes'
    BY <1>3, EndTypes DEF Crash, SlotDrift
  <2>2. ServerTypes' /\ BrokerTypes' /\ VerbTypes'
    BY <1>3 DEF ServerTypes, BrokerTypes, VerbTypes, Crash, SlotDrift, slotVars, brokerVars
  <2> QED  BY <2>1, <2>2
<1>4. CASE Shutdown \/ Sever
  <2>1. LoopTypes' /\ DrainTypes'
    BY <1>4, EndTypes DEF Shutdown, Sever, EndWithFeedback
  <2>2. Larger(slot.confirmed, flushed) \in Nat
    BY DEF Larger, ServerTypes, DrainTypes, Slots
  <2>3. ServerTypes'
    BY <1>4, <2>2 DEF ServerTypes, Shutdown, Sever, EndWithFeedback, Confirmed, Slots
  <2>4. BrokerTypes' /\ VerbTypes'
    BY <1>4 DEF BrokerTypes, VerbTypes, Shutdown, Sever, EndWithFeedback, brokerVars
  <2> QED  BY <2>1, <2>3, <2>4
<1>5. CASE OpenSession
  <2>1. ServerTypes'
    BY <1>5, Forms DEF ServerTypes, OpenSession, NewSlot, Slots, WalForm
  <2>2. DrainTypes'
    <3>1. slot' \in Slots
      BY <2>1 DEF ServerTypes
    <3> QED  BY <1>5, <3>1 DEF DrainTypes, OpenSession, Slots
  <2>3. BrokerTypes' /\ LoopTypes' /\ VerbTypes'
    BY <1>5 DEF BrokerTypes, LoopTypes, VerbTypes, OpenSession, Goto, brokerVars
  <2> QED  BY <2>1, <2>2, <2>3
<1> QED  BY <1>1, <1>2, <1>3, <1>4, <1>5

\* The drain.
LEMMA DrainKeepsTypes ==
  ASSUME TypeOK,
         \/ ReceiveBegin \/ ReceiveCommit \/ (\E w \in 1 .. MaxWal : Keepalive(w)) \/ Feedback
         \/ ConnectionDrops \/ Reconnect
  PROVE  TypeOK'
<1>0. ServerTypes' /\ DrainTypes' /\ LoopTypes'
  <2> USE DEF TypeOK
  <2>1. CASE ReceiveBegin
    <3>1. NextOwn(cursor) \in Nat
      BY <2>1, NextOwnIsNext, Forms DEF ReceiveBegin, DrainTypes, WalForm
    <3> QED  BY <2>1, <3>1 DEF ServerTypes, DrainTypes, LoopTypes, ReceiveBegin, slotVars, loopVars
  <2>2. CASE ReceiveCommit
    BY <2>2 DEF ServerTypes, DrainTypes, LoopTypes, ReceiveCommit, Goto, slotVars
  <2>3. CASE \E w \in 1 .. MaxWal : Keepalive(w)
    BY <2>3, BoundsAssumption DEF ServerTypes, DrainTypes, LoopTypes, Keepalive, slotVars, loopVars
  <2>4. CASE Feedback
    <3>1. Larger(slot.confirmed, flushed) \in Nat
      BY DEF Larger, ServerTypes, DrainTypes, Slots
    <3>2. ServerTypes'
      BY <2>4, <3>1 DEF ServerTypes, Feedback, Confirmed, Slots
    <3> QED  BY <2>4, <3>2 DEF DrainTypes, LoopTypes, Feedback, loopVars, drainVars
  <2>5. CASE ConnectionDrops \/ Reconnect
    <3>1. Larger(flushed, slot.confirmed) \in Nat
      BY DEF Larger, ServerTypes, DrainTypes, Slots
    <3> QED
      BY <2>5, <3>1 DEF ServerTypes, DrainTypes, LoopTypes, ConnectionDrops, Reconnect, slotVars,
         loopVars
  <2> QED  BY <2>1, <2>2, <2>3, <2>4, <2>5
<1>1. BrokerTypes' /\ VerbTypes'
  BY DEF TypeOK, BrokerTypes, VerbTypes, ReceiveBegin, ReceiveCommit, Keepalive, Feedback,
     ConnectionDrops, Reconnect, brokerVars
<1> QED  BY <1>0, <1>1 DEF TypeOK

\* publish_txn.
LEMMA PublishKeepsTypes ==
  ASSUME TypeOK,
         \/ \E k \in 1 .. MaxRows : SendAcked(k)
         \/ \E stored, buffered \in BOOLEAN : SendUnacked(stored, buffered)
         \/ SendFails \/ (\E m \in late : LateArrives(m)) \/ SettleAll \/ Acknowledged
         \/ WindowExpires
  PROVE  TypeOK'
<1>1. CASE \E k \in 1 .. MaxRows : SendAcked(k)
  <2>1. BrokerTypes'
    BY <1>1, BoundsAssumption DEF TypeOK, BrokerTypes, DrainTypes, SendAcked, Store
  <2>2. DrainTypes'
    BY <1>1 DEF TypeOK, DrainTypes, SendAcked
  <2>3. ServerTypes' /\ LoopTypes' /\ VerbTypes'
    BY <1>1 DEF TypeOK, ServerTypes, LoopTypes, VerbTypes, SendAcked, slotVars, loopVars
  <2> QED  BY <2>1, <2>2, <2>3 DEF TypeOK
<1>2. CASE \E stored, buffered \in BOOLEAN : SendUnacked(stored, buffered)
  <2>1. PICK stored \in BOOLEAN, buffered \in BOOLEAN : SendUnacked(stored, buffered)
    BY <1>2
  <2>2. <<txn, NextRow>> \in Nat \X Nat
    BY DEF TypeOK, DrainTypes, NextRow
  <2>3. BrokerTypes'
    <3>1. CASE stored
      BY <2>1, <2>2, <3>1, StoreTypes DEF TypeOK, SendUnacked
    <3>2. CASE ~stored
      BY <2>1, <3>2 DEF TypeOK, BrokerTypes, SendUnacked, brokerVars
    <3> QED  BY <3>1, <3>2
  <2>4. DrainTypes'
    BY <2>1, <2>2 DEF TypeOK, DrainTypes, SendUnacked
  <2>5. ServerTypes' /\ LoopTypes' /\ VerbTypes'
    BY <2>1 DEF TypeOK, ServerTypes, LoopTypes, VerbTypes, SendUnacked, slotVars, loopVars
  <2> QED  BY <2>3, <2>4, <2>5 DEF TypeOK
<1>3. CASE \E m \in late : LateArrives(m)
  <2>1. PICK m \in late : LateArrives(m)
    BY <1>3
  <2>2. m \in Nat \X Nat
    BY DEF TypeOK, DrainTypes
  <2>3. BrokerTypes'
    BY <2>1, <2>2 DEF TypeOK, BrokerTypes, LateArrives, Store
  <2>4. DrainTypes'
    BY <2>1 DEF TypeOK, DrainTypes, LateArrives
  <2>5. ServerTypes' /\ LoopTypes' /\ VerbTypes'
    BY <2>1 DEF TypeOK, ServerTypes, LoopTypes, VerbTypes, LateArrives, slotVars, loopVars
  <2> QED  BY <2>3, <2>4, <2>5 DEF TypeOK
<1>4. CASE SettleAll \/ SendFails \/ Acknowledged
  <2>1. Settled \in Nat
    BY SettledPrefix
  <2>2. Larger(flushed, txn) \in Nat
    BY DEF Larger, TypeOK, DrainTypes
  <2>3. DrainTypes' /\ LoopTypes'
    <3>1. CASE SettleAll
      BY <2>1, <3>1, NoAcks DEF TypeOK, DrainTypes, LoopTypes, SettleAll, loopVars
    <3>2. CASE SendFails
      BY <3>2, NoAcks DEF TypeOK, DrainTypes, LoopTypes, SendFails, loopVars
    <3>3. CASE Acknowledged
      BY <2>2, <3>3 DEF TypeOK, DrainTypes, LoopTypes, Acknowledged, Goto
    <3> QED  BY <1>4, <3>1, <3>2, <3>3
  <2>4. ServerTypes' /\ BrokerTypes' /\ VerbTypes'
    BY <1>4 DEF TypeOK, ServerTypes, BrokerTypes, VerbTypes, SettleAll, SendFails, Acknowledged,
       slotVars, brokerVars
  <2> QED  BY <2>3, <2>4 DEF TypeOK
<1>5. CASE WindowExpires
  <2>1. BrokerTypes'
    BY <1>5 DEF TypeOK, BrokerTypes, WindowExpires
  <2>2. ServerTypes' /\ LoopTypes' /\ DrainTypes' /\ VerbTypes'
    BY <1>5 DEF TypeOK, ServerTypes, LoopTypes, DrainTypes, VerbTypes, WindowExpires, slotVars,
       loopVars, drainVars
  <2> QED  BY <2>1, <2>2 DEF TypeOK
<1> QED  BY <1>1, <1>2, <1>3, <1>4, <1>5

\* The two verbs.
LEMMA VerbKeepsTypes ==
  ASSUME TypeOK,
         \/ RecoverRead \/ RecoverEvents \/ RecoverDrop \/ RecoverCreate
         \/ RecoverPosition \/ RecoverInsert \/ RecoverFails \/ CloseGap
  PROVE  TypeOK'
<1>1. ServerTypes'
  <2>1. CASE RecoverCreate
    BY <2>1, Forms DEF TypeOK, ServerTypes, Slots, RecoverCreate, NewSlot, WalForm
  <2>2. CASE RecoverDrop
    BY <2>2 DEF TypeOK, ServerTypes, Slots, RecoverDrop
  <2>3. CASE ~(RecoverCreate \/ RecoverDrop)
    BY <2>3 DEF TypeOK, ServerTypes, RecoverRead, RecoverEvents, RecoverPosition, RecoverInsert,
       RecoverFails, CloseGap, slotVars
  <2> QED  BY <2>1, <2>2, <2>3
<1>2. ctl' \in Verbs
  <2>1. ctl \in Verbs /\ slot \in Slots /\ IdleCtl \in Verbs
    BY DEF TypeOK, VerbTypes, ServerTypes, IdleCtl, Verbs
  <2>2. LastEvent \in Nat
    BY Forms DEF LastEvent, StreamForm, TypeOK, BrokerTypes
  <2>3. CASE RecoverRead
    BY <2>1, <2>3 DEF RecoverRead, Verbs, Slots, IdleCtl
  <2>4. CASE RecoverEvents
    <3>1. PICK n \in Nat : ctl' = [ctl EXCEPT !.step = "drop", !.at = LastEvent, !.lsn = n]
      <4>1. ctl.lsn \in Nat /\ (LastEvent # 0 => LastEvent - 1 \in Nat)
        BY <2>1, <2>2 DEF Verbs
      <4> QED  BY <2>4, <4>1 DEF RecoverEvents
    <3> QED  BY <2>1, <2>2, <3>1 DEF Verbs
  <2>5. CASE RecoverDrop \/ RecoverCreate \/ RecoverPosition
    BY <2>1, <2>5 DEF RecoverDrop, RecoverCreate, RecoverPosition, Verbs, Slots
  <2>6. CASE RecoverInsert \/ RecoverFails \/ CloseGap
    BY <2>1, <2>6 DEF RecoverInsert, RecoverFails, CloseGap
  <2> QED  BY <2>3, <2>4, <2>5, <2>6
<1>3. gaps' \in Seq(GapRows)
  <2>1. gaps \in Seq(GapRows) /\ ctl \in Verbs
    BY DEF TypeOK, VerbTypes
  <2>2. CASE RecoverInsert
    <3>1. [base |-> ctl.base, start_lsn |-> ctl.lsn, start_at |-> ctl.at,
           end_lsn |-> ctl.to, closed |-> FALSE] \in GapRows
      BY <2>1 DEF Verbs, GapRows
    <3> QED  BY <2>1, <2>2, <3>1 DEF RecoverInsert
  <2>3. CASE CloseGap
    <3>1. Len(gaps) \in DOMAIN gaps /\ gaps[Len(gaps)] \in GapRows
      BY <2>1, <2>3, SeqForm DEF CloseGap, GapOpen
    <3>2. [gaps[Len(gaps)] EXCEPT !.closed = TRUE] \in GapRows
      BY <3>1 DEF GapRows
    <3> QED  BY <2>1, <2>3, <3>1, <3>2 DEF CloseGap
  <2>4. CASE ~(RecoverInsert \/ CloseGap)
    BY <2>1, <2>4 DEF RecoverRead, RecoverEvents, RecoverDrop, RecoverCreate, RecoverPosition,
       RecoverFails
  <2> QED  BY <2>2, <2>3, <2>4
<1>4. BrokerTypes' /\ LoopTypes' /\ DrainTypes'
  BY DEF TypeOK, BrokerTypes, LoopTypes, DrainTypes, RecoverRead, RecoverEvents, RecoverDrop,
     RecoverCreate, RecoverPosition, RecoverInsert, RecoverFails, CloseGap, brokerVars, loopVars,
     drainVars
<1> QED  BY <1>1, <1>2, <1>3, <1>4 DEF TypeOK, VerbTypes

\* The WAL.
LEMMA WriteKeepsTypes ==
  ASSUME TypeOK, NEW l \in Logs, Write(l)
  PROVE  TypeOK'
<1>1. l \in Seq(Entries)
  BY BoundsAssumption DEF Entries
<1>2. l[Len(wal) + 1] \in Entries
  BY <1>1, SeqForm, Forms DEF Write, WalForm
<1>3. wal' \in Seq(Entries)
  BY <1>2 DEF Write, TypeOK, ServerTypes
<1> QED
  BY <1>3 DEF TypeOK, ServerTypes, BrokerTypes, LoopTypes, DrainTypes, VerbTypes, Write, slotVars,
     brokerVars, loopVars, drainVars

LEMMA NextKeepsTypes ==
  ASSUME TypeOK, Next
  PROVE  TypeOK'
BY LoopKeepsTypes, DrainKeepsTypes, PublishKeepsTypes, VerbKeepsTypes, WriteKeepsTypes DEF Next

-----------------------------------------------------------------------------
(* Steps that leave the WAL and the stream alone.                           *)

\* What the proofs use of the types of the positions.
Positions ==
    /\ slot.from \in Nat /\ slot.confirmed \in Nat
    /\ cursor \in Nat /\ flushed \in Nat /\ txn \in Nat
    /\ acked \in Nat /\ Len(held) \in Nat /\ DOMAIN held = 1 .. Len(held)
    /\ ctl.base \in Nat /\ ctl.lsn \in Nat /\ ctl.at \in Nat /\ ctl.to \in Nat
    /\ late \subseteq Nat \X Nat

LEMMA PositionTypes ==
  ASSUME TypeOK
  PROVE  Positions
<1>1. slot.from \in Nat /\ slot.confirmed \in Nat
  BY DEF TypeOK, ServerTypes, Slots
<1>2. ctl.base \in Nat /\ ctl.lsn \in Nat /\ ctl.at \in Nat /\ ctl.to \in Nat
  BY DEF TypeOK, VerbTypes, Verbs
<1> QED  BY <1>1, <1>2 DEF TypeOK, DrainTypes, Positions

LEMMA Still ==
  ASSUME StreamOrdered, SlotOrdered, UNCHANGED <<wal, stream>>, slot'.from = slot.from
  PROVE  /\ StreamOrdered' /\ SlotOrdered'
         /\ Events /\ window' \subseteq window => Events'
         /\ Recovering /\ UNCHANGED ctl => Recovering'
         /\ GapRowMissesNone /\ UNCHANGED gaps => GapRowMissesNone'
         /\ LateOrdered /\ late' \subseteq late => LateOrdered'
         /\ ConfirmedPublished /\ slot'.confirmed = slot.confirmed => ConfirmedPublished'
<1>1. StreamOrdered'
  BY DEF StreamOrdered, Ordered
<1>2. SlotOrdered'
  <2>1. \A e : Ordered(e) => Ordered(e)'
    BY DEF Ordered
  <2> QED  BY <2>1 DEF SlotOrdered
<1>3. Events /\ window' \subseteq window => Events'
  BY DEF Events, On
<1>4. Recovering /\ UNCHANGED ctl => Recovering'
  BY DEF Recovering, Covered, Published
<1>5. GapRowMissesNone /\ UNCHANGED gaps => GapRowMissesNone'
  BY DEF GapRowMissesNone, Published
<1>6. LateOrdered /\ late' \subseteq late => LateOrdered'
  BY DEF LateOrdered, Ordered
<1>7. ConfirmedPublished /\ slot'.confirmed = slot.confirmed => ConfirmedPublished'
  BY DEF ConfirmedPublished, Published
<1> QED  BY <1>1, <1>2, <1>3, <1>4, <1>5, <1>6, <1>7

LEMMA SessionStill ==
  ASSUME FlushedPublished, CursorPublished, Buffered, TxnOrdered,
         UNCHANGED <<wal, stream, cursor, flushed, txn, late>>,
         slot'.from = slot.from, pc' = "publish" <=> pc = "publish"
  PROVE  /\ FlushedPublished' /\ CursorPublished' /\ Buffered' /\ TxnOrdered'
         /\ AcksPublished /\ UNCHANGED <<acked, held>> => AcksPublished'
<1>1. FlushedPublished'
  BY DEF FlushedPublished, Published
<1>2. CursorPublished'
  BY DEF CursorPublished, Published
<1>3. AcksPublished /\ UNCHANGED <<acked, held>> => AcksPublished'
  BY DEF AcksPublished, On
<1>4. Buffered'
  BY DEF Buffered, Waits, On, Published
<1>5. TxnOrdered'
  BY DEF TxnOrdered, Ordered
<1> QED  BY <1>1, <1>2, <1>3, <1>4, <1>5

\* The process ends: nothing of the session is left.
LEMMA Ends ==
  ASSUME Working, End, UNCHANGED <<wal, stream, window, gaps, ctl>>, slot'.from = slot.from,
         ConfirmedPublished', slot.confirmed <= slot'.confirmed, slot'.confirmed <= Len(wal),
         Positions, WalForm, slot'.confirmed \in Nat
  PROVE  Working'
<1> USE DEF Working, Order, Delivered
<1>1. /\ StreamOrdered' /\ SlotOrdered' /\ Events' /\ Recovering' /\ GapRowMissesNone'
      /\ LateOrdered'
  BY Still DEF End
<1>2. Places'
  BY DEF Places, End, Positions, WalForm
<1>3. Reading'
  BY DEF Reading, End
<1>4. FlushedPublished' /\ CursorPublished'
  BY DEF FlushedPublished, CursorPublished, End, Positions
<1>5. AcksPublished' /\ Buffered' /\ TxnOrdered'
  BY DEF AcksPublished, Buffered, TxnOrdered, End
<1> QED  BY <1>1, <1>2, <1>3, <1>4, <1>5

\* A step of the loop outside a session, of the slot or of the operator: what
\* is left to show is what it is about.
LEMMA Around ==
  ASSUME Working, UNCHANGED <<wal, stream, cursor, flushed, txn, acked, held, late>>,
         slot'.from = slot.from, window' \subseteq window, pc' = "publish" <=> pc = "publish",
         Places', Reading', ConfirmedPublished', Recovering', GapRowMissesNone'
  PROVE  Working'
<1> USE DEF Working, Order, Delivered
<1>1. StreamOrdered' /\ SlotOrdered' /\ Events' /\ LateOrdered'
  BY Still
<1>2. FlushedPublished' /\ CursorPublished' /\ AcksPublished' /\ Buffered' /\ TxnOrdered'
  BY SessionStill
<1> QED  BY <1>1, <1>2

\* The loop moves outside a session.
LEMMA LoopMoves ==
  ASSUME Inv, Restart \/ LoopTop \/ ReadGap \/ Preflight \/ Poll \/ OpenFails
  PROVE  Working'
<1> USE DEF Inv
<1>1. /\ UNCHANGED <<wal, slot, stream, window, gaps, ctl>>
      /\ UNCHANGED <<session, cursor, flushed, txn, acked, held, late>>
  BY DEF Restart, LoopTop, ReadGap, Preflight, Poll, OpenFails, slotVars, brokerVars, drainVars
<1>2. pc \notin {"drain", "publish"} /\ pc' \notin {"drain", "publish"}
  BY DEF Restart, LoopTop, ReadGap, Preflight, Poll, OpenFails, Goto, WaitOut
<1>3. Reading'
  BY <1>1, <1>2 DEF Reading, Working
<1>4. Places'
  BY <1>1 DEF Places, Working
<1>5. ConfirmedPublished' /\ Recovering' /\ GapRowMissesNone'
  BY <1>1, Still DEF Working, Order, Delivered
<1> QED  BY <1>1, <1>2, <1>3, <1>4, <1>5, Around

LEMMA CrashEnds ==
  ASSUME Inv, Crash \/ SlotDrift
  PROVE  Working'
<1>1. UNCHANGED <<wal, slot, stream, window, gaps, ctl>> /\ End
  BY DEF Crash, SlotDrift, slotVars, brokerVars
<1>2. Positions /\ WalForm
  BY PositionTypes, Forms DEF Inv
<1>3. ConfirmedPublished'
  BY <1>1, Still DEF Inv, Working, Order, Delivered
<1>4. slot.confirmed <= slot'.confirmed /\ slot'.confirmed <= Len(wal) /\ slot'.confirmed \in Nat
  BY <1>1, <1>2 DEF Inv, Working, Places, Positions, WalForm
<1> QED  BY <1>1, <1>2, <1>3, <1>4, Ends DEF Inv

\* A status update confirms what was acknowledged.
LEMMA Confirms ==
  ASSUME Inv, UNCHANGED <<wal, stream>>, slot' = Confirmed
  PROVE  /\ slot'.from = slot.from /\ slot'.state = slot.state
         /\ slot'.confirmed \in Nat /\ slot.confirmed <= slot'.confirmed
         /\ slot'.confirmed <= Len(wal) /\ ConfirmedPublished'
<1>1. Positions /\ WalForm
  BY PositionTypes, Forms DEF Inv
<1>2. /\ slot'.from = slot.from /\ slot'.state = slot.state
      /\ slot'.confirmed = Larger(slot.confirmed, flushed)
  BY DEF Confirmed, Inv, TypeOK, ServerTypes, Slots
<1>3. slot'.confirmed = slot.confirmed \/ slot'.confirmed = flushed
  BY <1>2 DEF Larger
<1>4. ConfirmedPublished'
  BY <1>2, <1>3 DEF Inv, Working, Delivered, ConfirmedPublished, FlushedPublished, Published
<1> QED  BY <1>1, <1>2, <1>4 DEF Larger, Inv, Working, Places, Positions, WalForm

LEMMA FeedbackEnds ==
  ASSUME Inv, EndWithFeedback
  PROVE  Working'
<1>1. UNCHANGED <<wal, stream, window, gaps, ctl>> /\ End /\ (slot' = Confirmed \/ slot' = slot)
  BY DEF EndWithFeedback, brokerVars
<1>2. Positions /\ WalForm
  BY PositionTypes, Forms DEF Inv
<1>3. CASE slot' = Confirmed
  BY <1>1, <1>2, <1>3, Confirms, Ends DEF Inv
<1>4. CASE slot' = slot
  <2>1. ConfirmedPublished'
    BY <1>1, <1>4, Still DEF Inv, Working, Order, Delivered
  <2>2. slot.confirmed <= slot'.confirmed /\ slot'.confirmed <= Len(wal) /\ slot'.confirmed \in Nat
    BY <1>4, <1>2 DEF Inv, Working, Places, Positions, WalForm
  <2> QED  BY <1>1, <1>2, <1>4, <2>1, <2>2, Ends DEF Inv
<1> QED  BY <1>1, <1>3, <1>4

LEMMA SlotMoves ==
  ASSUME Inv, SlotLost \/ SlotDropped \/ Feedback
  PROVE  Working'
<1> USE DEF Inv
<1>1. /\ UNCHANGED <<wal, stream, window, gaps, ctl>>
      /\ UNCHANGED <<pc, cursor, flushed, txn, acked, held, late>>
  BY DEF SlotLost, SlotDropped, Feedback, brokerVars, loopVars, drainVars
<1>2. Positions /\ WalForm
  BY PositionTypes, Forms
<1>3. /\ slot'.from = slot.from /\ slot'.confirmed \in Nat
      /\ slot.confirmed <= slot'.confirmed /\ slot'.confirmed <= Len(wal)
      /\ ConfirmedPublished'
      /\ Feedback => slot'.state = slot.state
  <2>1. CASE SlotLost \/ SlotDropped
    <3>1. slot'.from = slot.from /\ slot'.confirmed = slot.confirmed
      BY <2>1 DEF SlotLost, SlotDropped, TypeOK, ServerTypes, Slots
    <3>2. ConfirmedPublished'
      BY <1>1, <3>1, Still DEF Working, Order, Delivered
    <3>3. Feedback => slot'.state = slot.state
      BY <1>1, Confirms DEF Feedback
    <3> QED  BY <1>2, <3>1, <3>2, <3>3 DEF Working, Places, Positions, WalForm
  <2>2. CASE Feedback
    BY <1>1, <2>2, Confirms DEF Feedback
  <2> QED  BY <2>1, <2>2
<1>4. session' = session \/ session' = "broken"
  BY DEF SlotLost, SlotDropped, Feedback, drainVars
<1>5. session' \in {"idle", "mid"} => slot'.state = slot.state
  BY <1>3 DEF SlotLost, SlotDropped, Feedback, drainVars, NoSession, TypeOK, DrainTypes
<1>6. pc \notin {"drain", "publish"} => session' = "none"
  BY DEF SlotLost, SlotDropped, Feedback, drainVars, NoSession, Working, Reading
<1>7. Reading'
  BY <1>1, <1>3, <1>4, <1>5, <1>6 DEF Working, Reading
<1>8. Places'
  BY <1>1, <1>2, <1>3 DEF Working, Places, Positions, WalForm
<1>9. Recovering' /\ GapRowMissesNone'
  BY <1>1, <1>3, Still DEF Working, Order
<1> QED  BY <1>1, <1>3, <1>7, <1>8, <1>9, Around

LEMMA ConnectionMoves ==
  ASSUME Inv, ConnectionDrops
  PROVE  Working'
<1> USE DEF Inv
<1>1. /\ UNCHANGED <<wal, slot, stream, window, gaps, ctl>>
      /\ UNCHANGED <<pc, cursor, flushed, txn, acked, held, late>>
      /\ session' = "broken" /\ session \in {"idle", "mid"}
  BY DEF ConnectionDrops, slotVars, brokerVars, loopVars
<1>2. Reading' /\ Places'
  BY <1>1 DEF Working, Reading, Places
<1>3. ConfirmedPublished' /\ Recovering' /\ GapRowMissesNone'
  BY <1>1, Still DEF Working, Order, Delivered
<1> QED  BY <1>1, <1>2, <1>3, Around

LEMMA WindowMoves ==
  ASSUME Inv, WindowExpires
  PROVE  Working'
<1> USE DEF Inv
<1>1. /\ UNCHANGED <<wal, slot, stream, gaps, ctl>> /\ window' = {}
      /\ UNCHANGED <<pc, session, cursor, flushed, txn, acked, held, late>>
  BY DEF WindowExpires, slotVars, loopVars, drainVars
<1>2. Reading' /\ Places'
  BY <1>1 DEF Working, Reading, Places
<1>3. ConfirmedPublished' /\ Recovering' /\ GapRowMissesNone'
  BY <1>1, Still DEF Working, Order, Delivered
<1> QED  BY <1>1, <1>2, <1>3, Around

-----------------------------------------------------------------------------
(* The verbs.                                                               *)

\* The order of the stream makes its newest event a lower bound: what lies
\* before the transaction of that event, after the slot's first position, was
\* published.
LEMMA LastEventCovers ==
  ASSUME Inv
  PROVE  /\ LastEvent \in Nat /\ LastEvent <= Len(wal)
         /\ \A i \in (slot.from + 1) .. (LastEvent - 1) : Published(i)
<1>1. Positions /\ WalForm /\ StreamForm
  BY PositionTypes, Forms DEF Inv
<1>2. CASE stream = <<>>
  BY <1>1, <1>2 DEF LastEvent, Positions, WalForm
<1>3. CASE stream # <<>>
  <2>1. Len(stream) \in DOMAIN stream
    BY <1>1, <1>3 DEF StreamForm, Inv, TypeOK, BrokerTypes
  <2>2. LastEvent = stream[Len(stream)][1] /\ LastEvent \in Nat /\ LastEvent <= Len(wal)
    BY <1>1, <1>3, <2>1 DEF LastEvent, StreamForm, Inv, Working, Events
  <2>3. ASSUME NEW i \in (slot.from + 1) .. (LastEvent - 1)  PROVE Published(i)
    <3>1. i \in (slot.from + 1) .. Len(wal) /\ i < LastEvent
      BY <1>1, <2>2, <2>3 DEF Positions, WalForm
    <3>2. SUFFICES ASSUME NEW k \in 1 .. wal[i].rows
                   PROVE  \E s \in DOMAIN stream : stream[s] = <<i, k>>
      BY DEF Published
    <3>3. Ordered(<<i, k>>)
      BY <3>1, <3>2 DEF Inv, Working, Order, SlotOrdered
    <3>4. PICK c \in 1 .. (Len(stream) - 1) : stream[c] = <<i, k>>
      BY <2>1, <2>2, <3>1, <3>3 DEF Ordered
    <3> QED  BY <1>1, <3>4 DEF StreamForm
  <2> QED  BY <2>2, <2>3
<1> QED  BY <1>2, <1>3

LEMMA SameInterval ==
  ASSUME NEW a \in Nat, NEW b \in Nat, 1 .. a = 1 .. b
  PROVE  a = b
<1>1. a \in 1 .. a \/ a = 0
  OBVIOUS
<1>2. b \in 1 .. b \/ b = 0
  OBVIOUS
<1>3. a <= b
  BY <1>1
<1>4. b <= a
  BY <1>2
<1> QED  BY <1>3, <1>4

\* The variables that the verbs leave alone.
LEMMA VerbFrame ==
  ASSUME \/ RecoverRead \/ RecoverEvents \/ RecoverDrop \/ RecoverCreate
         \/ RecoverPosition \/ RecoverInsert \/ RecoverFails \/ CloseGap
  PROVE  UNCHANGED <<wal, stream, window, pc, session, cursor, flushed, txn, acked, held, late>>
BY DEF RecoverRead, RecoverEvents, RecoverDrop, RecoverCreate, RecoverPosition, RecoverInsert,
   RecoverFails, CloseGap, brokerVars, loopVars, drainVars

\* A verb that keeps the slot's positions: what is left is its own state.
LEMMA VerbMoves ==
  ASSUME Inv, UNCHANGED <<wal, stream, window, pc, session, cursor, flushed, txn, acked, held, late>>,
         slot'.from = slot.from, slot'.confirmed = slot.confirmed,
         slot'.state = slot.state \/ session \in {"none", "broken"},
         ctl'.lsn <= Len(wal), ctl'.at <= Len(wal), ctl'.to <= Len(wal),
         \A g \in DOMAIN gaps' : gaps'[g].end_lsn <= Len(wal),
         Recovering', GapRowMissesNone'
  PROVE  Working'
<1> USE DEF Inv
<1>1. Reading'
  BY DEF Working, Reading
<1>2. Places'
  BY DEF Working, Places
<1>3. ConfirmedPublished'
  BY Still DEF Working, Order, Delivered
<1> QED  BY <1>1, <1>2, <1>3, Around

LEMMA ReadMoves ==
  ASSUME Inv, RecoverRead \/ RecoverFails
  PROVE  Working'
<1> USE DEF Inv
<1>1. UNCHANGED <<slot, gaps>>
  BY DEF RecoverRead, RecoverFails, slotVars
<1>2. UNCHANGED <<wal, stream, window, pc, session, cursor, flushed, txn, acked, held, late>>
  BY VerbFrame
<1>3. Positions /\ WalForm
  BY PositionTypes, Forms
<1>4. /\ ctl'.at = 0 /\ ctl'.to = 0 /\ ctl'.lsn \in {0, slot.confirmed}
      /\ ctl'.step \in {"idle", "events"} /\ (ctl'.step = "events" => ctl'.lsn = slot.confirmed)
  <2>1. CASE RecoverRead
    BY <2>1 DEF RecoverRead, IdleCtl
  <2>2. CASE RecoverFails
    BY <2>2 DEF RecoverFails, IdleCtl
  <2> QED  BY <2>1, <2>2
<1>5. ctl'.lsn <= Len(wal) /\ ctl'.at <= Len(wal) /\ ctl'.to <= Len(wal)
  BY <1>3, <1>4 DEF Working, Places, Positions, WalForm
<1>6. \A g \in DOMAIN gaps' : gaps'[g].end_lsn <= Len(wal)
  BY <1>1 DEF Working, Places
<1>7. GapRowMissesNone'
  BY <1>1, <1>2, Still DEF Working, Order
<1>8. Recovering'
  BY <1>1, <1>2, <1>4 DEF Recovering, Working, Delivered, ConfirmedPublished, Published
<1> QED  BY <1>1, <1>2, <1>5, <1>6, <1>7, <1>8, VerbMoves

LEMMA EventsMoves ==
  ASSUME Inv, RecoverEvents
  PROVE  Working'
<1> USE DEF Inv
<1>1. UNCHANGED <<slot, gaps>>
  BY DEF RecoverEvents, slotVars
<1>2. UNCHANGED <<wal, stream, window, pc, session, cursor, flushed, txn, acked, held, late>>
  BY VerbFrame
<1>3. Positions /\ WalForm
  BY PositionTypes, Forms
<1>4. /\ ctl.step = "events" /\ ctl'.step = "drop" /\ ctl'.at = LastEvent /\ ctl'.to = ctl.to
      /\ ctl.reason = "lost" => ctl'.lsn = ctl.lsn
      /\ ctl.reason # "lost" => ctl'.lsn = IF LastEvent = 0 THEN 0 ELSE LastEvent - 1
  BY DEF RecoverEvents, TypeOK, VerbTypes, Verbs
<1>5. ctl'.lsn <= Len(wal) /\ ctl'.at <= Len(wal) /\ ctl'.to <= Len(wal)
  BY <1>3, <1>4, LastEventCovers DEF Working, Places, Positions, WalForm
<1>6. \A g \in DOMAIN gaps' : gaps'[g].end_lsn <= Len(wal)
  BY <1>1 DEF Working, Places
<1>7. GapRowMissesNone'
  BY <1>1, <1>2, Still DEF Working, Order
<1>8. ASSUME NEW i \in (slot.from + 1) .. Len(wal)
      PROVE  Published(i) \/ (i >= ctl'.at /\ i > ctl'.lsn)
  <2>1. i < LastEvent => Published(i)
    BY <1>3, LastEventCovers DEF Positions, WalForm
  <2>2. ctl.reason = "lost" /\ i <= ctl.lsn => Published(i)
    BY <1>3, <1>4 DEF Working, Recovering, Positions, WalForm
  <2> QED  BY <1>3, <1>4, <2>1, <2>2, LastEventCovers DEF Positions, WalForm
<1>9. \A i \in (slot.from + 1) .. Len(wal) : Published(i)' \/ (i >= ctl'.at /\ i > ctl'.lsn)
  <2>1. \A i : Published(i) => Published(i)'
    BY <1>2 DEF Published
  <2> QED  BY <1>8, <2>1
<1>10. Recovering'
  BY <1>1, <1>2, <1>4, <1>9 DEF Recovering, Covered
<1> QED  BY <1>1, <1>2, <1>5, <1>6, <1>7, <1>10, VerbMoves

LEMMA DropMoves ==
  ASSUME Inv, RecoverDrop
  PROVE  Working'
<1> USE DEF Inv
<1>1. /\ slot'.from = slot.from /\ slot'.confirmed = slot.confirmed
      /\ session \in {"none", "broken"} /\ UNCHANGED gaps
  BY DEF RecoverDrop, TypeOK, ServerTypes, Slots
<1>2. UNCHANGED <<wal, stream, window, pc, session, cursor, flushed, txn, acked, held, late>>
  BY VerbFrame
<1>3. /\ ctl.step = "drop" /\ ctl'.step = "create" /\ ctl'.base = slot.from
      /\ ctl'.at = ctl.at /\ ctl'.to = ctl.to /\ ctl'.lsn = ctl.lsn
  BY DEF RecoverDrop, TypeOK, VerbTypes, Verbs
<1>4. ctl'.lsn <= Len(wal) /\ ctl'.at <= Len(wal) /\ ctl'.to <= Len(wal)
  BY <1>3 DEF Working, Places
<1>5. \A g \in DOMAIN gaps' : gaps'[g].end_lsn <= Len(wal)
  BY <1>1 DEF Working, Places
<1>6. GapRowMissesNone'
  BY <1>1, <1>2, Still DEF Working, Order
<1>7. Recovering'
  BY <1>2, <1>3 DEF Working, Recovering, Covered, Published
<1> QED  BY <1>1, <1>2, <1>4, <1>5, <1>6, <1>7, VerbMoves

LEMMA PositionMoves ==
  ASSUME Inv, RecoverPosition
  PROVE  Working'
<1> USE DEF Inv
<1>1. UNCHANGED <<slot, gaps>>
  BY DEF RecoverPosition, slotVars
<1>2. UNCHANGED <<wal, stream, window, pc, session, cursor, flushed, txn, acked, held, late>>
  BY VerbFrame
<1>3. /\ ctl.step = "position" /\ ctl'.step = "insert" /\ ctl'.base = ctl.base
      /\ ctl'.at = ctl.at /\ ctl'.to = slot.confirmed /\ ctl'.lsn = ctl.lsn
  BY DEF RecoverPosition, TypeOK, VerbTypes, Verbs
<1>4. ctl'.lsn <= Len(wal) /\ ctl'.at <= Len(wal) /\ ctl'.to <= Len(wal)
  BY <1>3 DEF Working, Places
<1>5. \A g \in DOMAIN gaps' : gaps'[g].end_lsn <= Len(wal)
  BY <1>1 DEF Working, Places
<1>6. GapRowMissesNone'
  BY <1>1, <1>2, Still DEF Working, Order
<1>7. Recovering'
  BY <1>2, <1>3 DEF Working, Recovering, Covered, Published
<1> QED  BY <1>1, <1>2, <1>4, <1>5, <1>6, <1>7, VerbMoves

\* The row that commits is the one that was covered.
LEMMA InsertMoves ==
  ASSUME Inv, RecoverInsert
  PROVE  Working'
<1> USE DEF Inv
<1>1. UNCHANGED slot /\ ctl.step = "insert" /\ ctl' = IdleCtl
  BY DEF RecoverInsert, slotVars
<1>2. UNCHANGED <<wal, stream, window, pc, session, cursor, flushed, txn, acked, held, late>>
  BY VerbFrame
<1>3. Positions /\ WalForm
  BY PositionTypes, Forms
<1>4. /\ Len(gaps) \in Nat /\ DOMAIN gaps = 1 .. Len(gaps)
      /\ Len(gaps') = Len(gaps) + 1 /\ DOMAIN gaps' = 1 .. (Len(gaps) + 1)
      /\ \A g \in 1 .. Len(gaps) : gaps'[g] = gaps[g]
      /\ gaps'[Len(gaps) + 1] =
             [base |-> ctl.base, start_lsn |-> ctl.lsn, start_at |-> ctl.at,
              end_lsn |-> ctl.to, closed |-> FALSE]
  BY DEF RecoverInsert, TypeOK, VerbTypes
<1>5. ctl'.lsn <= Len(wal) /\ ctl'.at <= Len(wal) /\ ctl'.to <= Len(wal)
  BY <1>1, <1>3 DEF IdleCtl, WalForm
<1>6. \A g \in DOMAIN gaps' : gaps'[g].end_lsn <= Len(wal)
  BY <1>4 DEF Working, Places
<1>7. Recovering'
  BY <1>1 DEF Recovering, IdleCtl
<1>8. GapRowMissesNone'
  <2>1. SUFFICES ASSUME NEW g \in 1 .. (Len(gaps) + 1),
                        NEW i \in (gaps'[g].base + 1) .. gaps'[g].end_lsn
                 PROVE  Published(i) \/ (i >= gaps'[g].start_at /\ i > gaps'[g].start_lsn)
    <3>1. \A i : Published(i) => Published(i)'
      BY <1>2 DEF Published
    <3> QED  BY <1>4, <3>1 DEF GapRowMissesNone
  <2>2. CASE g \in 1 .. Len(gaps)
    BY <1>4, <2>1, <2>2 DEF Working, GapRowMissesNone
  <2>3. CASE g = Len(gaps) + 1
    <3>1. /\ gaps'[g].base = ctl.base /\ gaps'[g].end_lsn = ctl.to
          /\ gaps'[g].start_at = ctl.at /\ gaps'[g].start_lsn = ctl.lsn
      BY <1>4, <2>3
    <3>2. i \in (ctl.base + 1) .. Len(wal)
      BY <1>3, <3>1, <2>1 DEF Working, Places, Positions, WalForm
    <3>3. Published(i) \/ (i >= ctl.at /\ i > ctl.lsn)
      BY <1>1, <3>2 DEF Working, Recovering, Covered
    <3> QED  BY <3>1, <3>3
  <2> QED  BY <1>4, <2>1, <2>2, <2>3
<1> QED  BY <1>1, <1>2, <1>5, <1>6, <1>7, <1>8, VerbMoves

LEMMA CloseMoves ==
  ASSUME Inv, CloseGap
  PROVE  Working'
<1> USE DEF Inv
<1>1. UNCHANGED <<slot, ctl>>
  BY DEF CloseGap, slotVars
<1>2. UNCHANGED <<wal, stream, window, pc, session, cursor, flushed, txn, acked, held, late>>
  BY VerbFrame
<1>3. /\ DOMAIN gaps' = DOMAIN gaps /\ Len(gaps') = Len(gaps) /\ DOMAIN gaps = 1 .. Len(gaps)
      /\ \A g \in DOMAIN gaps :
             /\ gaps'[g].base = gaps[g].base /\ gaps'[g].end_lsn = gaps[g].end_lsn
             /\ gaps'[g].start_at = gaps[g].start_at /\ gaps'[g].start_lsn = gaps[g].start_lsn
  <2>1. gaps \in Seq(GapRows) /\ gaps' \in Seq(GapRows)
    BY VerbKeepsTypes DEF TypeOK, VerbTypes
  <2>2. DOMAIN gaps = 1 .. Len(gaps) /\ DOMAIN gaps' = 1 .. Len(gaps') /\ Len(gaps) \in Nat
        /\ Len(gaps') \in Nat /\ \A g \in DOMAIN gaps : gaps[g] \in GapRows
    BY <2>1, SeqForm
  <2>3. gaps' = [gaps EXCEPT ![Len(gaps)] = [gaps[Len(gaps)] EXCEPT !.closed = TRUE]]
    BY DEF CloseGap
  <2>4. DOMAIN gaps' = DOMAIN gaps
    BY <2>3
  <2>5. ASSUME NEW g \in DOMAIN gaps
        PROVE  /\ gaps'[g].base = gaps[g].base /\ gaps'[g].end_lsn = gaps[g].end_lsn
               /\ gaps'[g].start_at = gaps[g].start_at /\ gaps'[g].start_lsn = gaps[g].start_lsn
    <3>1. gaps[g] \in GapRows
      BY <2>2
    <3>2. gaps'[g] = gaps[g] \/ gaps'[g] = [gaps[g] EXCEPT !.closed = TRUE]
      BY <2>3
    <3> QED  BY <3>1, <3>2 DEF GapRows
  <2>6. Len(gaps') = Len(gaps)
    BY <2>2, <2>4, SameInterval
  <2> QED  BY <2>2, <2>4, <2>5, <2>6
<1>4. ctl'.lsn <= Len(wal) /\ ctl'.at <= Len(wal) /\ ctl'.to <= Len(wal)
  BY <1>1 DEF Working, Places
<1>5. \A g \in DOMAIN gaps' : gaps'[g].end_lsn <= Len(wal)
  BY <1>3 DEF Working, Places
<1>6. Recovering'
  BY <1>1, <1>2, Still DEF Working, Order
<1>7. GapRowMissesNone'
  BY <1>2, <1>3 DEF Working, GapRowMissesNone, Published
<1> QED  BY <1>1, <1>2, <1>4, <1>5, <1>6, <1>7, VerbMoves

\* A new slot owes nothing yet.
LEMMA SlotCreated ==
  ASSUME Inv, UNCHANGED <<wal, stream, window, gaps>>,
         slot'.from = Len(wal), slot'.confirmed = Len(wal)
  PROVE  /\ StreamOrdered' /\ SlotOrdered' /\ Events' /\ GapRowMissesNone' /\ ConfirmedPublished'
         /\ flushed' <= Len(wal) /\ flushed' \in Nat => FlushedPublished'
         /\ cursor' <= Len(wal) /\ cursor' \in Nat => CursorPublished'
<1>1. WalForm
  BY Forms DEF Inv
<1>2. StreamOrdered' /\ Events' /\ GapRowMissesNone'
  <2>1. StreamOrdered'
    BY DEF StreamOrdered, Ordered, Inv, Working, Order
  <2>2. Events'
    BY DEF Events, On, Inv, Working
  <2>3. GapRowMissesNone'
    BY DEF GapRowMissesNone, Published, Inv, Working
  <2> QED  BY <2>1, <2>2, <2>3
<1>3. SlotOrdered' /\ ConfirmedPublished'
  BY <1>1 DEF SlotOrdered, ConfirmedPublished, WalForm
<1>4. flushed' <= Len(wal) /\ flushed' \in Nat => FlushedPublished'
  BY <1>1 DEF FlushedPublished, WalForm
<1>5. cursor' <= Len(wal) /\ cursor' \in Nat => CursorPublished'
  BY <1>1 DEF CursorPublished, WalForm
<1> QED  BY <1>2, <1>3, <1>4, <1>5

LEMMA CreateMoves ==
  ASSUME Inv, RecoverCreate
  PROVE  Working'
<1> USE DEF Inv
<1>1. UNCHANGED <<wal, stream, window, pc, session, cursor, flushed, txn, acked, held, late>>
  BY VerbFrame
<1>2. Positions /\ WalForm
  BY PositionTypes, Forms
<1>3. /\ UNCHANGED gaps /\ ctl.step = "create" /\ ctl'.step = "position" /\ ctl'.base = ctl.base
      /\ ctl'.at = ctl.at /\ ctl'.to = ctl.to /\ ctl'.lsn = ctl.lsn
  BY DEF RecoverCreate, TypeOK, VerbTypes, Verbs
<1>4. ctl'.lsn <= Len(wal) /\ ctl'.at <= Len(wal) /\ ctl'.to <= Len(wal)
  BY <1>3 DEF Working, Places
<1>5. \A g \in DOMAIN gaps' : gaps'[g].end_lsn <= Len(wal)
  BY <1>3 DEF Working, Places
<1>6. Recovering'
  BY <1>1, <1>3 DEF Working, Recovering, Covered, Published
<1>7. CASE slot.state # "none"
  <2>1. UNCHANGED slot
    BY <1>7 DEF RecoverCreate
  <2>2. GapRowMissesNone'
    BY <1>1, <1>3, <2>1, Still DEF Working, Order
  <2> QED  BY <1>1, <1>4, <1>5, <1>6, <2>1, <2>2, VerbMoves
<1>8. CASE slot.state = "none"
  <2>1. slot'.from = Len(wal) /\ slot'.confirmed = Len(wal)
    BY <1>8 DEF RecoverCreate, NewSlot
  <2>2. /\ StreamOrdered' /\ SlotOrdered' /\ Events' /\ GapRowMissesNone' /\ ConfirmedPublished'
        /\ FlushedPublished' /\ CursorPublished'
    BY <1>1, <1>2, <1>3, <2>1, SlotCreated DEF Working, Places, Positions
  <2>3. session \notin {"idle", "mid"}
    BY <1>8 DEF Working, Reading
  <2>4. Reading'
    BY <1>1, <2>3 DEF Working, Reading
  <2>5. Places'
    BY <1>1, <1>2, <1>3, <2>1 DEF Working, Places, WalForm
  <2>6. AcksPublished' /\ TxnOrdered' /\ LateOrdered'
    <3>1. AcksPublished'
      BY <1>1 DEF AcksPublished, On, Working, Delivered
    <3>2. TxnOrdered' /\ LateOrdered'
      BY <1>1 DEF TxnOrdered, LateOrdered, Ordered, Working, Order
    <3> QED  BY <3>1, <3>2
  <2>7. Buffered'
    <3>1. SUFFICES ASSUME NEW e \in late
                   PROVE  /\ e[1] \in DOMAIN wal /\ e[2] \in 1 .. wal[e[1]].rows
                          /\ (On(e)' /\ e[1] <= flushed) \/ (pc = "publish" /\ e[1] = txn)
                          /\ \A i \in (Len(wal) + 1) .. (e[1] - 1) : Published(i)'
      BY <1>1, <2>1 DEF Buffered, Waits
    <3>2. /\ e[1] \in DOMAIN wal /\ e[2] \in 1 .. wal[e[1]].rows
          /\ (On(e) /\ e[1] <= flushed) \/ (pc = "publish" /\ e[1] = txn)
      BY DEF Working, Buffered, Waits
    <3>3. On(e) => On(e)'
      BY <1>1 DEF On
    <3>4. (Len(wal) + 1) .. (e[1] - 1) = {}
      BY <1>2, <3>2 DEF WalForm
    <3> QED  BY <3>2, <3>3, <3>4
  <2> QED  BY <1>6, <2>2, <2>4, <2>5, <2>6, <2>7 DEF Working, Order, Delivered
<1> QED  BY <1>7, <1>8

-----------------------------------------------------------------------------
(* The session.                                                             *)

LEMMA SessionOpens ==
  ASSUME Inv, OpenSession
  PROVE  Working'
<1> USE DEF Inv
<1>1. /\ UNCHANGED <<wal, stream, window, gaps, ctl, txn, late>>
      /\ pc = "open" /\ pc' = "drain" /\ session' = "idle"
      /\ cursor' = slot'.confirmed /\ flushed' = 0
  BY DEF OpenSession, Goto, brokerVars
<1>2. Positions /\ WalForm
  BY PositionTypes, Forms
<1>3. late = {}
  BY <1>1 DEF Working, Reading
<1>4. /\ slot'.state = "ok" /\ slot'.from \in Nat /\ slot'.confirmed \in Nat
      /\ slot'.from <= slot'.confirmed /\ slot'.confirmed <= Len(wal)
      /\ StreamOrdered' /\ SlotOrdered' /\ Events' /\ GapRowMissesNone' /\ ConfirmedPublished'
      /\ Recovering'
  <2>1. CASE slot.state = "none"
    <3>1. slot'.state = "ok" /\ slot'.from = Len(wal) /\ slot'.confirmed = Len(wal)
      BY <2>1 DEF OpenSession, NewSlot
    <3>2. Recovering'
      BY <1>1, <1>2, <3>1 DEF Working, Recovering, Covered, Published, Places, WalForm, Positions
    <3> QED  BY <1>1, <1>2, <3>1, <3>2, SlotCreated DEF WalForm
  <2>2. CASE slot.state # "none"
    <3>1. slot' = slot /\ slot.state = "ok"
      BY <2>2 DEF OpenSession, TypeOK, ServerTypes, Slots
    <3> QED  BY <1>1, <1>2, <3>1, Still DEF Working, Order, Delivered, Places, Positions
  <2> QED  BY <2>1, <2>2
<1>5. Places'
  BY <1>1, <1>2, <1>4 DEF Working, Places, WalForm
<1>6. Reading'
  BY <1>1, <1>3, <1>4 DEF Reading
<1>7. FlushedPublished' /\ CursorPublished'
  BY <1>1, <1>4 DEF FlushedPublished, CursorPublished, ConfirmedPublished
<1>8. AcksPublished' /\ Buffered' /\ TxnOrdered' /\ LateOrdered'
  BY <1>1, <1>3 DEF AcksPublished, Buffered, TxnOrdered, LateOrdered
<1> QED  BY <1>4, <1>5, <1>6, <1>7, <1>8 DEF Working, Order, Delivered

\* A transaction of another database, or with no published row, owes nothing.
LEMMA NothingToPublish ==
  ASSUME Events, WalForm, NEW i \in DOMAIN wal, ~wal[i].own
  PROVE  Published(i)
BY DEF Events, WalForm, Published

LEMMA Begins ==
  ASSUME Inv, ReceiveBegin
  PROVE  Working'
<1> USE DEF Inv
<1>1. /\ UNCHANGED <<wal, slot, stream, window, gaps, ctl, pc, cursor, flushed, late>>
      /\ pc = "drain" /\ session = "idle" /\ session' = "mid"
      /\ OwnAfter(cursor) # {} /\ txn' = NextOwn(cursor)
  BY DEF ReceiveBegin, slotVars, brokerVars, loopVars
<1>2. Positions /\ WalForm
  BY PositionTypes, Forms
<1>3. /\ txn' \in DOMAIN wal /\ cursor < txn' /\ wal[txn'].own
      /\ \A i \in (cursor + 1) .. (txn' - 1) : ~wal[i].own
  BY <1>1, <1>2, NextOwnIsNext DEF Positions
<1>4. /\ StreamOrdered' /\ SlotOrdered' /\ Events' /\ Recovering' /\ GapRowMissesNone'
      /\ LateOrdered' /\ ConfirmedPublished'
  BY <1>1, Still DEF Working, Order, Delivered
<1>5. Places'
  BY <1>1, <1>2, <1>3 DEF Working, Places, WalForm
<1>6. Reading'
  BY <1>1, <1>3 DEF Working, Reading
<1>7. FlushedPublished' /\ CursorPublished'
  BY <1>1 DEF FlushedPublished, CursorPublished, Published, Working, Delivered
<1>8. AcksPublished' /\ TxnOrdered'
  BY <1>1 DEF AcksPublished, TxnOrdered
<1>9. Buffered'
  BY <1>1 DEF Buffered, Waits, On, Published, Working
<1> QED  BY <1>4, <1>5, <1>6, <1>7, <1>8, <1>9 DEF Working, Order, Delivered

LEMMA Commits ==
  ASSUME Inv, ReceiveCommit
  PROVE  Working'
<1> USE DEF Inv
<1>1. /\ UNCHANGED <<wal, slot, stream, window, gaps, ctl, flushed, txn, late>>
      /\ pc = "drain" /\ pc' = "publish" /\ session = "mid" /\ session' = "idle"
      /\ cursor' = txn /\ acked' = 0 /\ held' = <<>>
  BY DEF ReceiveCommit, Goto, slotVars, brokerVars
<1>2. Positions /\ WalForm
  BY PositionTypes, Forms
<1>3. /\ txn \in DOMAIN wal /\ cursor < txn /\ wal[txn].own /\ flushed < txn
      /\ \A i \in (cursor + 1) .. (txn - 1) : ~wal[i].own
      /\ slot.state = "ok" /\ slot.from <= cursor
  <2>1. /\ cursor < txn /\ wal[txn].own /\ slot.state = "ok" /\ slot.from <= cursor
        /\ \A i \in (cursor + 1) .. (txn - 1) : ~wal[i].own
        /\ \A i \in (cursor + 1) .. flushed : ~wal[i].own
    BY <1>1 DEF Working, Reading
  <2>2. txn \in DOMAIN wal
    BY <1>2, <2>1 DEF Working, Places, Positions, WalForm
  <2> QED  BY <1>2, <2>1, <2>2 DEF Positions
<1>4. /\ StreamOrdered' /\ SlotOrdered' /\ Events' /\ Recovering' /\ GapRowMissesNone'
      /\ LateOrdered' /\ ConfirmedPublished'
  BY <1>1, Still DEF Working, Order, Delivered
<1>5. Places'
  BY <1>1 DEF Working, Places
<1>6. Reading'
  BY <1>1, <1>2, <1>3 DEF Reading, Positions
<1>7. FlushedPublished'
  BY <1>1 DEF FlushedPublished, Published, Working, Delivered
<1>8. CursorPublished'
  <2>1. ASSUME NEW i \in (slot.from + 1) .. txn, i # txn  PROVE Published(i)
    <3>1. CASE i <= cursor
      BY <1>1, <1>2, <2>1, <3>1 DEF Working, Delivered, CursorPublished, Positions
    <3>2. CASE i > cursor
      <4>1. i \in (cursor + 1) .. (txn - 1) /\ i \in DOMAIN wal
        BY <1>2, <1>3, <2>1, <3>2 DEF Positions, WalForm
      <4> QED  BY <1>2, <1>3, <4>1, NothingToPublish DEF Working
    <3> QED  BY <1>2, <3>1, <3>2 DEF Positions
  <2>2. \A i : Published(i) => Published(i)'
    BY <1>1 DEF Published
  <2> QED  BY <1>1, <2>1, <2>2 DEF CursorPublished
<1>9. AcksPublished'
  <2>1. wal[txn].rows \in Nat /\ Len(held') = 0 /\ DOMAIN held' = {}
    BY <1>1, <1>2, <1>3 DEF WalForm
  <2> QED  BY <1>1, <2>1 DEF AcksPublished
<1>10. Buffered'
  BY <1>1 DEF Buffered, Waits, On, Published, Working
<1>11. TxnOrdered'
  <2>1. txn \in (slot.from + 1) .. Len(wal)
    BY <1>2, <1>3 DEF Positions, WalForm
  <2>2. \A k \in 1 .. wal[txn].rows : Ordered(<<txn, k>>)
    BY <2>1 DEF Working, Order, SlotOrdered
  <2> QED  BY <1>1, <2>2 DEF TxnOrdered, Ordered
<1> QED
  BY <1>4, <1>5, <1>6, <1>7, <1>8, <1>9, <1>10, <1>11 DEF Working, Order, Delivered

LEMMA KeepaliveMoves ==
  ASSUME Inv, NEW w \in 1 .. MaxWal, Keepalive(w)
  PROVE  Working'
<1> USE DEF Inv
<1>1. /\ UNCHANGED <<wal, slot, stream, window, gaps, ctl, pc, session, cursor, txn, late>>
      /\ pc = "drain" /\ session = "idle" /\ w \in SentPositions(cursor)
      /\ w > flushed /\ flushed' = w
  BY DEF Keepalive, slotVars, brokerVars, loopVars
<1>2. Positions /\ WalForm
  BY PositionTypes, Forms
<1>3. w \in Nat /\ w <= Len(wal) /\ cursor <= w
  BY <1>1, <1>2 DEF SentPositions, Positions, WalForm
<1>4. \A i \in (cursor + 1) .. w : i \in DOMAIN wal /\ ~wal[i].own
  <2>1. SUFFICES ASSUME NEW i \in (cursor + 1) .. w, i \in DOMAIN wal => wal[i].own  PROVE FALSE
    OBVIOUS
  <2>2. i \in DOMAIN wal /\ i > cursor
    BY <1>2, <1>3, <2>1 DEF Positions, WalForm
  <2>3. i \in OwnAfter(cursor)
    BY <2>1, <2>2 DEF OwnAfter
  <2>4. w < i
    BY <1>1, <2>3 DEF SentPositions
  <2> QED  BY <1>2, <1>3, <2>1, <2>4 DEF Positions
<1>5. /\ StreamOrdered' /\ SlotOrdered' /\ Events' /\ Recovering' /\ GapRowMissesNone'
      /\ LateOrdered' /\ ConfirmedPublished'
  BY <1>1, Still DEF Working, Order, Delivered
<1>6. Places'
  BY <1>1, <1>3 DEF Working, Places
<1>7. Reading'
  BY <1>1, <1>4 DEF Working, Reading
<1>8. FlushedPublished'
  <2>1. ASSUME NEW i \in (slot.from + 1) .. w  PROVE Published(i)
    <3>1. CASE i <= cursor
      BY <1>1, <1>2, <2>1, <3>1 DEF Working, Delivered, CursorPublished, Positions
    <3>2. CASE i > cursor
      <4>1. i \in (cursor + 1) .. w
        BY <1>2, <1>3, <2>1, <3>2 DEF Positions
      <4> QED  BY <1>2, <1>4, <4>1, NothingToPublish DEF Working
    <3> QED  BY <1>2, <3>1, <3>2 DEF Positions
  <2>2. \A i : Published(i) => Published(i)'
    BY <1>1 DEF Published
  <2> QED  BY <1>1, <2>1, <2>2 DEF FlushedPublished
<1>9. CursorPublished' /\ AcksPublished' /\ TxnOrdered'
  BY <1>1 DEF CursorPublished, AcksPublished, TxnOrdered, Published, Working, Delivered
<1>10. Buffered'
  <2>1. ASSUME NEW e \in late  PROVE Waits(e)'
    <3>1. Waits(e) /\ e[1] \in Nat
      BY <1>2 DEF Working, Buffered, Positions
    <3>2. e[1] <= flushed => e[1] <= w
      BY <1>1, <1>2, <1>3, <3>1 DEF Positions
    <3> QED  BY <1>1, <3>1, <3>2 DEF Waits, On, Published
  <2> QED  BY <1>1, <2>1 DEF Buffered
<1> QED
  BY <1>5, <1>6, <1>7, <1>8, <1>9, <1>10 DEF Working, Order, Delivered

LEMMA Reconnects ==
  ASSUME Inv, Reconnect
  PROVE  Working'
<1> USE DEF Inv
<1>1. /\ UNCHANGED <<wal, slot, stream, window, gaps, ctl, pc, flushed, txn, late>>
      /\ pc = "drain" /\ slot.state = "ok" /\ session' = "idle"
      /\ cursor' = Larger(flushed, slot.confirmed)
  BY DEF Reconnect, slotVars, brokerVars, loopVars
<1>2. Positions /\ WalForm
  BY PositionTypes, Forms
<1>3. /\ cursor' \in Nat /\ slot.confirmed <= cursor' /\ flushed <= cursor'
      /\ cursor' = flushed \/ cursor' = slot.confirmed
  BY <1>1, <1>2 DEF Larger, Positions
<1>4. /\ StreamOrdered' /\ SlotOrdered' /\ Events' /\ Recovering' /\ GapRowMissesNone'
      /\ LateOrdered' /\ ConfirmedPublished'
  BY <1>1, Still DEF Working, Order, Delivered
<1>5. Places'
  BY <1>1, <1>3 DEF Working, Places
<1>6. Reading'
  <2>1. slot.from <= cursor'
    BY <1>2, <1>3 DEF Working, Places, Positions
  <2>2. \A i \in (cursor' + 1) .. flushed : FALSE
    <3>1. PICK c, f : c = cursor' /\ f = flushed
      OBVIOUS
    <3>2. c \in Nat /\ f \in Nat /\ f <= c
      BY <1>2, <1>3, <3>1 DEF Positions
    <3>3. \A i \in (c + 1) .. f : FALSE
      BY <3>2
    <3> QED  BY <3>1, <3>3
  <2> QED  BY <1>1, <2>1, <2>2 DEF Reading
<1>7. FlushedPublished' /\ CursorPublished'
  <2>1. FlushedPublished'
    BY <1>1 DEF FlushedPublished, Published, Working, Delivered
  <2>2. CursorPublished'
    <3>1. \A i \in (slot.from + 1) .. cursor' : Published(i)
      BY <1>3 DEF FlushedPublished, ConfirmedPublished, Working, Delivered
    <3>2. \A i : Published(i) => Published(i)'
      BY <1>1 DEF Published
    <3> QED  BY <1>1, <3>1, <3>2 DEF CursorPublished
  <2> QED  BY <2>1, <2>2
<1>8. AcksPublished' /\ TxnOrdered'
  BY <1>1 DEF AcksPublished, TxnOrdered
<1>9. Buffered'
  BY <1>1 DEF Buffered, Waits, On, Published, Working
<1> QED  BY <1>4, <1>5, <1>6, <1>7, <1>8, <1>9 DEF Working, Order, Delivered

-----------------------------------------------------------------------------
(* publish_txn.                                                             *)

LEMMA StoreForm ==
  ASSUME TypeOK, Events, NEW m \in Nat \X Nat, Store(m)
  PROVE  \/ stream' = stream /\ On(m)
         \/ /\ Len(stream') = Len(stream) + 1 /\ DOMAIN stream' = 1 .. (Len(stream) + 1)
            /\ stream'[Len(stream) + 1] = m
            /\ \A s \in DOMAIN stream : stream'[s] = stream[s]
<1>1. CASE m \in window
  BY <1>1 DEF Store, Events
<1>2. CASE m \notin window
  <2>1. stream' = Append(stream, m) /\ stream \in Seq(Nat \X Nat)
    BY <1>2 DEF Store, TypeOK, BrokerTypes
  <2> QED  BY <2>1
<1> QED  BY <1>1, <1>2

\* A stored event is on the stream, and what was there stays.
LEMMA StoreGrows ==
  ASSUME TypeOK, Events, NEW m \in Nat \X Nat, Store(m), UNCHANGED wal
  PROVE  StreamForm' /\ Grows /\ On(m)'
<1>0. StreamForm /\ WalForm
  BY Forms
<1>1. CASE stream' = stream /\ On(m)
  BY <1>0, <1>1 DEF StreamForm, WalForm, Grows, On
<1>2. CASE /\ Len(stream') = Len(stream) + 1 /\ DOMAIN stream' = 1 .. (Len(stream) + 1)
           /\ stream'[Len(stream) + 1] = m
           /\ \A s \in DOMAIN stream : stream'[s] = stream[s]
  <2>1. Grows
    BY <1>0, <1>2 DEF StreamForm, WalForm, Grows
  <2>2. StreamForm'
    BY <1>0, <1>2 DEF StreamForm
  <2>3. On(m)'
    BY <1>0, <1>2 DEF StreamForm, On
  <2> QED  BY <2>1, <2>2, <2>3
<1> QED  BY <1>1, <1>2, StoreForm

\* Storing m keeps e in order when m is not of a later transaction, or e is
\* there already.
LEMMA StoreOrders ==
  ASSUME TypeOK, Events, NEW m \in Nat \X Nat, Store(m),
         NEW e \in Nat \X Nat, Ordered(e), On(e) \/ m[1] <= e[1]
  PROVE  Ordered(e)'
<1>0. StreamForm
  BY Forms
<1>1. CASE stream' = stream
  BY <1>1 DEF Ordered
<1>2. CASE /\ Len(stream') = Len(stream) + 1 /\ DOMAIN stream' = 1 .. (Len(stream) + 1)
           /\ stream'[Len(stream) + 1] = m
           /\ \A s \in DOMAIN stream : stream'[s] = stream[s]
  <2>1. SUFFICES ASSUME NEW a \in 1 .. (Len(stream) + 1), stream'[a][1] > e[1]
                 PROVE  \E c \in 1 .. (a - 1) : stream'[c] = e
    BY <1>2 DEF Ordered
  <2>2. CASE a \in DOMAIN stream
    <3>1. PICK c \in 1 .. (a - 1) : stream[c] = e
      BY <1>2, <2>1, <2>2 DEF Ordered
    <3>2. c \in DOMAIN stream
      BY <1>0, <2>2, <3>1 DEF StreamForm
    <3> QED  BY <1>2, <3>1, <3>2
  <2>3. CASE a = Len(stream) + 1
    <3>1. On(e)
      BY <1>2, <2>1, <2>3
    <3>2. PICK c \in DOMAIN stream : stream[c] = e
      BY <3>1 DEF On
    <3>3. c \in 1 .. (a - 1)
      BY <1>0, <2>3, <3>2 DEF StreamForm
    <3> QED  BY <1>2, <3>2, <3>3
  <2> QED  BY <1>0, <2>1, <2>2, <2>3 DEF StreamForm
<1> QED  BY <1>1, <1>2, StoreForm

\* Everything but the acks and the buffer, after m was stored.
LEMMA StoreMoves ==
  ASSUME Inv, NEW m \in Nat \X Nat, Store(m), Ordered(m), m[1] <= Len(wal),
         UNCHANGED <<wal, slot, pc, session, cursor, flushed, txn, gaps, ctl>>,
         pc \in {"drain", "publish"}, pc = "publish" => m[1] <= txn,
         \A i \in (slot.from + 1) .. (m[1] - 1) : Published(i)
  PROVE  /\ Places' /\ Events' /\ Reading' /\ ConfirmedPublished' /\ FlushedPublished'
         /\ CursorPublished' /\ StreamOrdered' /\ SlotOrdered' /\ TxnOrdered' /\ Recovering'
         /\ GapRowMissesNone' /\ \A e \in late : Waits(e)' /\ Ordered(e)'
<1> USE DEF Inv
<1>1. Positions /\ WalForm /\ StreamForm /\ Events
  BY PositionTypes, Forms DEF Working
<1>2. StreamForm' /\ Grows /\ On(m)'
  BY <1>1, StoreGrows
<1>3. \A i \in DOMAIN wal : Published(i) => Published(i)'
  BY <1>1, <1>2, StaysPublished
<1>4. \A e : On(e) => On(e)'
  BY <1>1, <1>2, StaysOn
<1>5. Places' /\ Reading'
  BY DEF Working, Places, Reading
<1>6. Events'
  <2>1. \A s \in DOMAIN stream' : stream'[s][1] <= Len(wal)
    BY <1>1, StoreForm DEF Events, StreamForm
  <2>2. \A e \in window' : On(e)'
    BY <1>1, <1>2, <1>4 DEF Events, Store
  <2> QED  BY <1>1, <2>1, <2>2 DEF Events
<1>7. ConfirmedPublished'
  <2>1. \A i \in (slot.from + 1) .. slot.confirmed : i \in DOMAIN wal /\ Published(i)
    BY <1>1 DEF Working, Delivered, ConfirmedPublished, Places, Positions, WalForm
  <2> QED  BY <1>3, <2>1 DEF ConfirmedPublished
<1>8. FlushedPublished'
  <2>1. \A i \in (slot.from + 1) .. flushed : i \in DOMAIN wal /\ Published(i)
    BY <1>1 DEF Working, Delivered, FlushedPublished, Places, Positions, WalForm
  <2> QED  BY <1>3, <2>1 DEF FlushedPublished
<1>9. CursorPublished'
  <2>1. \A i \in (slot.from + 1) .. cursor :
            i \in DOMAIN wal /\ (Published(i) \/ (pc = "publish" /\ i = txn))
    BY <1>1 DEF Working, Delivered, CursorPublished, Places, Positions, WalForm
  <2> QED  BY <1>3, <2>1 DEF CursorPublished
<1>10. StreamOrdered'
  <2>1. Ordered(m)'
    BY <1>1, StoreOrders
  <2>2. \A s \in DOMAIN stream : Ordered(stream[s])'
    <3>1. SUFFICES ASSUME NEW s \in DOMAIN stream, NEW e, e = stream[s]  PROVE Ordered(e)'
      BY <1>2 DEF Grows, Ordered
    <3>2. e \in Nat \X Nat /\ Ordered(e) /\ On(e)
      BY <1>1, <3>1 DEF StreamForm, On, Working, Order, StreamOrdered
    <3> QED  BY <1>1, <3>2, StoreOrders
  <2>3. ASSUME NEW s \in DOMAIN stream'
        PROVE  \E e : e = stream'[s] /\ Ordered(e)'
    <3>1. CASE s \in DOMAIN stream
      BY <1>2, <2>2, <3>1 DEF Grows, Ordered
    <3>2. CASE s \notin DOMAIN stream
      <4>1. stream'[s] = m
        BY <1>1, <2>3, <3>2, StoreForm DEF StreamForm
      <4> QED  BY <2>1, <4>1
    <3> QED  BY <3>1, <3>2
  <2> QED  BY <2>3 DEF StreamOrdered, Ordered
<1>11. SlotOrdered'
  <2>1. SUFFICES ASSUME NEW i \in (slot.from + 1) .. Len(wal), NEW k \in 1 .. wal[i].rows
                 PROVE  Ordered(<<i, k>>)'
    BY DEF SlotOrdered
  <2>2. Ordered(<<i, k>>) /\ <<i, k>> \in Nat \X Nat /\ <<i, k>>[1] = i
    <3>1. Ordered(<<i, k>>)
      BY <2>1 DEF Working, Order, SlotOrdered
    <3>2. i \in Nat /\ i \in DOMAIN wal
      BY <1>1, <2>1 DEF Positions, WalForm
    <3>3. k \in Nat
      BY <1>1, <2>1, <3>2 DEF WalForm
    <3> QED  BY <3>1, <3>2, <3>3
  <2>3. CASE m[1] <= i
    BY <1>1, <2>2, <2>3, StoreOrders
  <2>4. CASE i < m[1]
    <3>1. Published(i)
      BY <1>1, <2>1, <2>4 DEF Positions, WalForm
    <3>2. On(<<i, k>>)
      BY <3>1, <2>1 DEF Published, On
    <3> QED  BY <1>1, <2>2, <3>2, StoreOrders
  <2> QED  BY <1>1, <2>1, <2>3, <2>4 DEF Positions, WalForm
<1>12. TxnOrdered'
  <2>1. SUFFICES ASSUME pc = "publish", NEW k \in 1 .. wal[txn].rows, NEW i, i = txn
                 PROVE  Ordered(<<i, k>>)'
    BY DEF TxnOrdered, Ordered
  <2>2. txn \in DOMAIN wal /\ wal[txn].rows \in Nat
    <3>1. 1 <= txn /\ txn <= Len(wal)
      BY <2>1 DEF Working, Reading, Places
    <3> QED  BY <1>1, <3>1 DEF Positions, WalForm
  <2>3. Ordered(<<i, k>>) /\ <<i, k>> \in Nat \X Nat /\ <<i, k>>[1] = i /\ m[1] <= i
    BY <1>1, <2>1, <2>2 DEF Working, Order, TxnOrdered, Positions
  <2> QED  BY <1>1, <2>3, StoreOrders
<1>13. Recovering'
  <2>1. ctl.step = "events" /\ ctl.reason = "lost" =>
            \A i \in (slot.from + 1) .. ctl.lsn : i \in DOMAIN wal /\ Published(i)
    BY <1>1 DEF Working, Recovering, Places, Positions, WalForm
  <2>2. ctl.step = "drop" => \A i \in (slot.from + 1) .. Len(wal) :
            i \in DOMAIN wal /\ (Published(i) \/ (i >= ctl.at /\ i > ctl.lsn))
    BY <1>1 DEF Working, Recovering, Covered, Positions, WalForm
  <2>3. ctl.step \in {"create", "position", "insert"} => \A i \in (ctl.base + 1) .. Len(wal) :
            i \in DOMAIN wal /\ (Published(i) \/ (i >= ctl.at /\ i > ctl.lsn))
    BY <1>1 DEF Working, Recovering, Covered, Positions, WalForm
  <2> QED  BY <1>3, <2>1, <2>2, <2>3 DEF Recovering, Covered
<1>14. GapRowMissesNone'
  <2>1. \A g \in 1 .. Len(gaps) : gaps[g].base \in Nat /\ gaps[g].end_lsn \in Nat
                                  /\ gaps[g].end_lsn <= Len(wal)
    <3>1. gaps \in Seq(GapRows)
      BY DEF TypeOK, VerbTypes
    <3>2. DOMAIN gaps = 1 .. Len(gaps) /\ \A g \in DOMAIN gaps : gaps[g] \in GapRows
      BY <3>1, SeqForm
    <3> QED  BY <3>2 DEF GapRows, Working, Places
  <2>2. \A g \in 1 .. Len(gaps) : \A i \in (gaps[g].base + 1) .. gaps[g].end_lsn : i \in DOMAIN wal
    BY <1>1, <2>1 DEF WalForm
  <2> QED  BY <1>3, <2>2 DEF Working, GapRowMissesNone
<1>15. ASSUME NEW e \in late  PROVE Waits(e)' /\ Ordered(e)'
  <2>1. Waits(e) /\ Ordered(e) /\ e \in Nat \X Nat /\ e[1] \in Nat /\ e[1] \in DOMAIN wal
    BY <1>1 DEF Working, Buffered, Waits, Order, LateOrdered, Positions
  <2>2. Waits(e)'
    <3>1. \A i \in (slot.from + 1) .. (e[1] - 1) : i \in DOMAIN wal /\ Published(i)
      BY <1>1, <2>1 DEF Waits, WalForm, Positions
    <3> QED  BY <1>3, <1>4, <2>1, <3>1 DEF Waits
  <2>3. On(e) \/ m[1] <= e[1]
    BY <2>1 DEF Waits
  <2> QED  BY <1>1, <2>1, <2>2, <2>3, StoreOrders
<1> QED
  BY <1>5, <1>6, <1>7, <1>8, <1>9, <1>10, <1>11, <1>12, <1>13, <1>14, <1>15

\* The transaction that is being published, and the row that is sent next.
LEMMA Publishing ==
  ASSUME Inv, pc = "publish"
  PROVE  /\ txn \in DOMAIN wal /\ txn \in Nat /\ txn <= Len(wal) /\ wal[txn].rows \in Nat
         /\ flushed < txn /\ \A i \in (slot.from + 1) .. (txn - 1) : Published(i)
         /\ NextRow \in Nat \ {0}
<1>1. Positions /\ WalForm
  BY PositionTypes, Forms DEF Inv
<1>2. 1 <= txn /\ txn <= Len(wal) /\ cursor = txn /\ flushed < txn
  BY DEF Inv, Working, Reading, Places
<1>3. txn \in DOMAIN wal /\ wal[txn].rows \in Nat
  BY <1>1, <1>2 DEF Positions, WalForm
<1>4. \A i \in (slot.from + 1) .. (txn - 1) : Published(i)
  BY <1>1, <1>2 DEF Inv, Working, Delivered, CursorPublished, Positions
<1>5. NextRow \in Nat \ {0}
  BY <1>1 DEF NextRow, Positions
<1> QED  BY <1>1, <1>2, <1>3, <1>4, <1>5 DEF Positions

\* Row k of txn is sent and stored, and its ack, whatever it says, is held.
LEMMA SendMoves ==
  ASSUME Inv, MaySend, NEW k, k = NextRow, Store(<<txn, k>>), NEW ack \in BOOLEAN,
         held' = Append(held, ack),
         UNCHANGED <<wal, slot, pc, session, cursor, flushed, txn, acked, late, gaps, ctl>>
  PROVE  Working'
<1> USE DEF Inv
<1>1. pc = "publish" /\ k <= wal[txn].rows
  BY DEF MaySend
<1>2. /\ txn \in DOMAIN wal /\ txn \in Nat /\ txn <= Len(wal) /\ wal[txn].rows \in Nat
      /\ \A i \in (slot.from + 1) .. (txn - 1) : Published(i)
      /\ k \in Nat \ {0}
  BY <1>1, Publishing
<1>3. PICK m : m = <<txn, k>>
  OBVIOUS
<1>4. m \in Nat \X Nat /\ m[1] = txn /\ Store(m)
  BY <1>2, <1>3
<1>5. Ordered(m)
  <2>1. k \in 1 .. wal[txn].rows
    BY <1>1, <1>2
  <2> QED  BY <1>1, <1>3, <2>1 DEF Working, Order, TxnOrdered
<1>6. /\ Places' /\ Events' /\ Reading' /\ ConfirmedPublished' /\ FlushedPublished'
      /\ CursorPublished' /\ StreamOrdered' /\ SlotOrdered' /\ TxnOrdered' /\ Recovering'
      /\ GapRowMissesNone' /\ \A e \in late : Waits(e)' /\ Ordered(e)'
  BY <1>1, <1>2, <1>4, <1>5, StoreMoves
<1>7. Buffered' /\ LateOrdered'
  BY <1>6 DEF Buffered, LateOrdered
<1>8. AcksPublished'
  <2>1. Positions /\ StreamForm /\ Events
    BY PositionTypes, Forms DEF Working
  <2>2. StreamForm' /\ Grows /\ On(m)'
    BY <1>4, <2>1, StoreGrows
  <2>3. \A e : On(e) => On(e)'
    BY <2>1, <2>2, StaysOn
  <2>4. /\ Len(held') = Len(held) + 1 /\ DOMAIN held' = 1 .. (Len(held) + 1)
        /\ \A j \in 1 .. Len(held) : held'[j] = held[j]
    BY DEF TypeOK, DrainTypes
  <2>5. k = acked + Len(held) + 1
    BY DEF NextRow
  <2>6. acked' + Len(held') <= wal'[txn'].rows
    BY <1>1, <1>2, <2>1, <2>4, <2>5 DEF Positions
  <2>7. ASSUME NEW n \in 1 .. acked  PROVE On(<<txn, n>>)'
    BY <1>1, <2>3 DEF Working, Delivered, AcksPublished, On
  <2>8. ASSUME NEW j \in 1 .. (Len(held) + 1), held'[j]  PROVE On(<<txn, acked + j>>)'
    <3>1. CASE j \in 1 .. Len(held)
      <4>1. On(<<txn, acked + j>>)
        BY <1>1, <2>1, <2>4, <2>8, <3>1 DEF Working, Delivered, AcksPublished, Positions
      <4> QED  BY <2>3, <4>1 DEF On
    <3>2. CASE j = Len(held) + 1
      <4>1. acked + j = k
        BY <2>1, <2>5, <3>2 DEF Positions
      <4> QED  BY <1>3, <2>2, <4>1 DEF On
    <3> QED  BY <2>1, <2>8, <3>1, <3>2 DEF Positions
  <2> QED  BY <2>4, <2>6, <2>7, <2>8 DEF AcksPublished, On
<1> QED  BY <1>6, <1>7, <1>8 DEF Working, Order, Delivered

LEMMA UnackedMoves ==
  ASSUME Inv, NEW stored \in BOOLEAN, NEW buffered \in BOOLEAN, SendUnacked(stored, buffered)
  PROVE  Working'
<1> USE DEF Inv
<1>1. /\ MaySend /\ held' = Append(held, FALSE)
      /\ UNCHANGED <<wal, slot, pc, session, cursor, flushed, txn, acked, gaps, ctl>>
  BY DEF SendUnacked, slotVars, loopVars
<1>2. CASE stored
  <2>1. Store(<<txn, NextRow>>) /\ late' = late
    BY <1>2 DEF SendUnacked
  <2> QED  BY <1>1, <2>1, SendMoves
<1>3. CASE ~stored
  <2>1. UNCHANGED <<stream, window>> /\ late' \subseteq late \cup {<<txn, NextRow>>}
    BY <1>3 DEF SendUnacked, brokerVars
  <2>2. pc = "publish" /\ NextRow <= wal[txn].rows
    BY <1>1 DEF MaySend
  <2>3. /\ txn \in DOMAIN wal /\ txn \in Nat /\ wal[txn].rows \in Nat
        /\ \A i \in (slot.from + 1) .. (txn - 1) : Published(i)
        /\ NextRow \in Nat \ {0}
    BY <2>2, Publishing
  <2>4. /\ StreamOrdered' /\ SlotOrdered' /\ Events' /\ Recovering' /\ GapRowMissesNone'
        /\ ConfirmedPublished'
    BY <1>1, <2>1, Still DEF Working, Order, Delivered
  <2>5. Places' /\ Reading'
    BY <1>1, <2>2 DEF Working, Places, Reading
  <2>6. FlushedPublished' /\ CursorPublished' /\ TxnOrdered'
    <3>1. FlushedPublished' /\ CursorPublished'
      BY <1>1, <2>1 DEF FlushedPublished, CursorPublished, Published, Working, Delivered
    <3>2. TxnOrdered'
      BY <1>1, <2>1 DEF TxnOrdered, Ordered, Working, Order
    <3> QED  BY <3>1, <3>2
  <2>7. AcksPublished'
    <3>1. Positions
      BY PositionTypes
    <3>2. /\ Len(held') = Len(held) + 1 /\ DOMAIN held' = 1 .. (Len(held) + 1)
          /\ \A j \in 1 .. Len(held) : held'[j] = held[j]
          /\ held'[Len(held) + 1] = FALSE
      BY <1>1 DEF TypeOK, DrainTypes
    <3>3. acked + Len(held) + 1 <= wal[txn].rows
      BY <2>2 DEF NextRow
    <3>4. acked' + Len(held') <= wal'[txn'].rows
      BY <1>1, <2>3, <3>1, <3>2, <3>3 DEF Positions
    <3>5. \A j \in DOMAIN held' : held'[j] => j \in DOMAIN held /\ held[j]
      BY <3>1, <3>2 DEF Positions
    <3> QED  BY <1>1, <2>1, <2>2, <3>4, <3>5 DEF AcksPublished, On, Working, Delivered
  <2>8. PICK m : m = <<txn, NextRow>>
    OBVIOUS
  <2>9. m[1] = txn /\ m[2] = NextRow /\ late' \subseteq late \cup {m}
    BY <2>1, <2>8
  <2>10. Waits(m) /\ Ordered(m)
    <3>1. m[2] \in 1 .. wal[txn].rows
      BY <2>2, <2>3, <2>9
    <3>2. Ordered(m)
      BY <2>2, <2>8, <2>9, <3>1 DEF Working, Order, TxnOrdered
    <3> QED  BY <2>2, <2>3, <2>9, <3>1, <3>2 DEF Waits
  <2>11. \A e \in late' : Waits(e) /\ Ordered(e)
    BY <2>9, <2>10 DEF Working, Buffered, Order, LateOrdered
  <2>12. Buffered' /\ LateOrdered'
    <3>1. \A e : Ordered(e) => Ordered(e)'
      BY <2>1 DEF Ordered
    <3>2. \A e : Waits(e) => Waits(e)'
      BY <1>1, <2>1 DEF Waits, On, Published
    <3> QED  BY <2>11, <3>1, <3>2 DEF Buffered, LateOrdered
  <2> QED  BY <2>4, <2>5, <2>6, <2>7, <2>12 DEF Working, Order, Delivered
<1> QED  BY <1>2, <1>3

LEMMA LateMoves ==
  ASSUME Inv, NEW m \in late, LateArrives(m)
  PROVE  Working'
<1> USE DEF Inv
<1>1. /\ Store(m) /\ late' = late \ {m}
      /\ UNCHANGED <<wal, slot, pc, session, cursor, flushed, txn, acked, held, gaps, ctl>>
  BY DEF LateArrives, slotVars, loopVars
<1>2. Positions /\ WalForm /\ StreamForm /\ Events
  BY PositionTypes, Forms DEF Working
<1>3. m \in Nat \X Nat /\ m[1] \in Nat /\ Waits(m) /\ Ordered(m)
  BY <1>2 DEF Positions, Working, Buffered, Order, LateOrdered
<1>4. m[1] <= Len(wal) /\ \A i \in (slot.from + 1) .. (m[1] - 1) : Published(i)
  BY <1>2, <1>3 DEF Waits, WalForm
<1>5. pc \in {"drain", "publish"}
  BY DEF Working, Reading
<1>6. pc = "publish" => m[1] <= txn
  <2>1. pc = "publish" => flushed < txn
    BY DEF Working, Reading
  <2>2. m[1] <= flushed \/ m[1] = txn
    BY <1>3 DEF Waits
  <2> QED  BY <1>2, <1>3, <2>1, <2>2 DEF Positions
<1>7. /\ Places' /\ Events' /\ Reading' /\ ConfirmedPublished' /\ FlushedPublished'
      /\ CursorPublished' /\ StreamOrdered' /\ SlotOrdered' /\ TxnOrdered' /\ Recovering'
      /\ GapRowMissesNone' /\ \A e \in late : Waits(e)' /\ Ordered(e)'
  BY <1>1, <1>3, <1>4, <1>5, <1>6, StoreMoves
<1>8. Buffered' /\ LateOrdered'
  BY <1>1, <1>7 DEF Buffered, LateOrdered
<1>9. AcksPublished'
  <2>1. StreamForm' /\ Grows
    BY <1>1, <1>2, <1>3, StoreGrows
  <2>2. \A e : On(e) => On(e)'
    BY <1>2, <2>1, StaysOn
  <2>3. pc = "publish" =>
            /\ acked + Len(held) <= wal[txn].rows
            /\ \A k \in 1 .. acked : On(<<txn, k>>)'
            /\ \A j \in DOMAIN held : held[j] => On(<<txn, acked + j>>)'
    <3>1. ASSUME NEW k, On(<<txn, k>>)  PROVE On(<<txn, k>>)'
      BY <1>1, <2>2, <3>1 DEF On
    <3>2. pc = "publish" =>
              /\ acked + Len(held) <= wal[txn].rows
              /\ \A k \in 1 .. acked : On(<<txn, k>>)
              /\ \A j \in DOMAIN held : held[j] => On(<<txn, acked + j>>)
      BY DEF AcksPublished, Working, Delivered
    <3> QED  BY <1>1, <3>1, <3>2 DEF On
  <2> QED  BY <1>1, <2>3 DEF AcksPublished, On
<1> QED  BY <1>7, <1>8, <1>9 DEF Working, Order, Delivered

\* Acks settle, or a send fails and drops those that are held.
LEMMA AckMoves ==
  ASSUME Inv, SettleAll \/ SendFails
  PROVE  Working'
<1> USE DEF Inv
<1>1. /\ UNCHANGED <<wal, slot, stream, window, gaps, ctl>>
      /\ UNCHANGED <<pc, session, cursor, flushed, txn, late>>
      /\ held' = <<>> /\ pc = "publish"
  BY DEF SettleAll, SendFails, MaySend, slotVars, brokerVars, loopVars
<1>2. Positions
  BY PositionTypes
<1>3. PICK n \in 0 .. Len(held) : acked' = acked + n /\ \A j \in 1 .. n : held[j]
  <2>1. CASE SettleAll
    BY <1>2, <2>1, SettledPrefix DEF SettleAll, Positions
  <2>2. CASE SendFails
    BY <1>2, <2>2 DEF SendFails, Positions
  <2> QED  BY <2>1, <2>2
<1>4. AcksPublished'
  <2>1. Len(held') = 0 /\ DOMAIN held' = {}
    BY <1>1
  <2>2. /\ acked + Len(held) <= wal[txn].rows
        /\ \A k \in 1 .. acked : On(<<txn, k>>)
        /\ \A j \in DOMAIN held : held[j] => On(<<txn, acked + j>>)
    BY <1>1 DEF Working, Delivered, AcksPublished
  <2>3. acked + n <= wal[txn].rows
    <3>1. wal[txn].rows \in Nat
      BY <1>1, Publishing
    <3> QED  BY <1>2, <1>3, <2>2, <3>1 DEF Positions
  <2>4. ASSUME NEW k \in 1 .. (acked + n)  PROVE On(<<txn, k>>)
    <3>1. CASE k <= acked
      BY <1>2, <2>2, <2>4, <3>1 DEF Positions
    <3>2. CASE k > acked
      <4>1. PICK j \in 1 .. n : k = acked + j
        <5>1. (k - acked) \in 1 .. n /\ k = acked + (k - acked)
          BY <1>2, <1>3, <2>4, <3>2 DEF Positions
        <5> QED  BY <5>1
      <4>2. j \in DOMAIN held /\ held[j]
        BY <1>2, <1>3, <4>1 DEF Positions
      <4> QED  BY <2>2, <4>1, <4>2
    <3> QED  BY <1>2, <1>3, <2>4, <3>1, <3>2 DEF Positions
  <2> QED  BY <1>1, <1>3, <2>1, <2>3, <2>4 DEF AcksPublished, On
<1>5. Places' /\ Reading'
  BY <1>1 DEF Working, Places, Reading
<1>6. /\ StreamOrdered' /\ SlotOrdered' /\ Events' /\ Recovering' /\ GapRowMissesNone'
      /\ LateOrdered' /\ ConfirmedPublished'
  BY <1>1, Still DEF Working, Order, Delivered
<1>7. FlushedPublished' /\ CursorPublished' /\ Buffered' /\ TxnOrdered'
  BY <1>1, SessionStill DEF Working, Order, Delivered
<1> QED  BY <1>4, <1>5, <1>6, <1>7 DEF Working, Order, Delivered

\* The feedback position passes a transaction only when all its rows are on
\* the stream.
LEMMA AcknowledgedMoves ==
  ASSUME Inv, Acknowledged
  PROVE  Working'
<1> USE DEF Inv
<1>1. /\ UNCHANGED <<wal, slot, stream, window, gaps, ctl, session, cursor, late>>
      /\ pc = "publish" /\ pc' = "drain" /\ acked = wal[txn].rows
      /\ flushed' = Larger(flushed, txn) /\ txn' = 0
  BY DEF Acknowledged, Goto, slotVars, brokerVars
<1>2. Positions /\ WalForm
  BY PositionTypes, Forms
<1>3. /\ txn \in DOMAIN wal /\ txn \in Nat /\ txn <= Len(wal) /\ flushed < txn
      /\ \A i \in (slot.from + 1) .. (txn - 1) : Published(i)
  BY <1>1, Publishing
<1>4. flushed' = txn /\ cursor = txn
  BY <1>1, <1>2, <1>3 DEF Larger, Positions, Working, Reading
<1>5. Published(txn)
  BY <1>1 DEF Working, Delivered, AcksPublished, Published, On
<1>6. \A i \in (slot.from + 1) .. txn : Published(i)
  BY <1>2, <1>3, <1>5 DEF Positions
<1>7. \A i : Published(i) => Published(i)'
  BY <1>1 DEF Published
<1>8. /\ StreamOrdered' /\ SlotOrdered' /\ Events' /\ Recovering' /\ GapRowMissesNone'
      /\ LateOrdered' /\ ConfirmedPublished'
  BY <1>1, Still DEF Working, Order, Delivered
<1>9. FlushedPublished' /\ CursorPublished'
  BY <1>1, <1>4, <1>6, <1>7 DEF FlushedPublished, CursorPublished
<1>10. AcksPublished' /\ TxnOrdered'
  BY <1>1 DEF AcksPublished, TxnOrdered
<1>11. Places'
  BY <1>1, <1>2, <1>3, <1>4 DEF Working, Places, WalForm
<1>12. Reading'
  <2>1. ASSUME NEW i \in (txn + 1) .. txn  PROVE FALSE
    BY <1>3
  <2> QED  BY <1>1, <1>4, <2>1 DEF Working, Reading
<1>13. Buffered'
  <2>1. ASSUME NEW e \in late  PROVE Waits(e)'
    <3>1. Waits(e) /\ e \in Nat \X Nat /\ e[1] \in Nat /\ e = <<e[1], e[2]>>
      BY <1>2 DEF Working, Buffered, Positions
    <3>2. On(e) /\ e[1] <= txn
      <4>1. CASE On(e) /\ e[1] <= flushed
        BY <1>2, <1>3, <3>1, <4>1 DEF Positions
      <4>2. CASE e[1] = txn
        <5>1. e[2] \in 1 .. wal[txn].rows /\ e = <<txn, e[2]>>
          BY <3>1, <4>2 DEF Waits
        <5>2. On(<<txn, e[2]>>)
          BY <1>5, <5>1 DEF Published, On
        <5> QED  BY <1>3, <4>2, <5>1, <5>2
      <4> QED  BY <3>1, <4>1, <4>2 DEF Waits
    <3>3. On(e)'
      BY <1>1, <3>2 DEF On
    <3> QED  BY <1>1, <1>4, <1>7, <3>1, <3>2, <3>3 DEF Waits
  <2> QED  BY <1>1, <2>1 DEF Buffered
<1> QED
  BY <1>8, <1>9, <1>10, <1>11, <1>12, <1>13 DEF Working, Order, Delivered

-----------------------------------------------------------------------------
(* The WAL grows.                                                           *)

LEMMA WriteMoves ==
  ASSUME Inv, NEW l \in Logs, Write(l)
  PROVE  Working'
<1> USE DEF Inv
<1>1. UNCHANGED <<slot, stream, window, pc, session, cursor, flushed, txn, acked, held, late, gaps, ctl>>
  BY DEF Write, slotVars, brokerVars, loopVars, drainVars
<1>2. Positions /\ WalForm /\ StreamForm
  BY PositionTypes, Forms
<1>3. /\ Len(wal') = Len(wal) + 1 /\ DOMAIN wal' = 1 .. (Len(wal) + 1)
      /\ \A i \in DOMAIN wal : wal'[i] = wal[i]
      /\ wal'[Len(wal) + 1] = l[Len(wal) + 1]
  <2>1. wal' = Append(wal, l[Len(wal) + 1]) /\ wal \in Seq(Entries)
    BY DEF Write, TypeOK, ServerTypes
  <2>2. l[Len(wal) + 1] \in Entries
    <3>1. l \in Seq(Entries)
      BY BoundsAssumption DEF Entries
    <3> QED  BY <1>2, <3>1, SeqForm DEF Write, WalForm
  <2> QED  BY <2>1, <2>2
<1>4. StreamForm' /\ Grows
  BY <1>1, <1>2, <1>3 DEF Grows, StreamForm, WalForm
<1>5. \A i \in DOMAIN wal : Published(i) => Published(i)'
  BY <1>2, <1>4, StaysPublished
<1>6. \A e : (On(e) => On(e)') /\ (Ordered(e) => Ordered(e)')
  BY <1>1 DEF On, Ordered
<1>7. \A g \in DOMAIN gaps : /\ gaps[g].base \in Nat /\ gaps[g].end_lsn \in Nat
                            /\ gaps[g].end_lsn <= Len(wal)
  <2>1. gaps \in Seq(GapRows)
    BY DEF TypeOK, VerbTypes
  <2>2. \A g \in DOMAIN gaps : gaps[g] \in GapRows
    BY <2>1, SeqForm
  <2> QED  BY <2>2 DEF GapRows, Working, Places
<1>8. Places'
  <2>1. \A n \in Nat : n <= Len(wal) => n <= Len(wal')
    BY <1>2, <1>3 DEF WalForm
  <2>2. \A g \in DOMAIN gaps : gaps[g].end_lsn <= Len(wal')
    BY <1>7, <2>1
  <2>3. /\ slot.confirmed <= Len(wal') /\ cursor <= Len(wal') /\ flushed <= Len(wal')
        /\ txn <= Len(wal') /\ ctl.lsn <= Len(wal') /\ ctl.at <= Len(wal') /\ ctl.to <= Len(wal')
    BY <1>2, <2>1 DEF Working, Places, Positions
  <2> QED  BY <1>1, <2>2, <2>3 DEF Working, Places
<1>9. Events'
  <2>1. \A i \in DOMAIN wal' : wal'[i].own \/ wal'[i].rows = 0
    <3>1. l[Len(wal) + 1].own \/ l[Len(wal) + 1].rows = 0
      <4>1. l \in Seq(Entries) /\ \A i \in 1 .. Len(l) : l[i].own \/ l[i].rows = 0
        BY BoundsAssumption DEF Entries
      <4>2. Len(l) \in Nat /\ Len(wal) < Len(l)
        BY <4>1, SeqForm DEF Write
      <4> QED  BY <1>2, <4>1, <4>2 DEF WalForm
    <3> QED  BY <1>2, <1>3, <3>1 DEF Working, Events, WalForm
  <2>2. \A s \in DOMAIN stream : stream[s][1] <= Len(wal) + 1
    <3>1. \A s \in DOMAIN stream : stream[s][1] \in Nat /\ stream[s][1] <= Len(wal)
      BY <1>2 DEF Working, Events, StreamForm
    <3> QED  BY <1>2, <3>1 DEF WalForm
  <2>3. \A e \in window : On(e)'
    BY <1>6 DEF Working, Events
  <2> QED  BY <1>1, <1>3, <2>1, <2>2, <2>3 DEF Events
<1>10. Reading'
  <2>1. session = "mid" => wal'[txn].own /\ \A i \in (cursor + 1) .. (txn - 1) : ~wal'[i].own
    <3>1. session = "mid" => txn \in DOMAIN wal /\ \A i \in (cursor + 1) .. (txn - 1) : i \in DOMAIN wal
      BY <1>2 DEF Working, Reading, Places, Positions, WalForm
    <3> QED  BY <1>3, <3>1 DEF Working, Reading
  <2>2. pc = "drain" /\ session \in {"idle", "mid"} => \A i \in (cursor + 1) .. flushed : ~wal'[i].own
    <3>1. \A i \in (cursor + 1) .. flushed : i \in DOMAIN wal
      BY <1>2 DEF Working, Places, Positions, WalForm
    <3> QED  BY <1>3, <3>1 DEF Working, Reading
  <2> QED  BY <1>1, <2>1, <2>2 DEF Working, Reading
<1>11. ConfirmedPublished' /\ FlushedPublished'
  <2>1. \A i \in (slot.from + 1) .. slot.confirmed : i \in DOMAIN wal
    BY <1>2 DEF Working, Places, Positions, WalForm
  <2>2. \A i \in (slot.from + 1) .. flushed : i \in DOMAIN wal
    BY <1>2 DEF Working, Places, Positions, WalForm
  <2> QED  BY <1>1, <1>5, <2>1, <2>2 DEF ConfirmedPublished, FlushedPublished, Working, Delivered
<1>12. CursorPublished'
  <2>1. \A i \in (slot.from + 1) .. cursor : i \in DOMAIN wal
    BY <1>2 DEF Working, Places, Positions, WalForm
  <2> QED  BY <1>1, <1>5, <2>1 DEF CursorPublished, Working, Delivered
<1>13. pc = "publish" => txn \in DOMAIN wal
  BY Publishing
<1>14. AcksPublished'
  BY <1>1, <1>3, <1>13 DEF AcksPublished, On, Working, Delivered
<1>15. Buffered' /\ LateOrdered'
  <2>1. ASSUME NEW e \in late  PROVE Waits(e)' /\ Ordered(e)'
    <3>1. Waits(e) /\ Ordered(e) /\ e[1] \in Nat /\ e[1] \in DOMAIN wal
      BY <1>2 DEF Working, Buffered, Waits, Order, LateOrdered, Positions
    <3>2. e[1] \in DOMAIN wal' /\ wal'[e[1]] = wal[e[1]]
      BY <1>2, <1>3, <3>1 DEF WalForm
    <3>3. \A i \in (slot.from + 1) .. (e[1] - 1) : i \in DOMAIN wal /\ Published(i)
      BY <1>2, <3>1 DEF Waits, WalForm, Positions
    <3>4. \A i \in (slot.from + 1) .. (e[1] - 1) : Published(i)'
      BY <1>5, <3>3
    <3> QED  BY <1>1, <1>6, <3>1, <3>2, <3>4 DEF Waits
  <2> QED  BY <1>1, <2>1 DEF Buffered, LateOrdered
<1>16. StreamOrdered' /\ TxnOrdered'
  <2>1. StreamOrdered'
    BY <1>1 DEF StreamOrdered, Ordered, Working, Order
  <2>2. TxnOrdered'
    BY <1>1, <1>3, <1>13 DEF TxnOrdered, Ordered, Working, Order
  <2> QED  BY <2>1, <2>2
<1>17. SlotOrdered'
  <2>1. SUFFICES ASSUME NEW i \in (slot.from + 1) .. (Len(wal) + 1), NEW k \in 1 .. wal'[i].rows
                 PROVE  Ordered(<<i, k>>)'
    BY <1>1, <1>3 DEF SlotOrdered
  <2>2. CASE i \in DOMAIN wal
    BY <1>2, <1>3, <1>6, <2>1, <2>2 DEF Working, Order, SlotOrdered, Positions, WalForm
  <2>3. CASE i = Len(wal) + 1
    <3>1. \A a \in DOMAIN stream : stream[a][1] \in Nat /\ stream[a][1] <= Len(wal)
      BY <1>2 DEF Working, Events, StreamForm
    <3>2. \A a \in DOMAIN stream : ~(stream[a][1] > i)
      BY <1>2, <2>3, <3>1 DEF WalForm
    <3> QED  BY <1>1, <3>2 DEF Ordered
  <2> QED  BY <1>2, <2>1, <2>2, <2>3 DEF Positions, WalForm
<1>18. Recovering'
  <2>1. \A i \in (slot.from + 1) .. ctl.lsn : i \in DOMAIN wal
    BY <1>2 DEF Working, Places, Positions, WalForm
  <2>2. ASSUME NEW base \in Nat, Covered(base, Len(wal), ctl.at, ctl.lsn)
        PROVE  \A i \in (base + 1) .. (Len(wal) + 1) :
                   Published(i)' \/ (i >= ctl.at /\ i > ctl.lsn)
    <3>1. SUFFICES ASSUME NEW i \in (base + 1) .. (Len(wal) + 1)
                   PROVE  Published(i)' \/ (i >= ctl.at /\ i > ctl.lsn)
      OBVIOUS
    <3>2. CASE i = Len(wal) + 1
      BY <1>2, <3>2 DEF Working, Places, Positions, WalForm
    <3>3. CASE i # Len(wal) + 1
      <4>1. i \in (base + 1) .. Len(wal) /\ i \in DOMAIN wal
        BY <1>2, <3>1, <3>3 DEF WalForm
      <4> QED  BY <1>5, <2>2, <4>1 DEF Covered
    <3> QED  BY <3>2, <3>3
  <2>3. slot.from \in Nat /\ ctl.base \in Nat
    BY <1>2 DEF Positions
  <2> QED  BY <1>1, <1>3, <1>5, <2>1, <2>2, <2>3 DEF Recovering, Covered, Working
<1>19. GapRowMissesNone'
  <2>1. DOMAIN gaps = 1 .. Len(gaps)
    BY SeqForm DEF TypeOK, VerbTypes
  <2>2. \A g \in DOMAIN gaps : \A i \in (gaps[g].base + 1) .. gaps[g].end_lsn : i \in DOMAIN wal
    BY <1>2, <1>7 DEF WalForm
  <2> QED  BY <1>1, <1>5, <2>1, <2>2 DEF GapRowMissesNone, Working
<1> QED
  BY <1>8, <1>9, <1>10, <1>11, <1>12, <1>14, <1>15, <1>16, <1>17, <1>18, <1>19
     DEF Working, Order, Delivered

-----------------------------------------------------------------------------
(* The theorems.                                                            *)

LEMMA InitInv ==
  ASSUME Init
  PROVE  Inv
<1>1. TypeOK
  <2>1. ServerTypes
    BY DEF Init, ServerTypes, Slots
  <2>2. BrokerTypes /\ LoopTypes /\ DrainTypes
    <3>1. <<>> \in Seq(Nat \X Nat)
      OBVIOUS
    <3> QED  BY <3>1, NoAcks DEF Init, BrokerTypes, LoopTypes, DrainTypes
  <2>3. VerbTypes
    BY DEF Init, VerbTypes, Verbs, IdleCtl
  <2> QED  BY <2>1, <2>2, <2>3 DEF TypeOK
<1>2. Len(wal) = 0 /\ DOMAIN wal = {} /\ DOMAIN stream = {} /\ DOMAIN gaps = {} /\ Len(gaps) = 0
  BY DEF Init
<1>3. Places /\ Events /\ Reading
  BY <1>2 DEF Init, Places, Events, Reading, IdleCtl
<1>4. Delivered /\ Buffered
  BY DEF Init, Delivered, Buffered, ConfirmedPublished, FlushedPublished, CursorPublished,
     AcksPublished
<1>5. Order /\ Recovering /\ GapRowMissesNone
  BY <1>2 DEF Init, Order, StreamOrdered, SlotOrdered, TxnOrdered, LateOrdered, Recovering, IdleCtl,
     GapRowMissesNone
<1> QED  BY <1>1, <1>3, <1>4, <1>5 DEF Inv, Working

LEMMA NextKeeps ==
  ASSUME Inv, Next
  PROVE  Inv'
<1>1. TypeOK'
  BY NextKeepsTypes DEF Inv
<1> SUFFICES Working'
  BY <1>1 DEF Inv
<1>2. CASE \E l \in Logs : Write(l)
  BY <1>2, WriteMoves
<1>3. CASE \/ SlotLost \/ SlotDropped \/ Restart \/ Crash \/ Shutdown \/ LoopTop \/ ReadGap
           \/ SlotDrift \/ Preflight \/ Poll \/ OpenSession \/ OpenFails \/ Sever \/ Feedback
  BY <1>3, SlotMoves, LoopMoves, CrashEnds, FeedbackEnds, SessionOpens DEF Shutdown, Sever
<1>4. CASE \/ ReceiveBegin \/ ReceiveCommit \/ (\E w \in 1 .. MaxWal : Keepalive(w))
           \/ ConnectionDrops \/ Reconnect
  BY <1>4, Begins, Commits, KeepaliveMoves, ConnectionMoves, Reconnects
<1>5. CASE \E k \in 1 .. MaxRows : SendAcked(k)
  <2>1. PICK k \in 1 .. MaxRows : SendAcked(k)
    BY <1>5
  <2>2. /\ MaySend /\ k = NextRow /\ Store(<<txn, k>>) /\ held' = Append(held, TRUE)
        /\ UNCHANGED <<wal, slot, pc, session, cursor, flushed, txn, acked, late, gaps, ctl>>
    BY <2>1 DEF SendAcked, slotVars, loopVars
  <2> QED  BY <2>2, SendMoves
<1>6. CASE \E stored, buffered \in BOOLEAN : SendUnacked(stored, buffered)
  BY <1>6, UnackedMoves
<1>7. CASE \/ SendFails \/ (\E m \in late : LateArrives(m)) \/ SettleAll \/ Acknowledged
           \/ WindowExpires
  BY <1>7, AckMoves, LateMoves, AcknowledgedMoves, WindowMoves
<1>8. CASE \/ RecoverRead \/ RecoverEvents \/ RecoverDrop \/ RecoverCreate
           \/ RecoverPosition \/ RecoverInsert \/ RecoverFails \/ CloseGap
  BY <1>8, ReadMoves, EventsMoves, DropMoves, CreateMoves, PositionMoves, InsertMoves, CloseMoves
<1> QED  BY <1>2, <1>3, <1>4, <1>5, <1>6, <1>7, <1>8 DEF Next

LEMMA StutterKeeps ==
  ASSUME Inv, UNCHANGED vars
  PROVE  Inv'
<1>1. UNCHANGED <<wal, slot, losses, stream, window, expiries, pc, polling>>
  BY DEF vars
<1>2. UNCHANGED <<session, cursor, flushed, txn, acked, held, late, gaps, ctl>>
  BY DEF vars
<1>3. TypeOK'
  BY <1>1, <1>2 DEF Inv, TypeOK, ServerTypes, BrokerTypes, LoopTypes, DrainTypes, VerbTypes
<1>4. Places' /\ Reading'
  BY <1>1, <1>2 DEF Inv, Working, Places, Reading
<1>5. ConfirmedPublished' /\ Recovering' /\ GapRowMissesNone'
  BY <1>1, <1>2, Still DEF Inv, Working, Order, Delivered
<1> QED  BY <1>1, <1>2, <1>3, <1>4, <1>5, Around DEF Inv

\* The inductive invariant holds of every behaviour: the positions of slot,
\* session and verbs, what they have passed, the order of what may still be
\* stored, and what a recovering verb covers.
THEOREM CaptureInvariance == Spec => []Inv
<1>1. Inv /\ [Next]_vars => Inv'
  BY NextKeeps, StutterKeeps
<1> QED  BY InitInv, <1>1, PTL DEF Spec

\* Every variable of the slot, the stream, the reader and the verbs keeps its
\* type.
THEOREM CaptureTypeCorrect == Spec => []TypeOK
<1>1. Inv => TypeOK
  BY DEF Inv
<1> QED  BY CaptureInvariance, <1>1, PTL

\* "Confirmed LSN advances ONLY on JetStream ack": what PostgreSQL may forget
\* is on the stream, through crashes, severed sessions, the client's own
\* reconnects, lost acks, late publishes and slots that are lost and replaced.
THEOREM ConfirmedIsPublished == Spec => []ConfirmedPublished
<1>1. Inv => ConfirmedPublished
  BY DEF Inv, Working, Delivered
<1> QED  BY CaptureInvariance, <1>1, PTL

\* "stream order == commit order": no copy of an event lies behind a later
\* transaction unless the event was there before it, though a buffered publish
\* may arrive late and the duplicate window may forget.
THEOREM StreamInCommitOrder == Spec => []CommitOrder
<1>1. Inv => CommitOrder
  BY DEF Inv, Working, Order, StreamOrdered, Ordered, CommitOrder
<1> QED  BY CaptureInvariance, <1>1, PTL

\* The gap row that recover-capture-gap commits "reads more rows than the gap
\* changed, and misses none", wherever the slot, the reader and the stream
\* stood between the steps of the verb.
THEOREM GapRowCovers == Spec => []GapRowMissesNone
<1>1. Inv => GapRowMissesNone
  BY DEF Inv, Working
<1> QED  BY CaptureInvariance, <1>1, PTL
===============================================================================
