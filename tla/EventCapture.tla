----------------------------- MODULE EventCapture -----------------------------
(***************************************************************************)
(* Change data capture of one project-env: the replication slot of its     *)
(* database, the one reader that streams it to JetStream, and the two      *)
(* verbs that recover and close a capture gap.                             *)
(*                                                                         *)
(* A WAL position is an index: entry i is one committed transaction of     *)
(* this database, with the rows of it that are published (none when all    *)
(* its relations are excluded), or a record of another database, which     *)
(* logical decoding passes over.  A row event is <<i, k>>, the k-th row of *)
(* transaction i, and that pair is its Nats-Msg-Id.                        *)
(***************************************************************************)
EXTENDS Naturals, Sequences, FiniteSets

CONSTANTS
    Logs,         \* bound: the WAL histories that may be written
    MaxRows,      \* bound: published rows of one transaction
    MaxWal,       \* bound: WAL entries
    MaxInFlight,  \* MAX_IN_FLIGHT, the acknowledgements a pass may hold
    MaxExpiries,  \* bound: times the duplicate window forgets
    MaxLosses     \* bound: times the slot is invalidated or dropped

ASSUME BoundsAssumption ==
    /\ {MaxWal, MaxRows, MaxExpiries, MaxLosses} \subseteq Nat
    /\ MaxInFlight \in Nat \ {0}
    /\ \A l \in Logs :
          /\ l \in Seq([own : BOOLEAN, rows : 0 .. MaxRows]) /\ Len(l) <= MaxWal
          /\ \A i \in 1 .. Len(l) : l[i].own \/ l[i].rows = 0

VARIABLES
    wal,        \* the WAL of the database server
    slot,       \* state, from (its first position), confirmed_flush_lsn, and
                \* by, who created it
    losses,
    stream,     \* the source stream's CDC events, in stream order
    window,     \* message ids inside the duplicate window
    expiries,
    pc,         \* where the reader is
    polling,    \* it is inside wait_out_gap
    session,    \* the walsender session: "none", "idle", "mid" or "broken"
    cursor,     \* last position whose frames the session delivered
    flushed,    \* the session's feedback position (flushed and applied)
    txn,        \* the buffered transaction, 0 when none
    acked,      \* first_unacked: rows of txn whose acks are settled
    held,       \* for every ack held: will it settle
    late,       \* publishes still in the client's buffer after they failed
    gaps,       \* registry.capture_gap of this registration, oldest first
    ctl         \* recover-capture-gap: its step and what it has read

slotVars   == <<slot, losses>>
brokerVars == <<stream, window, expiries>>
loopVars   == <<pc, polling>>
drainVars  == <<session, cursor, flushed, txn, acked, held, late>>
vars == <<wal, slot, losses, stream, window, expiries, pc, polling,
          session, cursor, flushed, txn, acked, held, late, gaps, ctl>>

NoSession == session = "none"
IdleCtl ==
    [step |-> "idle", reason |-> "none", base |-> 0, lsn |-> 0, at |-> 0, to |-> 0]

\* CDC was enabled on an empty database: the slot pins the WAL from there.
Init ==
    /\ wal = <<>>
    /\ slot = [state |-> "ok", from |-> 0, confirmed |-> 0, by |-> "enable"]
    /\ losses = 0
    /\ stream = <<>> /\ window = {} /\ expiries = 0
    /\ pc = "top" /\ polling = FALSE
    /\ session = "none" /\ cursor = 0 /\ flushed = 0
    /\ txn = 0 /\ acked = 0 /\ held = <<>> /\ late = {}
    /\ gaps = <<>>
    /\ ctl = IdleCtl

-----------------------------------------------------------------------------
(* PostgreSQL.                                                              *)

Larger(a, b) == IF a >= b THEN a ELSE b
OwnAfter(p) == {i \in DOMAIN wal : i > p /\ wal[i].own}

\* The next transaction that decoding finds after p.
NextOwn(p) == CHOOSE i \in OwnAfter(p) : \A j \in OwnAfter(p) : i <= j

\* The positions a keepalive may carry after everything up to p was sent: no
\* transaction of this database commits between p and them.
SentPositions(p) == {w \in p .. Len(wal) : \A i \in OwnAfter(p) : w < i}

\* A transaction of this database commits, or another database writes.
Write(l) ==
    /\ Len(wal) < Len(l) /\ wal = SubSeq(l, 1, Len(wal))
    /\ wal' = Append(wal, l[Len(wal) + 1])
    /\ UNCHANGED <<slotVars, brokerVars, loopVars, drainVars, gaps, ctl>>

\* The slot falls max_slot_wal_keep_size behind and is invalidated; its
\* walsender, if any, is terminated.
SlotLost ==
    /\ losses < MaxLosses /\ slot.state = "ok" /\ slot.confirmed < Len(wal)
    /\ slot' = [slot EXCEPT !.state = "lost"]
    /\ losses' = losses + 1
    /\ session' = IF NoSession THEN session ELSE "broken"
    /\ UNCHANGED <<wal, brokerVars, loopVars, cursor, flushed, txn, acked, held,
                   late, gaps, ctl>>

\* The slot is dropped by hand, or a restore does not carry it.
SlotDropped ==
    /\ losses < MaxLosses /\ slot.state = "ok" /\ session \in {"none", "broken"}
    /\ slot' = [slot EXCEPT !.state = "none"]
    /\ losses' = losses + 1
    /\ UNCHANGED <<wal, brokerVars, loopVars, drainVars, gaps, ctl>>

\* A new slot starts at the current end of the WAL.
NewSlot(creator) ==
    [state |-> "ok", from |-> Len(wal), confirmed |-> Len(wal), by |-> creator]

\* A standby status update reaches the server.
Confirmed == [slot EXCEPT !.confirmed = Larger(slot.confirmed, flushed)]

-----------------------------------------------------------------------------
(* The reader's loop.                                                       *)

\* The process is gone, and with it the session and the client's buffer.
End ==
    /\ pc' = "down" /\ polling' = FALSE
    /\ session' = "none" /\ cursor' = 0 /\ flushed' = 0
    /\ txn' = 0 /\ acked' = 0 /\ held' = <<>> /\ late' = {}

Goto(p) == pc' = p /\ UNCHANGED polling

\* Kubernetes starts the container again.
Restart ==
    /\ pc = "down"
    /\ Goto("top")
    /\ UNCHANGED <<wal, slotVars, brokerVars, drainVars, gaps, ctl>>

\* A kill, or an error that leaves run_with_shutdown: a registration or
\* preflight read, drift, an unmapped relation, a tripped ladder.
Crash ==
    /\ pc # "down"
    /\ End
    /\ UNCHANGED <<wal, slotVars, brokerVars, gaps, ctl>>

\* The process ends over a session that is still connected: a last feedback.
EndWithFeedback ==
    /\ slot' = IF session \in {"idle", "mid"} THEN Confirmed ELSE slot
    /\ End
    /\ UNCHANGED <<wal, losses, brokerVars, gaps, ctl>>

\* SIGTERM cancels the token, which every wait of the reader sees.
Shutdown == pc \in {"top", "wait", "drain", "publish"} /\ EndWithFeedback

LoopTop ==
    /\ pc = "top"
    /\ Goto("check")
    /\ UNCHANGED <<wal, slotVars, brokerVars, drainVars, gaps, ctl>>

\* Capture stops; the reader polls.
WaitOut == pc' = "wait" /\ polling' = TRUE

\* open_capture_gap: the newest row waits for its resync.
GapOpen == gaps # <<>> /\ ~gaps[Len(gaps)].closed

\* capture_gap reads the system database first.
ReadGap ==
    /\ pc = "check"
    /\ IF GapOpen THEN WaitOut ELSE Goto("slot")
    /\ UNCHANGED <<wal, slotVars, brokerVars, drainVars, gaps, ctl>>

\* The client creates a slot without failover, and the next preflight refuses
\* it: CAPTURE SHAPE DRIFT.
Drifted == slot.state = "ok" /\ slot.by = "reader"

SlotDrift ==
    /\ pc = "slot" /\ Drifted
    /\ End
    /\ UNCHANGED <<wal, slotVars, brokerVars, gaps, ctl>>

\* preflight then reads the slot.  A poll that finds capture allowed resumes
\* at the top of the loop, which asks both questions again.
Preflight ==
    /\ pc = "slot" /\ ~Drifted
    /\ IF slot.state # "ok" THEN WaitOut
       ELSE /\ pc' = IF polling THEN "top" ELSE "open"
            /\ polling' = FALSE
    /\ UNCHANGED <<wal, slotVars, brokerVars, drainVars, gaps, ctl>>

\* GAP_POLL passes.
Poll ==
    /\ pc = "wait"
    /\ Goto("check")
    /\ UNCHANGED <<wal, slotVars, brokerVars, drainVars, gaps, ctl>>

\* open_session: START_REPLICATION from the confirmed position.  The client's
\* start creates a slot that does not exist.
OpenSession ==
    /\ pc = "open" /\ slot.state # "lost"
    /\ slot' = IF slot.state = "none" THEN NewSlot("reader") ELSE slot
    /\ session' = "idle" /\ cursor' = slot'.confirmed /\ flushed' = 0
    /\ Goto("drain")
    /\ UNCHANGED <<wal, losses, brokerVars, txn, acked, held, late, gaps, ctl>>

\* The open fails, and the ladder's backoff ends at the top of the loop.
OpenFails ==
    /\ pc = "open"
    /\ Goto("top")
    /\ UNCHANGED <<wal, slotVars, brokerVars, drainVars, gaps, ctl>>

-----------------------------------------------------------------------------
(* The drain.                                                               *)

\* Begin, and the row frames after it: a buffered transaction starts anew.
ReceiveBegin ==
    /\ pc = "drain" /\ session = "idle" /\ OwnAfter(cursor) # {}
    /\ txn' = NextOwn(cursor)
    /\ session' = "mid"
    /\ UNCHANGED <<wal, slotVars, brokerVars, loopVars, cursor, flushed, acked, held,
                   late, gaps, ctl>>

\* Commit: the whole transaction is published now.
ReceiveCommit ==
    /\ pc = "drain" /\ session = "mid"
    /\ session' = "idle" /\ cursor' = txn
    /\ acked' = 0 /\ held' = <<>>
    /\ Goto("publish")
    /\ UNCHANGED <<wal, slotVars, brokerVars, flushed, txn, late, gaps, ctl>>

\* Mutant of Keepalive: only the position of a commit is confirmed.
KeepaliveCommit(w) ==
    /\ pc = "drain" /\ session = "idle" /\ txn = 0
    /\ w \in SentPositions(cursor) /\ w > flushed /\ wal[w].own
    /\ flushed' = w
    /\ UNCHANGED <<wal, slotVars, brokerVars, loopVars, session, cursor, txn, acked, held,
                   late, gaps, ctl>>

\* A keepalive's position is confirmed only with no transaction open.
Keepalive(w) ==
    /\ pc = "drain" /\ session = "idle" /\ txn = 0
    /\ w \in SentPositions(cursor) /\ w > flushed
    /\ flushed' = w
    /\ UNCHANGED <<wal, slotVars, brokerVars, loopVars, session, cursor, txn, acked, held,
                   late, gaps, ctl>>

Feedback ==
    /\ pc = "drain" /\ session \in {"idle", "mid"} /\ flushed > slot.confirmed
    /\ slot' = Confirmed
    /\ UNCHANGED <<wal, losses, brokerVars, loopVars, drainVars, gaps, ctl>>

ConnectionDrops ==
    /\ session \in {"idle", "mid"}
    /\ session' = "broken"
    /\ UNCHANGED <<wal, slotVars, brokerVars, loopVars, cursor, flushed, txn, acked, held,
                   late, gaps, ctl>>

\* The client's own recovery resumes from the applied position, or from the
\* confirmed one when that is later.  The buffered transaction stays.
Reconnect ==
    /\ pc = "drain" /\ session = "broken" /\ slot.state = "ok"
    /\ session' = "idle" /\ cursor' = Larger(flushed, slot.confirmed)
    /\ UNCHANGED <<wal, slotVars, brokerVars, loopVars, flushed, txn, acked, held, late,
                   gaps, ctl>>

\* The drain ends on an error: recovery exhausted, a lost slot, a failed
\* relation lookup.  stream.shutdown cancels the token it shares with the
\* loop, so whatever the ladder answers, the loop returns and the process
\* ends.
Sever == pc = "drain" /\ EndWithFeedback

-----------------------------------------------------------------------------
(* publish_txn.                                                             *)

\* JetStream stores a message unless its id is inside the window.
Store(m) ==
    /\ stream' = IF m \in window THEN stream ELSE Append(stream, m)
    /\ window' = window \cup {m}
    /\ UNCHANGED expiries

NextRow == acked + Len(held) + 1
MaySend == pc = "publish" /\ NextRow <= wal[txn].rows /\ Len(held) < MaxInFlight

\* Row k is sent: stored and acknowledged.
SendAcked(k) ==
    /\ MaySend /\ NextRow = k
    /\ Store(<<txn, k>>)
    /\ held' = Append(held, TRUE)
    /\ UNCHANGED <<wal, slotVars, loopVars, session, cursor, flushed, txn, acked, late,
                   gaps, ctl>>

\* Its acknowledgement will not come: it was stored, it is lost, or it waits
\* in the client's buffer.
SendUnacked(stored, buffered) ==
    /\ MaySend
    /\ IF stored THEN Store(<<txn, NextRow>>) ELSE UNCHANGED brokerVars
    /\ held' = Append(held, FALSE)
    /\ late' = IF buffered /\ ~stored THEN late \cup {<<txn, NextRow>>} ELSE late
    /\ UNCHANGED <<wal, slotVars, loopVars, session, cursor, flushed, txn, acked, gaps, ctl>>

\* send itself fails: the pass ends and its held acks are dropped.
SendFails ==
    /\ MaySend /\ held # <<>>
    /\ held' = <<>>
    /\ UNCHANGED <<wal, slotVars, brokerVars, loopVars, session, cursor, flushed, txn, acked,
                   late, gaps, ctl>>

\* A buffered publish reaches the server after its pass was given up.
LateArrives(m) ==
    /\ m \in late
    /\ late' = late \ {m}
    /\ Store(m)
    /\ UNCHANGED <<wal, slotVars, loopVars, session, cursor, flushed, txn, acked, held, gaps,
                   ctl>>

\* Mutant of Settled: the later acks of a batch count past a failed one.
SettledAny == Cardinality({i \in DOMAIN held : held[i]})

\* How many of the held acks settle before the first that fails.
Settled == Cardinality({i \in DOMAIN held : \A j \in 1 .. i : held[j]})

\* settle_all, when the pipeline is full or every row was sent; a failure
\* leaves acked at the failed row, where the next pass restarts.
SettleAll ==
    /\ pc = "publish" /\ held # <<>>
    /\ Len(held) = MaxInFlight \/ NextRow > wal[txn].rows
    /\ acked' = acked + Settled
    /\ held' = <<>>
    /\ UNCHANGED <<wal, slotVars, brokerVars, loopVars, session, cursor, flushed, txn, late,
                   gaps, ctl>>

\* Mutant of Acknowledged: the drain goes on while acknowledgements are held,
\* and confirms only what was acknowledged.
AcknowledgedSent ==
    /\ pc = "publish" /\ NextRow > wal[txn].rows
    /\ IF acked = wal[txn].rows THEN flushed' = Larger(flushed, txn) /\ txn' = 0
       ELSE UNCHANGED <<flushed, txn>>
    /\ acked' = 0 /\ held' = <<>>
    /\ Goto("drain")
    /\ UNCHANGED <<wal, slotVars, brokerVars, session, cursor, late, gaps, ctl>>

\* Every row is acknowledged: the feedback position passes the commit.
Acknowledged ==
    /\ pc = "publish" /\ acked = wal[txn].rows
    /\ flushed' = Larger(flushed, txn)
    /\ txn' = 0 /\ acked' = 0
    /\ Goto("drain")
    /\ UNCHANGED <<wal, slotVars, brokerVars, session, cursor, held, late, gaps, ctl>>

WindowExpires ==
    /\ expiries < MaxExpiries /\ window # {}
    /\ window' = {}
    /\ expiries' = expiries + 1
    /\ UNCHANGED <<wal, slotVars, stream, loopVars, drainVars, gaps, ctl>>

-----------------------------------------------------------------------------
(* recover-capture-gap and close-capture-gap.                               *)

\* Mutant of LastEvent: the gap starts where the verb runs.
LastEventNow == Len(wal)

\* The transaction of the newest CDC event, whose commit_ts is start_at.
LastEvent == IF stream = <<>> THEN 0 ELSE stream[Len(stream)][1]

\* The verb reads a lost or missing slot that nobody streams.
RecoverRead ==
    /\ ctl.step = "idle" /\ slot.state # "ok" /\ session \in {"none", "broken"}
    /\ ctl' = [IdleCtl EXCEPT !.step = "events", !.reason = slot.state,
                 !.lsn = slot.confirmed]
    /\ UNCHANGED <<wal, slotVars, brokerVars, loopVars, drainVars, gaps>>

\* It reads the stream.  For a missing slot the newest event also gives
\* start_lsn: its row lies before the commit of its transaction.
RecoverEvents ==
    /\ ctl.step = "events"
    /\ ctl' = [ctl EXCEPT !.step = "drop", !.at = LastEvent,
                 !.lsn = IF ctl.reason = "lost" THEN @
                         ELSE IF LastEvent = 0 THEN 0 ELSE LastEvent - 1]
    /\ UNCHANGED <<wal, slotVars, brokerVars, loopVars, drainVars, gaps>>

\* drop_replication_slot_sql: IF EXISTS, and PostgreSQL refuses an active one.
RecoverDrop ==
    /\ ctl.step = "drop" /\ session \in {"none", "broken"}
    /\ slot' = [slot EXCEPT !.state = "none"]
    /\ ctl' = [ctl EXCEPT !.step = "create", !.base = slot.from]
    /\ UNCHANGED <<wal, losses, brokerVars, loopVars, drainVars, gaps>>

\* create_failover_slot_sql: IF NOT EXISTS.
RecoverCreate ==
    /\ ctl.step = "create"
    /\ slot' = IF slot.state = "none" THEN NewSlot("recover") ELSE slot
    /\ ctl' = [ctl EXCEPT !.step = "position"]
    /\ UNCHANGED <<wal, losses, brokerVars, loopVars, drainVars, gaps>>

\* The new slot's first position is read back.
RecoverPosition ==
    /\ ctl.step = "position" /\ slot.state # "none"
    /\ ctl' = [ctl EXCEPT !.step = "insert", !.to = slot.confirmed]
    /\ UNCHANGED <<wal, slotVars, brokerVars, loopVars, drainVars, gaps>>

\* The row commits in the system database.
RecoverInsert ==
    /\ ctl.step = "insert"
    /\ gaps' = Append(gaps, [base |-> ctl.base, start_lsn |-> ctl.lsn, start_at |-> ctl.at,
                             end_lsn |-> ctl.to, closed |-> FALSE])
    /\ ctl' = IdleCtl
    /\ UNCHANGED <<wal, slotVars, brokerVars, loopVars, drainVars>>

\* The verb dies, or a step of it fails.
RecoverFails ==
    /\ ctl.step # "idle"
    /\ ctl' = IdleCtl
    /\ UNCHANGED <<wal, slotVars, brokerVars, loopVars, drainVars, gaps>>

\* close-capture-gap, after the resync.
CloseGap ==
    /\ GapOpen
    /\ gaps' = [gaps EXCEPT ![Len(gaps)].closed = TRUE]
    /\ UNCHANGED <<wal, slotVars, brokerVars, loopVars, drainVars, ctl>>

-----------------------------------------------------------------------------
Next ==
    \/ \E l \in Logs : Write(l)
    \/ SlotLost \/ SlotDropped
    \/ Restart \/ Crash \/ Shutdown \/ LoopTop \/ ReadGap \/ SlotDrift \/ Preflight
    \/ Poll \/ OpenSession \/ OpenFails
    \/ ReceiveBegin \/ ReceiveCommit \/ (\E w \in 1 .. MaxWal : Keepalive(w)) \/ Feedback
    \/ ConnectionDrops \/ Reconnect \/ Sever
    \/ \E k \in 1 .. MaxRows : SendAcked(k)
    \/ \E stored, buffered \in BOOLEAN : SendUnacked(stored, buffered)
    \/ SendFails \/ (\E m \in late : LateArrives(m)) \/ SettleAll \/ Acknowledged
    \/ WindowExpires
    \/ RecoverRead \/ RecoverEvents \/ RecoverDrop \/ RecoverCreate
    \/ RecoverPosition \/ RecoverInsert \/ RecoverFails \/ CloseGap

Spec == Init /\ [][Next]_vars

\* What goes wrong around the reader.
Fault ==
    \/ Crash \/ Shutdown \/ OpenFails \/ ConnectionDrops \/ Sever \/ SendFails
    \/ \E stored, buffered \in BOOLEAN : SendUnacked(stored, buffered)

\* What the reader, its container and its servers do by themselves.
Progress ==
    \/ Restart \/ LoopTop \/ ReadGap \/ SlotDrift \/ Preflight \/ Poll \/ OpenSession
    \/ ReceiveBegin \/ ReceiveCommit \/ (\E w \in 1 .. MaxWal : Keepalive(w)) \/ Feedback
    \/ Reconnect \/ (\E k \in 1 .. MaxRows : SendAcked(k)) \/ SettleAll \/ Acknowledged

\* Kubernetes restarts the reader, PostgreSQL sends keepalives, JetStream
\* answers, the reader polls: progress is made while it can be, and faults,
\* however many, are not for ever.  The operator owes nothing.
LiveSpec == Spec /\ WF_vars(Progress) /\ <>[][~Fault]_vars

-----------------------------------------------------------------------------
(* Properties.                                                              *)

Entries == [own : BOOLEAN, rows : 0 .. MaxRows]
Slots == [state : {"ok", "lost", "none"}, from : Nat, confirmed : Nat,
          by : {"enable", "recover", "reader"}]
GapRows == [base : Nat, start_lsn : Nat, start_at : Nat, end_lsn : Nat, closed : BOOLEAN]
Verbs == [step : {"idle", "events", "drop", "create", "position", "insert"},
          reason : {"lost", "none"}, base : Nat, lsn : Nat, at : Nat, to : Nat]

ServerTypes == wal \in Seq(Entries) /\ slot \in Slots /\ losses \in Nat
BrokerTypes ==
    stream \in Seq(Nat \X Nat) /\ window \subseteq Nat \X Nat /\ expiries \in Nat
LoopTypes ==
    /\ pc \in {"down", "top", "check", "slot", "wait", "open", "drain", "publish"}
    /\ polling \in BOOLEAN
DrainTypes ==
    /\ session \in {"none", "idle", "mid", "broken"}
    /\ cursor \in Nat /\ flushed \in Nat /\ txn \in Nat /\ acked \in Nat
    /\ held \in Seq(BOOLEAN) /\ late \subseteq Nat \X Nat
VerbTypes == gaps \in Seq(GapRows) /\ ctl \in Verbs

\* PostgreSQL's, JetStream's, the reader's and the verbs' state keeps its type.
TypeOK == ServerTypes /\ BrokerTypes /\ LoopTypes /\ DrainTypes /\ VerbTypes

Published(i) == \A k \in 1 .. wal[i].rows : \E s \in DOMAIN stream : stream[s] = <<i, k>>

\* "Confirmed LSN advances ONLY on JetStream ack": every row of every
\* transaction between the slot's first position and its confirmed one is on
\* the stream, so the WAL that PostgreSQL may drop is never needed again.
ConfirmedPublished ==
    \A i \in (slot.from + 1) .. slot.confirmed : Published(i)

\* "stream order == commit order": an event behind an event of a later
\* transaction is a redelivery of one that was there before both.
CommitOrder ==
    \A a, b \in DOMAIN stream : a < b /\ stream[a][1] > stream[b][1] =>
        \E c \in 1 .. (a - 1) : stream[c] = stream[b]

\* The gap row "reads more rows than the gap changed, and misses none": what
\* the replaced slot did not deliver lies at or after start_at and behind
\* start_lsn, whatever redeliveries the newest event on the stream was.
GapRowMissesNone ==
    \A g \in 1 .. Len(gaps) : \A i \in (gaps[g].base + 1) .. gaps[g].end_lsn :
        Published(i) \/ (i >= gaps[g].start_at /\ i > gaps[g].start_lsn)

\* "Keeping a slot alive is never an operator's job", "delayed, never lost":
\* until the slot is lost, the confirmed position always reaches the end of
\* the WAL again, on an idle database too.
SlotFollowsWal ==
    []<>(slot.confirmed = Len(wal) \/ losses > 0)

\* "A new slot alone does not start capture again": what lies before the slot
\* that recover-capture-gap created, under an open session, was published, or
\* was resynced for a closed gap row.
ResyncBeforeCapture ==
    session \in {"idle", "mid"} /\ slot.by = "recover" => \A i \in 1 .. slot.from :
        \/ Published(i)
        \/ \E g \in 1 .. Len(gaps) : gaps[g].closed /\ i \in gaps[g].start_at .. gaps[g].end_lsn

\* "The reader NEVER creates the slot."
ReaderNeverCreatesSlot == slot.by # "reader"
===============================================================================
