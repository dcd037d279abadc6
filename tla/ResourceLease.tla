---------------------------- MODULE ResourceLease ----------------------------
(***************************************************************************)
(* The exclusive resource leases of the hosts.  A call on an exclusive     *)
(* connection first holds a lease, which is a PostgreSQL advisory lock on   *)
(* the connection's resource key, taken by one task and one session per    *)
(* host for all its connections; then it holds the connection's mutex.     *)
(*                                                                         *)
(* The registry keeps a resource key on one active connection at a time,   *)
(* but a host learns of a change late, so two connections of one key can   *)
(* both have a lease.  A session can die at the server before its host     *)
(* knows (ServerKills) and can outlive the host's interest in it (ghost).  *)
(***************************************************************************)
EXTENDS Naturals, Sequences, FiniteSets, SequencesExt

CONSTANTS
    Hosts,
    Connections,
    ResourceKeys,
    KeyOf,         \* KeyOf[c]: the resource key of connection c
    Callers,       \* concurrent calls of components
    HostOf,        \* HostOf[p]: the host of call p
    Uses,          \* Uses[p]: the connections that call p may be about
    Rivals,        \* keys that a host outside Hosts uses too
    Stoppable,     \* hosts that may shut down
    Changing,      \* connections that the registry may change
    MaxChanges,    \* bound on registry changes
    MaxLosses,     \* bound on lost sessions
    LockBound,     \* bound on how often a session takes one lock
    NoConn, NoCaller

ASSUME LeaseAssumption ==
    /\ IsFiniteSet(Connections)
    /\ KeyOf \in [Connections -> ResourceKeys] /\ HostOf \in [Callers -> Hosts]
    /\ Uses \in [Callers -> SUBSET Connections]
    /\ Rivals \subseteq ResourceKeys /\ Stoppable \subseteq Hosts
    /\ MaxChanges \in Nat /\ MaxLosses \in Nat /\ LockBound \in Nat
    /\ NoConn \notin Connections /\ NoCaller \notin Callers

VARIABLES
    enabled,    \* connections that the registry holds active
    due,        \* due[h]: connections whose delete has not reached h
    applying,   \* applying[h]: the delete whose fact the memory of h still has
    changes,    \* registry changes so far
    \* the leases of a host
    lease,      \* lease[h][c]: its state, whether it is active, its epoch
    holder,     \* holder[h][c]: the call that holds the connection's mutex
    revoking,   \* revoking[h]: connections whose revoke task waits for the mutex
    stage,      \* stage[h]: "up", "draining", "closing" or "stopped"
    \* the session task of a host
    commands,   \* commands[h]: the channel
    needed,     \* needed[h]
    pending,    \* pending[h]: leases to acquire, in turn
    acquiring,  \* acquiring[h]: the lease whose lock statement runs
    granted,    \* granted[h]: the server granted that statement
    inHand,     \* inHand[h]: a command arrived during the acquire
    session,    \* session[h]: "none", "open" or "ended"
    \* the server
    alive,      \* hosts whose open session is alive at the server
    locks,      \* locks[h][k]: how often the live session of h holds k
    ghost,      \* keys held by a session that its host gave up
    rival,      \* keys held by the live session of a host that is not modelled
    losses,     \* lost sessions so far
    \* calls
    phase, conn, epoch,
    stale,      \* calls whose revision is not the host's any more
    broken      \* calls during which the host saw its session break

registryVars == <<enabled, due, applying, changes>>
leaseVars    == <<lease, holder, revoking, stage>>
taskVars     == <<commands, needed, pending, acquiring, granted, inHand, session>>
serverVars   == <<alive, locks, ghost, rival, losses>>
callVars     == <<phase, conn, epoch, stale, broken>>
vars == <<registryVars, leaseVars, taskVars, serverVars, callVars>>

\* No lease, or one that was released: enter makes a new one.
Released == [state |-> "released", active |-> FALSE, epoch |-> 0]

Init ==
    /\ enabled \in {C \in SUBSET Connections :
                       \A c, d \in C : KeyOf[c] = KeyOf[d] => c = d}
    /\ \A k \in ResourceKeys : \E c \in enabled : KeyOf[c] = k
    /\ due = [h \in Hosts |-> {}] /\ applying = [h \in Hosts |-> {}] /\ changes = 0
    /\ lease = [h \in Hosts |-> [c \in Connections |-> Released]]
    /\ holder = [h \in Hosts |-> [c \in Connections |-> NoCaller]]
    /\ revoking = [h \in Hosts |-> {}]
    /\ stage = [h \in Hosts |-> "up"]
    /\ commands = [h \in Hosts |-> <<>>]
    /\ needed = [h \in Hosts |-> {}]
    /\ pending = [h \in Hosts |-> <<>>]
    /\ acquiring = [h \in Hosts |-> NoConn]
    /\ granted = [h \in Hosts |-> FALSE]
    /\ inHand = [h \in Hosts |-> FALSE]
    /\ session = [h \in Hosts |-> "none"]
    /\ alive = {} /\ ghost = {} /\ rival = {} /\ losses = 0
    /\ locks = [h \in Hosts |-> [k \in ResourceKeys |-> 0]]
    /\ phase = [p \in Callers |-> "idle"]
    /\ conn = [p \in Callers |-> NoConn]
    /\ epoch = [p \in Callers |-> 0]
    /\ stale = {} /\ broken = {}

-----------------------------------------------------------------------------
(* The lease table of a host.                                               *)

State(h, c)  == lease[h][c].state
Active(h, c) == lease[h][c].active

\* revoke: the lease takes no more calls, and a task waits for the mutex.
Revoke(h, C) ==
    /\ lease' = [lease EXCEPT ![h] = [c \in Connections |->
                    IF c \in C THEN [lease[h][c] EXCEPT !.active = FALSE] ELSE lease[h][c]]]
    /\ revoking' = [revoking EXCEPT ![h] = @ \cup {c \in C : Active(h, c)}]

\* The calls of h on the connections C hold an old revision from now on; the
\* call p ends.
Outdate(h, C, p) ==
    stale' = (stale \cup {q \in Callers : HostOf[q] = h /\ conn[q] \in C}) \ {p}

\* invalidate.
Invalidate(h, c, p) == Revoke(h, {c}) /\ Outdate(h, {c}, p)

\* A command enters the channel.
Enqueue(h, op, c) == commands' = [commands EXCEPT ![h] = Append(@, [op |-> op, conn |-> c])]

\* Mutant of RevokeSends: the release does not wait for the current call.
RevokeSendsNow(h, c) ==
    /\ c \in revoking[h]
    /\ revoking' = [revoking EXCEPT ![h] = @ \ {c}]
    /\ Enqueue(h, "release", c)
    /\ UNCHANGED <<registryVars, lease, holder, stage, needed, pending, acquiring, granted,
                   inHand, session, serverVars, callVars>>

\* The revoke task gets the mutex and sends the release.
RevokeSends(h, c) ==
    /\ c \in revoking[h] /\ holder[h][c] = NoCaller
    /\ revoking' = [revoking EXCEPT ![h] = @ \ {c}]
    /\ Enqueue(h, "release", c)
    /\ UNCHANGED <<registryVars, lease, holder, stage, needed, pending, acquiring, granted,
                   inHand, session, serverVars, callVars>>

-----------------------------------------------------------------------------
(* The registry, and the connection facts of a host.                        *)

\* A connection is disabled, or enabled while no other one has its key; a
\* delete of its fact goes to every host.
ChangeConnection(c) ==
    /\ changes < MaxChanges /\ changes' = changes + 1 /\ c \in Changing
    /\ \/ c \in enabled /\ enabled' = enabled \ {c}
       \/ /\ \A d \in enabled : KeyOf[d] # KeyOf[c]
          /\ enabled' = enabled \cup {c}
    /\ due' = [h \in Hosts |-> due[h] \cup {c}]
    /\ UNCHANGED <<applying, leaseVars, taskVars, serverVars, callVars>>

\* The watch delivers the delete: ConnectionMemory::apply first invalidates the
\* lease.
DeliverDelete(h, c) ==
    /\ c \in due[h] /\ applying[h] = {}
    /\ due' = [due EXCEPT ![h] = @ \ {c}]
    /\ applying' = [applying EXCEPT ![h] = {c}]
    /\ Invalidate(h, c, NoCaller)
    /\ UNCHANGED <<enabled, changes, holder, stage, taskVars, serverVars,
                   phase, conn, epoch, broken>>

\* Then it drops the fact from the memory.
DropFact(h, c) ==
    /\ c \in applying[h]
    /\ applying' = [applying EXCEPT ![h] = @ \ {c}]
    /\ UNCHANGED <<enabled, due, changes, leaseVars, taskVars, serverVars, callVars>>

\* clear: the watch broke, and the host forgets every fact, then every revision.
\* One step, at the second of the two: in between a fact comes from the registry,
\* as it may in any state in which its delete is due.
WatchBreaks(h) ==
    /\ due[h] # {} /\ applying[h] = {}
    /\ due' = [due EXCEPT ![h] = {}]
    /\ Revoke(h, Connections) /\ Outdate(h, Connections, NoCaller)
    /\ UNCHANGED <<enabled, applying, changes, holder, stage, taskVars, serverVars,
                   phase, conn, epoch, broken>>

-----------------------------------------------------------------------------
(* A call: revision, fact, lease, mutex, revision and fact again, work, lease *)
(* again.                                                                   *)

Goto(p, s) == phase' = [phase EXCEPT ![p] = s]

\* exclusive_call reads the revision.
Start(p, c) ==
    /\ phase[p] = "idle" /\ c \in Uses[p]
    /\ Goto(p, "fact")
    /\ conn' = [conn EXCEPT ![p] = c]
    /\ UNCHANGED <<registryVars, leaseVars, taskVars, serverVars, epoch, stale, broken>>

\* The call is over: an error, a result, or the 30 seconds of its wait.
Idle(p) ==
    /\ Goto(p, "idle")
    /\ conn' = [conn EXCEPT ![p] = NoConn]
    /\ epoch' = [epoch EXCEPT ![p] = 0]
    /\ broken' = broken \ {p}

\* The fact comes from memory, which may have the old one until the delete is
\* applied, or from the registry.
OldFact(p)     == conn[p] \in due[HostOf[p]] \cup applying[HostOf[p]]
ReadsActive(p) == conn[p] \in enabled \/ OldFact(p)

\* observe: a fact that is not active revokes the lease.
ReadsInactive(p) ==
    /\ conn[p] \notin enabled \/ OldFact(p)
    /\ Invalidate(HostOf[p], conn[p], p)

ReadFact(p) ==
    /\ phase[p] = "fact"
    /\ \/ /\ ReadsActive(p)
          /\ Goto(p, "enter")
          /\ UNCHANGED <<lease, revoking, conn, epoch, stale, broken>>
       \/ ReadsInactive(p) /\ Idle(p)
    /\ UNCHANGED <<registryVars, holder, stage, taskVars, serverVars>>

\* A turn of a lease that a new one replaced is no lease's any more.
Forget(turns, c) == [i \in 1 .. Len(turns) |-> IF turns[i] = c THEN NoConn ELSE turns[i]]

\* enter: the lease of the connection, or a new one.  A call that finds a
\* revoked lease waits until it is released.  A call that is still at the
\* released lease only has its refusal ahead.
Enter(p) ==
    LET h == HostOf[p]
        c == conn[p]
    IN
    /\ phase[p] = "enter" /\ stage[h] = "up"
    /\ \/ /\ Active(h, c)
          /\ Goto(p, "wait")
          /\ UNCHANGED <<lease, commands, pending>>
       \/ /\ State(h, c) = "released"
          /\ lease' = [lease EXCEPT ![h][c] = [state |-> "pending", active |-> TRUE, epoch |-> 0]]
          /\ Enqueue(h, "acquire", c)
          /\ pending' = [pending EXCEPT ![h] = Forget(@, c)]
          /\ phase' = [q \in Callers |->
                IF q = p THEN "wait"
                ELSE IF HostOf[q] = h /\ conn[q] = c /\ phase[q] = "wait"
                THEN "refused" ELSE phase[q]]
    /\ UNCHANGED <<registryVars, holder, revoking, stage, needed, acquiring, granted,
                   inHand, session, serverVars, conn, epoch, stale, broken>>

\* The host stops, or the wait ends with a lease that is revoked or lost, or
\* after 30 seconds.
Refuse(p) ==
    /\ phase[p] \in {"enter", "wait", "refused"}
    /\ Idle(p) /\ stale' = stale \ {p}
    /\ UNCHANGED <<registryVars, leaseVars, taskVars, serverVars>>

\* Lease::wait ends with the lease held; the call takes the mutex, then reads
\* the epoch.  A lease that changes while the call waits for the mutex refuses
\* it like a lease that changes before.
LockCall(p) ==
    LET h == HostOf[p]
        c == conn[p]
    IN
    /\ phase[p] = "wait" /\ Active(h, c) /\ State(h, c) = "held" /\ holder[h][c] = NoCaller
    /\ holder' = [holder EXCEPT ![h][c] = p]
    /\ epoch' = [epoch EXCEPT ![p] = lease[h][c].epoch]
    /\ Goto(p, "locked")
    /\ UNCHANGED <<registryVars, lease, revoking, stage, taskVars, serverVars, conn, stale, broken>>

\* The mutex is free again.
Unlock(p) == holder' = [holder EXCEPT ![HostOf[p]][conn[p]] = NoCaller]

\* The lease is still active and held, or the call is refused.
CheckLease(p) ==
    LET h == HostOf[p]
        c == conn[p]
    IN
    /\ phase[p] = "locked"
    /\ IF Active(h, c) /\ State(h, c) = "held"
       THEN Goto(p, "check") /\ UNCHANGED <<holder, conn, epoch, stale, broken>>
       ELSE Idle(p) /\ Unlock(p) /\ stale' = stale \ {p}
    /\ UNCHANGED <<registryVars, lease, revoking, stage, taskVars, serverVars>>

\* The revision is the one of the start, or the lease is revoked.
CheckRevision(p) ==
    LET h == HostOf[p]
        c == conn[p]
    IN
    /\ phase[p] = "check"
    /\ IF p \notin stale
       THEN Goto(p, "resolve") /\ UNCHANGED <<lease, revoking, holder, conn, epoch, stale, broken>>
       ELSE Invalidate(h, c, p) /\ Idle(p) /\ Unlock(p)
    /\ UNCHANGED <<registryVars, stage, taskVars, serverVars>>

\* resolve: the integration is linked under the fact of now, which is read again,
\* or the call ends.  A read that fails ends it too.
Resolve(p) ==
    /\ phase[p] = "resolve"
    /\ \/ /\ ReadsActive(p)
          /\ Goto(p, "run")
          /\ UNCHANGED <<lease, revoking, holder, conn, epoch, stale, broken>>
       \/ ReadsInactive(p) /\ Idle(p) /\ Unlock(p)
       \/ /\ Idle(p) /\ Unlock(p) /\ stale' = stale \ {p}
          /\ UNCHANGED <<lease, revoking>>
    /\ UNCHANGED <<registryVars, stage, taskVars, serverVars>>

\* Mutant of Held: a lease that was lost and acquired again counts.
HeldAgain(p) == State(HostOf[p], conn[p]) = "held"

\* Call::held.
Held(p) ==
    /\ State(HostOf[p], conn[p]) = "held"
    /\ epoch[p] = lease[HostOf[p]][conn[p]].epoch

\* The integration returns: its result is used only if the lease was not lost.
Return(p, used) ==
    /\ phase[p] = "run"
    /\ used = Held(p)
    /\ Idle(p) /\ Unlock(p) /\ stale' = stale \ {p}
    /\ UNCHANGED <<registryVars, lease, revoking, stage, taskVars, serverVars>>

-----------------------------------------------------------------------------
(* The session task of a host.                                              *)

\* The lease of c on h takes the state s.
SetState(h, c, s) == lease' = [lease EXCEPT ![h][c].state = s]

\* No call, or another task's step, is involved.
TaskOnly == UNCHANGED <<registryVars, holder, revoking, stage, callVars>>

\* The phases of a call that has the mutex.
Locking == {"locked", "check", "resolve", "run"}

\* Mutant of Lost: a lease that is held stays so.
LostUnheld(h) == {c \in needed[h] : State(h, c) \notin {"released", "held"}}

\* The leases that a loss of the session ends.
Lost(h) == {c \in needed[h] : State(h, c) # "released"}

\* Loss: every needed lease that is not released is lost, before any
\* reconnection.  The server may hold the locks of the old session for a while.
LoseSession(h) ==
    /\ lease' = [lease EXCEPT ![h] = [c \in Connections |->
                    IF c \in Lost(h)
                    THEN [state |-> "lost", active |-> Active(h, c), epoch |-> lease[h][c].epoch + 1]
                    ELSE lease[h][c]]]
    /\ broken' = broken \cup {p \in Callers : HostOf[p] = h /\ phase[p] \in Locking /\ conn[p] \in needed[h]}
    /\ pending' = [pending EXCEPT ![h] = <<>>]
    /\ acquiring' = [acquiring EXCEPT ![h] = NoConn]
    /\ granted' = [granted EXCEPT ![h] = FALSE]
    /\ inHand' = [inHand EXCEPT ![h] = FALSE]
    /\ session' = [session EXCEPT ![h] = "none"]
    /\ alive' = alive \ {h}
    /\ ghost' = ghost \cup {k \in ResourceKeys : locks[h][k] > 0}
    /\ locks' = [locks EXCEPT ![h] = [k \in ResourceKeys |-> 0]]
    /\ UNCHANGED <<registryVars, holder, revoking, stage, needed, rival,
                   phase, conn, epoch, stale>>

\* A session opens for the leases that are still needed and active, in any
\* order.
Connect(h) ==
    /\ session[h] = "none" /\ needed[h] # {}
    /\ session' = [session EXCEPT ![h] = "open"]
    /\ alive' = alive \cup {h}
    /\ \E s \in SetToSeqs({c \in needed[h] : Active(h, c)}) : pending' = [pending EXCEPT ![h] = s]
    /\ TaskOnly
    /\ UNCHANGED <<lease, commands, needed, acquiring, granted, inHand, locks, ghost, rival, losses>>

\* The connection's driver ends: the server killed the session, or the network
\* did.
Breaks(h) ==
    /\ session[h] = "open"
    /\ h \notin alive \/ losses < MaxLosses
    /\ losses' = IF h \in alive THEN losses + 1 ELSE losses
    /\ LoseSession(h)

\* Mutant of SessionBreaks: the command that a failed cancel or unlock interrupts
\* is not deferred.
SessionBreaksDropsCommand(h) ==
    /\ Breaks(h)
    /\ commands' = [commands EXCEPT ![h] = IF @ = <<>> THEN @ ELSE Tail(@)]

\* The command that a failed cancel or unlock interrupts stays for the next
\* session.
SessionBreaks(h) == Breaks(h) /\ UNCHANGED commands

\* The session dies at the server, which frees its locks.
ServerKills(h) ==
    /\ h \in alive /\ losses < MaxLosses
    /\ alive' = alive \ {h} /\ losses' = losses + 1
    /\ locks' = [locks EXCEPT ![h] = [k \in ResourceKeys |-> 0]]
    /\ UNCHANGED <<registryVars, leaseVars, taskVars, ghost, rival, callVars>>

\* The server ends a session that its host gave up.
GhostEnds(k) ==
    /\ k \in ghost /\ ghost' = ghost \ {k}
    /\ UNCHANGED <<registryVars, leaseVars, taskVars, alive, locks, rival, losses, callVars>>

\* Another host, of which only the lock is modelled, takes a free key or frees
\* its key.
RivalSession(k) ==
    /\ \/ /\ k \notin ghost \cup rival /\ \A h \in Hosts : locks[h][k] = 0
          /\ rival' = rival \cup {k}
       \/ k \in rival /\ rival' = rival \ {k}
    /\ UNCHANGED <<registryVars, leaseVars, taskVars, alive, locks, ghost, losses, callVars>>

\* Another lease of this host holds the key, which the session could take again.
HeldByAnother(h, c) ==
    \E d \in needed[h] \ {c} : KeyOf[d] = KeyOf[c] /\ State(h, d) = "held"

\* The next pending lease: skipped when revoked, released, or held by another
\* lease of this host, otherwise its lock statement is sent.
NextPending(h) ==
    LET c == Head(pending[h]) IN
    /\ session[h] = "open" /\ acquiring[h] = NoConn /\ ~inHand[h] /\ pending[h] # <<>>
    /\ pending' = [pending EXCEPT ![h] = Tail(@)]
    /\ acquiring' = [acquiring EXCEPT ![h] =
                        IF c # NoConn /\ Active(h, c) /\ ~HeldByAnother(h, c) THEN c ELSE NoConn]
    /\ TaskOnly
    /\ UNCHANGED <<lease, commands, needed, granted, inHand, session, serverVars>>

\* The server grants the statement: no other session holds the key.
ServerGrants(h) ==
    LET k == KeyOf[acquiring[h]] IN
    /\ acquiring[h] # NoConn /\ ~granted[h] /\ h \in alive /\ locks[h][k] < LockBound
    /\ k \notin ghost \cup rival /\ \A o \in Hosts \ {h} : locks[o][k] = 0
    /\ granted' = [granted EXCEPT ![h] = TRUE]
    /\ locks' = [locks EXCEPT ![h][k] = @ + 1]
    /\ TaskOnly
    /\ UNCHANGED <<lease, commands, needed, pending, acquiring, inHand, session,
                   alive, ghost, rival, losses>>

\* Mutant of CancelFoundGrant: a grant that came before the cancel is forgotten.
CancelFoundGrantNever(h) == FALSE

\* cancel_acquire: the statement may have been granted before the cancel.
CancelFoundGrant(h) == granted[h]

\* The statement ends: the lease is held, or the statement was cancelled and
\* its lease goes to the end of the turn.
EndAcquire(h, got, command) ==
    LET c == acquiring[h] IN
    /\ acquiring' = [acquiring EXCEPT ![h] = NoConn]
    /\ granted' = [granted EXCEPT ![h] = FALSE]
    /\ inHand' = [inHand EXCEPT ![h] = command]
    /\ IF got
       THEN SetState(h, c, "held") /\ UNCHANGED pending
       ELSE /\ pending' = [pending EXCEPT ![h] = IF Active(h, c) THEN Append(@, c) ELSE @]
            /\ UNCHANGED lease
    /\ TaskOnly
    /\ UNCHANGED <<commands, needed, session, serverVars>>

Acquired(h) == granted[h] /\ EndAcquire(h, TRUE, FALSE)

\* Mutant of AcquireTurn: an acquire ends only for a command.
AcquireTurnNever(h) == FALSE /\ Acquired(h)

\* ACQUIRE_TURN: another lease waits for the session.
AcquireTurn(h) ==
    /\ acquiring[h] # NoConn /\ pending[h] # <<>>
    /\ EndAcquire(h, CancelFoundGrant(h), FALSE)

\* A command arrives and the statement is cancelled before the command is
\* handled.  A cancel that fails breaks the session: see SessionBreaks.
CancelForCommand(h) ==
    /\ acquiring[h] # NoConn /\ commands[h] # <<>>
    /\ EndAcquire(h, CancelFoundGrant(h), TRUE)

\* The task handles a command when it has no session, or has one in hand, or
\* has nothing to acquire.
Handles(h, op) ==
    /\ commands[h] # <<>> /\ Head(commands[h]).op = op
    /\ \/ session[h] = "none"
       \/ session[h] = "open" /\ acquiring[h] = NoConn /\ (inHand[h] \/ pending[h] = <<>>)

Handled(h) ==
    /\ commands' = [commands EXCEPT ![h] = Tail(@)]
    /\ inHand' = [inHand EXCEPT ![h] = FALSE]

HandleAcquire(h) ==
    LET c == Head(commands[h]).conn IN
    /\ Handles(h, "acquire") /\ Handled(h)
    /\ needed' = [needed EXCEPT ![h] = @ \cup {c}]
    /\ pending' = [pending EXCEPT ![h] = IF session[h] = "open" THEN Append(@, c) ELSE @]
    /\ TaskOnly
    /\ UNCHANGED <<lease, acquiring, granted, session, serverVars>>

\* The leases of the key that wait and have no turn.
Waiting(h, c) ==
    {d \in needed[h] \ {c} : KeyOf[d] = KeyOf[c] /\ Active(h, d) /\ d \notin Range(pending[h])}

\* Only a held lease is unlocked.
Unlocks(h, c) == session[h] = "open" /\ State(h, c) = "held"

\* Release: a held lease is unlocked first.  An unlock that fails breaks the
\* session and keeps the command.
HandleRelease(h) ==
    LET c == Head(commands[h]).conn IN
    /\ Handles(h, "release") /\ (Unlocks(h, c) => h \in alive)
    /\ Handled(h)
    /\ locks' = IF Unlocks(h, c) THEN [locks EXCEPT ![h][KeyOf[c]] = @ - 1] ELSE locks
    /\ needed' = [needed EXCEPT ![h] = @ \ {c}]
    /\ lease' = [lease EXCEPT ![h][c] = Released]
    /\ \E s \in SetToSeqs(Waiting(h, c)) :
          pending' = [pending EXCEPT ![h] = IF session[h] = "open" THEN @ \o s ELSE @]
    /\ TaskOnly
    /\ UNCHANGED <<acquiring, granted, session, alive, ghost, rival, losses>>

\* Stop closes the session, which frees its locks.
HandleStop(h) ==
    /\ Handles(h, "stop") /\ Handled(h)
    /\ session' = [session EXCEPT ![h] = "ended"]
    /\ alive' = alive \ {h}
    /\ locks' = [locks EXCEPT ![h] = [k \in ResourceKeys |-> 0]]
    /\ TaskOnly
    /\ UNCHANGED <<lease, needed, pending, acquiring, granted, ghost, rival, losses>>

-----------------------------------------------------------------------------
(* The shutdown of a host.                                                  *)

ShutdownBegins(h) ==
    /\ h \in Stoppable /\ stage[h] = "up"
    /\ stage' = [stage EXCEPT ![h] = "draining"]
    /\ Revoke(h, Connections)
    /\ UNCHANGED <<registryVars, holder, taskVars, serverVars, callVars>>

\* Every lease is released; the session is told to stop.
LeasesDrained(h) ==
    /\ stage[h] = "draining"
    /\ \A c \in Connections : State(h, c) = "released"
    /\ stage' = [stage EXCEPT ![h] = "closing"]
    /\ Enqueue(h, "stop", NoConn)
    /\ UNCHANGED <<registryVars, lease, holder, revoking, needed, pending, acquiring, granted,
                   inHand, session, serverVars, callVars>>

ShutdownEnds(h) ==
    /\ stage[h] = "closing" /\ session[h] = "ended"
    /\ stage' = [stage EXCEPT ![h] = "stopped"]
    /\ UNCHANGED <<registryVars, lease, holder, revoking, taskVars, serverVars, callVars>>

-----------------------------------------------------------------------------
\* A step of the session task that does not depend on a failure.
TaskStep(h) ==
    \/ NextPending(h) \/ Acquired(h) \/ CancelForCommand(h) \/ AcquireTurn(h)
    \/ HandleAcquire(h) \/ HandleRelease(h) \/ HandleStop(h)
    \/ LeasesDrained(h) \/ ShutdownEnds(h)

\* The steps of a call that holds the mutex.
HoldingStep(p) ==
    CheckLease(p) \/ CheckRevision(p) \/ Resolve(p) \/ \E used \in BOOLEAN : Return(p, used)

CallStep(p) ==
    ReadFact(p) \/ Enter(p) \/ Refuse(p) \/ LockCall(p) \/ HoldingStep(p)

Next ==
    \/ \E c \in Connections : ChangeConnection(c) \/ \E p \in Callers : Start(p, c)
    \/ \E p \in Callers : CallStep(p)
    \/ \E h \in Hosts : \E c \in Connections : DeliverDelete(h, c) \/ DropFact(h, c) \/ RevokeSends(h, c)
    \/ \E h \in Hosts :
          \/ WatchBreaks(h) \/ Connect(h) \/ SessionBreaks(h) \/ ServerKills(h)
          \/ ServerGrants(h) \/ ShutdownBegins(h) \/ TaskStep(h)
    \/ \E k \in ResourceKeys : GhostEnds(k)
    \/ \E k \in Rivals : RivalSession(k)

Spec == Init /\ [][Next]_vars

\* Tasks and calls run, the watch delivers, the server grants a free lock, ends
\* an abandoned session and accepts a new one.  A dead session is noticed.
\* Losses and changes are bounded and never forced.
LiveSpec ==
    /\ Spec
    /\ \A h \in Hosts :
          /\ WF_vars(TaskStep(h)) /\ WF_vars(Connect(h))
          /\ WF_vars(h \notin alive /\ SessionBreaks(h))
          /\ WF_vars(\E c \in Connections : RevokeSends(h, c))
          /\ \A c \in Connections : SF_vars(acquiring[h] = c /\ ServerGrants(h))
    /\ \A p \in Callers : WF_vars(HoldingStep(p))
    /\ WF_vars(\E k \in ResourceKeys : GhostEnds(k))

-----------------------------------------------------------------------------
(* Properties.                                                              *)

Leases == [state : {"pending", "held", "lost", "released"}, active : BOOLEAN, epoch : Nat]
Commands == [op : {"acquire", "release"}, conn : Connections] \cup [op : {"stop"}, conn : {NoConn}]
Phases == {"idle", "fact", "enter", "wait", "refused"} \cup Locking

RegistryTypes ==
    /\ enabled \subseteq Connections /\ due \in [Hosts -> SUBSET Connections]
    /\ applying \in [Hosts -> SUBSET Connections]
    /\ changes \in 0 .. MaxChanges
LeaseTypes ==
    /\ lease \in [Hosts -> [Connections -> Leases]]
    /\ holder \in [Hosts -> [Connections -> Callers \cup {NoCaller}]]
    /\ revoking \in [Hosts -> SUBSET Connections]
    /\ stage \in [Hosts -> {"up", "draining", "closing", "stopped"}]
TaskTypes ==
    /\ commands \in [Hosts -> Seq(Commands)] /\ needed \in [Hosts -> SUBSET Connections]
    /\ pending \in [Hosts -> Seq(Connections \cup {NoConn})]
    /\ acquiring \in [Hosts -> Connections \cup {NoConn}]
    /\ granted \in [Hosts -> BOOLEAN] /\ inHand \in [Hosts -> BOOLEAN]
    /\ session \in [Hosts -> {"none", "open", "ended"}]
ServerTypes ==
    /\ alive \subseteq Hosts /\ ghost \subseteq ResourceKeys /\ rival \subseteq ResourceKeys
    /\ locks \in [Hosts -> [ResourceKeys -> Nat]] /\ losses \in 0 .. MaxLosses
CallTypes ==
    /\ phase \in [Callers -> Phases] /\ conn \in [Callers -> Connections \cup {NoConn}]
    /\ epoch \in [Callers -> Nat] /\ stale \subseteq Callers /\ broken \subseteq Callers

\* Every table, queue and call keeps its type.
TypeOK == RegistryTypes /\ LeaseTypes /\ TaskTypes /\ ServerTypes /\ CallTypes

\* The resource is exclusive: two calls run on one resource key, through one
\* connection or two, on one host or two, only if the session of one of them
\* is already gone; and none runs while another host's session has the key.
Undisturbed(p) == phase[p] = "run" /\ p \notin broken /\ HostOf[p] \in alive

SoleCall ==
    \A p \in Callers : Undisturbed(p) =>
        /\ KeyOf[conn[p]] \notin rival
        /\ \A q \in Callers \ {p} : Undisturbed(q) => KeyOf[conn[p]] # KeyOf[conn[q]]

\* A call works under the lock: from the check of its lease under the mutex to its
\* return, the live session of its host holds the resource key, though the lease may be
\* revoked, a shutdown may begin and another connection may wait for the session.
WorksUnderLock ==
    \A p \in Callers :
        phase[p] \in Locking \ {"locked"} /\ p \notin broken /\ HostOf[p] \in alive =>
            locks[HostOf[p]][KeyOf[conn[p]]] > 0

\* The leases of key k whose lock the session of h has taken.
Taken(h, k) ==
    {c \in Connections : KeyOf[c] = k /\ (State(h, c) = "held" \/ (acquiring[h] = c /\ granted[h]))}

\* One connection at most has the resource key k.
Sole(k) == \A c, d \in Connections : KeyOf[c] = k /\ KeyOf[d] = k => c = d

\* The lock count follows the leases: a live session has the lock of every lease
\* that it took, and the lock of a connection that shares its key with no other
\* one exactly once for the lease and not at all without it, so that a release
\* leaves the resource free.
LockCounted ==
    \A h \in alive : \A k \in ResourceKeys :
        /\ Taken(h, k) # {} => locks[h][k] > 0
        /\ Sole(k) => locks[h][k] = Cardinality(Taken(h, k))

\* The same for every key, also one that two connections share: the session
\* holds it once for its one held lease and not at all without one.
LockFollowsLease ==
    \A h \in alive : \A k \in ResourceKeys :
        locks[h][k] = Cardinality(Taken(h, k)) /\ locks[h][k] <= 1

\* A result is used only if the host saw no loss of the session during the call,
\* though the lease may have been acquired again before the call returned.
ResultUnbroken ==
    [][\A p \in Callers : Return(p, TRUE) => p \notin broken]_vars

\* A delete ends the lease: once the host has applied it, an active lease of the
\* connection is only that of a call in flight, which gives it up.
DeletedLeaseEnds ==
    \A h \in Hosts : \A c \in Connections :
        Active(h, c) => \/ c \in enabled \cup due[h] \cup applying[h]
                        \/ \E p \in Callers : HostOf[p] = h /\ conn[p] = c

\* No lease stays revoked without its release and no shutdown stays under way:
\* neither waits for a release that a lost session, a failed unlock or a waiting
\* acquire swallowed.
RevokedLeaseEnds ==
    \A h \in Hosts :
        /\ \A c \in Connections : []<>(Active(h, c) \/ State(h, c) = "released")
        /\ []<>(stage[h] \notin {"draining", "closing"})

\* A waiting resource does not keep another one from the session: a lease is not
\* pending forever while its key is free for it.
FreeKeyAcquired ==
    \A h \in Hosts : \A c \in Connections :
        []<>~(/\ State(h, c) = "pending" /\ Active(h, c) /\ KeyOf[c] \notin ghost \cup rival
              /\ \A o \in Hosts : locks[o][KeyOf[c]] = 0)
==============================================================================
