-------------------------- MODULE ResourceLeaseProofs --------------------------
(***************************************************************************)
(* Proofs about ResourceLease, for every number of hosts, connections,     *)
(* calls, registry changes and lost sessions, whether or not connections   *)
(* share a resource key: two calls never work on one resource under live   *)
(* sessions, each of them works under the lock, a result over a broken     *)
(* session is never used, and the lock count of a session follows its      *)
(* leases.                                                                 *)
(*                                                                         *)
(* The invariant is made of predicates of the values of one host or of one *)
(* call, so a step leaves those of the others alone.                       *)
(***************************************************************************)
EXTENDS ResourceLease, FiniteSetTheorems, TLAPS

-----------------------------------------------------------------------------
(* The inductive invariant.                                                 *)

\* The command at i of the channel releases c.
Releases(cmds, i, c) == cmds[i] = [op |-> "release", conn |-> c]

\* A lease is revoked once: its revoke task waits, or its one release is in the
\* channel and no call holds its mutex.
RevokedOnce(l, mutex, waits, cmds) ==
    /\ \A c \in Connections : l[c].active => l[c].state # "released"
    /\ \A c \in waits : ~l[c].active /\ l[c].state # "released"
    /\ \A c \in Connections : \A i \in 1 .. Len(cmds) : Releases(cmds, i, c) =>
           /\ ~l[c].active /\ l[c].state # "released"
           /\ c \notin waits /\ mutex[c] = NoCaller
           /\ \A j \in 1 .. Len(cmds) : Releases(cmds, j, c) => j = i

\* The leases of a host, held and to acquire: one lease holds a key, and the
\* one that is acquired does not share it with one that is held.
TurnsGood(l, need, turns, next, got, sess) ==
    /\ \A c \in Connections : l[c].state = "held" => c \in need /\ sess # "none"
    /\ \A c, d \in Connections :
           l[c].state = "held" /\ l[d].state = "held" /\ KeyOf[c] = KeyOf[d] => c = d
    /\ \A i \in 1 .. Len(turns) : \A c \in Connections :
           turns[i] = c /\ l[c].active => c \in need
    /\ next # NoConn =>
           /\ next \in need /\ sess = "open"
           /\ \A d \in Connections :
                  l[d].state = "held" /\ KeyOf[d] = KeyOf[next] => d = next
    /\ got => next # NoConn

\* The locks of a session: one that lives has the lock of every lease that it
\* holds and of the statement that was granted.
LocksGood(h, l, next, got, sess, live, taken) ==
    /\ h \in live => sess = "open"
    /\ \A k \in ResourceKeys : taken[k] > 0 => h \in live
    /\ h \in live => \A c \in Connections : l[c].state = "held" => taken[KeyOf[c]] > 0
    /\ h \in live /\ got => taken[KeyOf[next]] > 0

\* A call p that holds the mutex: its lease is held unless the host saw the
\* session break during the call, and then the epoch of the lease has moved.
CallGood(l, mutex, p, ph, c, ep, br) ==
    /\ ph # "idle" => c \in Connections
    /\ p \in br => ph \in Locking
    /\ ph \in Locking =>
           /\ mutex = p /\ l.state # "released" /\ ep <= l.epoch
           /\ p \in br => ep < l.epoch
           /\ p \notin br => l.state = "held"

\* One session has the lock of a key.
Exclusive ==
    \A h \in Hosts : \A k \in ResourceKeys : locks[h][k] > 0 =>
        k \notin rival /\ \A o \in Hosts : locks[o][k] > 0 => o = h

HostGood(h) ==
    /\ RevokedOnce(lease[h], holder[h], revoking[h], commands[h])
    /\ TurnsGood(lease[h], needed[h], pending[h], acquiring[h], granted[h], session[h])
    /\ LocksGood(h, lease[h], acquiring[h], granted[h], session[h], alive, locks[h])

CallerGood(p) ==
    CallGood(lease[HostOf[p]][conn[p]], holder[HostOf[p]][conn[p]], p, phase[p], conn[p],
             epoch[p], broken)

Inv ==
    /\ TypeOK
    /\ \A h \in Hosts : HostGood(h)
    /\ \A p \in Callers : CallerGood(p)
    /\ Exclusive

-----------------------------------------------------------------------------
(* The channel and the revokes of a host.                                   *)

LeaseTable == [Connections -> Leases]

LEMMA LeaseForm ==
  ASSUME NEW l \in LeaseTable, NEW c \in Connections
  PROVE  /\ l[c] \in Leases /\ l[c].state \in {"pending", "held", "lost", "released"}
         /\ l[c].active \in BOOLEAN /\ l[c].epoch \in Nat
BY DEF LeaseTable, Leases

LEMMA CommandForm ==
  ASSUME NEW cmds \in Seq(Commands)
  PROVE  /\ Len(cmds) \in Nat /\ \A i \in 1 .. Len(cmds) : cmds[i] \in Commands
         /\ \A x \in Commands : x.op \in {"acquire", "release"} => x.conn \in Connections
<1>1. Len(cmds) \in Nat /\ \A i \in 1 .. Len(cmds) : cmds[i] \in Commands
  OBVIOUS
<1>2. \A x \in Commands : x.op \in {"acquire", "release"} => x.conn \in Connections
  BY DEF Commands
<1> QED  BY <1>1, <1>2

\* A table whose leases are no more active and are not released.
LEMMA RevokedKeeps ==
  ASSUME NEW l, NEW l2, NEW m, NEW m2, NEW waits \in SUBSET Connections, NEW cmds, RevokedOnce(l, m, waits, cmds),
         \A c \in Connections :
             /\ l2[c].active => l[c].active
             /\ l[c].state # "released" => l2[c].state # "released"
             /\ m[c] = NoCaller /\ ~l[c].active => m2[c] = NoCaller
  PROVE  RevokedOnce(l2, m2, waits, cmds)
BY DEF RevokedOnce

\* revoke of the connections C.
LEMMA RevokedMore ==
  ASSUME NEW l, NEW l2, NEW m, NEW waits \in SUBSET Connections, NEW more \in SUBSET Connections, NEW cmds,
         RevokedOnce(l, m, waits, cmds),
         \A c \in Connections : l2[c].state = l[c].state /\ (l2[c].active => l[c].active),
         \A c \in more : l[c].active /\ ~l2[c].active
  PROVE  RevokedOnce(l2, m, waits \cup more, cmds)
<1>1. \A c \in waits \cup more : ~l2[c].active /\ l2[c].state # "released"
  BY DEF RevokedOnce
<1>2. ASSUME NEW c \in Connections, NEW i \in 1 .. Len(cmds), Releases(cmds, i, c)
      PROVE  /\ ~l2[c].active /\ l2[c].state # "released"
             /\ c \notin waits \cup more /\ m[c] = NoCaller
             /\ \A j \in 1 .. Len(cmds) : Releases(cmds, j, c) => j = i
  BY <1>2 DEF RevokedOnce
<1>3. \A c \in Connections : l2[c].active => l2[c].state # "released"
  BY DEF RevokedOnce
<1> QED  BY <1>1, <1>2, <1>3 DEF RevokedOnce

\* Another command enters the channel.
LEMMA OtherCommand ==
  ASSUME NEW l, NEW m, NEW waits, NEW cmds \in Seq(Commands), NEW x \in Commands, x.op # "release",
         RevokedOnce(l, m, waits, cmds)
  PROVE  RevokedOnce(l, m, waits, Append(cmds, x))
<1>1. PICK q : q = Append(cmds, x)
  OBVIOUS
<1>2. Len(cmds) \in Nat /\ Len(q) = Len(cmds) + 1 /\ q[Len(cmds) + 1] = x
      /\ \A i \in 1 .. Len(cmds) : q[i] = cmds[i]
  BY <1>1
<1>3. ASSUME NEW i \in 1 .. Len(q), NEW c, Releases(q, i, c)
      PROVE  i \in 1 .. Len(cmds) /\ Releases(cmds, i, c)
  <2>1. i # Len(cmds) + 1
    BY <1>2, <1>3 DEF Releases
  <2> QED  BY <1>2, <1>3, <2>1 DEF Releases
<1>4. RevokedOnce(l, m, waits, q)
  BY <1>3 DEF RevokedOnce
<1> QED  BY <1>1, <1>4

\* The revoke task sends the release.
LEMMA ReleaseSent ==
  ASSUME NEW l, NEW m, NEW waits \in SUBSET Connections, NEW cmds \in Seq(Commands), NEW c \in waits,
         m[c] = NoCaller, RevokedOnce(l, m, waits, cmds)
  PROVE  RevokedOnce(l, m, waits \ {c}, Append(cmds, [op |-> "release", conn |-> c]))
<1>1. PICK q : q = Append(cmds, [op |-> "release", conn |-> c])
  OBVIOUS
<1>2. /\ Len(cmds) \in Nat /\ Len(q) = Len(cmds) + 1 /\ q[Len(cmds) + 1] = [op |-> "release", conn |-> c]
      /\ \A i \in 1 .. Len(cmds) : q[i] = cmds[i]
  BY <1>1
<1>3. \A i \in 1 .. Len(cmds) : ~Releases(cmds, i, c)
  BY DEF RevokedOnce
<1>4. ASSUME NEW d \in Connections, NEW i \in 1 .. Len(q), Releases(q, i, d)
      PROVE  /\ ~l[d].active /\ l[d].state # "released"
             /\ d \notin waits \ {c} /\ m[d] = NoCaller
             /\ \A j \in 1 .. Len(q) : Releases(q, j, d) => j = i
  <2>1. CASE d = c
    <3>1. \A j \in 1 .. Len(q) : Releases(q, j, c) => j = Len(cmds) + 1
      BY <1>2, <1>3 DEF Releases
    <3>2. ~l[c].active /\ l[c].state # "released"
      BY DEF RevokedOnce
    <3> QED  BY <1>4, <2>1, <3>1, <3>2
  <2>2. CASE d # c
    <3>1. \A j \in 1 .. Len(q) : Releases(q, j, d) => j \in 1 .. Len(cmds) /\ Releases(cmds, j, d)
      BY <1>2, <2>2 DEF Releases
    <3> QED  BY <1>4, <3>1 DEF RevokedOnce
  <2> QED  BY <2>1, <2>2
<1>5. \A d \in waits \ {c} : ~l[d].active /\ l[d].state # "released"
  BY DEF RevokedOnce
<1>6. RevokedOnce(l, m, waits \ {c}, q)
  BY <1>4, <1>5 DEF RevokedOnce
<1> QED  BY <1>1, <1>6

LEMMA TailForm ==
  ASSUME NEW S, NEW q \in Seq(S), q # <<>>
  PROVE  /\ Tail(q) \in Seq(S) /\ Head(q) \in S /\ Head(q) = q[1] /\ 1 \in 1 .. Len(q)
         /\ Len(Tail(q)) = Len(q) - 1 /\ Len(q) \in Nat
         /\ \A i \in 1 .. Len(Tail(q)) : Tail(q)[i] = q[i + 1] /\ (i + 1) \in 1 .. Len(q)
OBVIOUS

\* The first command is handled.
LEMMA CommandHandled ==
  ASSUME NEW l, NEW l2, NEW m, NEW waits \in SUBSET Connections, NEW cmds \in Seq(Commands), cmds # <<>>,
         RevokedOnce(l, m, waits, cmds),
         \A d \in Connections :
             \/ l2[d] = l[d]
             \/ Releases(cmds, 1, d) /\ l2[d] = Released
  PROVE  RevokedOnce(l2, m, waits, Tail(cmds))
<1>1. PICK t : t = Tail(cmds)
  OBVIOUS
<1>2. /\ 1 \in 1 .. Len(cmds) /\ Len(cmds) \in Nat /\ Len(t) = Len(cmds) - 1
      /\ \A i \in 1 .. Len(t) : t[i] = cmds[i + 1] /\ (i + 1) \in 1 .. Len(cmds)
  BY <1>1, TailForm
<1>3. \A d \in waits : l2[d] = l[d]
  BY <1>2 DEF RevokedOnce
<1>4. ASSUME NEW d \in Connections, NEW i \in 1 .. Len(t), Releases(t, i, d)
      PROVE  /\ ~l2[d].active /\ l2[d].state # "released"
             /\ d \notin waits /\ m[d] = NoCaller
             /\ \A j \in 1 .. Len(t) : Releases(t, j, d) => j = i
  <2>1. Releases(cmds, i + 1, d) /\ (i + 1) \in 1 .. Len(cmds) /\ i + 1 # 1
    BY <1>2, <1>4 DEF Releases
  <2>2. ~Releases(cmds, 1, d)
    BY <1>2, <2>1 DEF RevokedOnce
  <2>3. l2[d] = l[d]
    BY <2>2
  <2>4. /\ ~l[d].active /\ l[d].state # "released"
        /\ d \notin waits /\ m[d] = NoCaller
        /\ \A j \in 1 .. Len(cmds) : Releases(cmds, j, d) => j = i + 1
    BY <2>1 DEF RevokedOnce
  <2>5. ASSUME NEW j \in 1 .. Len(t), Releases(t, j, d)  PROVE j = i
    <3>1. Releases(cmds, j + 1, d) /\ (j + 1) \in 1 .. Len(cmds)
      BY <1>2, <2>5 DEF Releases
    <3>2. j + 1 = i + 1
      BY <2>4, <3>1
    <3> QED  BY <1>2, <3>2
  <2> QED  BY <2>3, <2>4, <2>5
<1>5. \A d \in waits : ~l2[d].active /\ l2[d].state # "released"
  BY <1>3 DEF RevokedOnce
<1>6. \A d \in Connections : l2[d].active => l2[d].state # "released"
  BY DEF RevokedOnce, Released
<1>7. RevokedOnce(l2, m, waits, t)
  BY <1>4, <1>5, <1>6 DEF RevokedOnce
<1> QED  BY <1>1, <1>7

\* A new lease of c in the place of a released one.
LEMMA LeaseRenewed ==
  ASSUME NEW l \in LeaseTable, NEW l2, NEW m, NEW waits \in SUBSET Connections, NEW cmds, NEW c \in Connections,
         RevokedOnce(l, m, waits, cmds), l[c].state = "released",
         l2 = [l EXCEPT ![c] = [state |-> "pending", active |-> TRUE, epoch |-> 0]]
  PROVE  RevokedOnce(l2, m, waits, cmds)
<1>1. \A d \in Connections : l2[d] = IF d = c THEN [state |-> "pending", active |-> TRUE, epoch |-> 0] ELSE l[d]
  BY DEF LeaseTable
<1>2. c \notin waits /\ \A i \in 1 .. Len(cmds) : ~Releases(cmds, i, c)
  BY DEF RevokedOnce
<1>3. \A d \in waits : ~l2[d].active /\ l2[d].state # "released"
  BY <1>1, <1>2 DEF RevokedOnce
<1>4. ASSUME NEW d \in Connections, NEW i \in 1 .. Len(cmds), Releases(cmds, i, d)
      PROVE  l2[d] = l[d]
  BY <1>1, <1>2, <1>4
<1>5. \A d \in Connections : l2[d].active => l2[d].state # "released"
  BY <1>1 DEF RevokedOnce
<1> QED  BY <1>3, <1>4, <1>5 DEF RevokedOnce

-----------------------------------------------------------------------------
(* The session task of a host.                                              *)

\* Leases that are no more held and no more active.
LEMMA TurnsKept ==
  ASSUME NEW l, NEW l2, NEW need, NEW turns, NEW next, NEW got, NEW sess,
         TurnsGood(l, need, turns, next, got, sess),
         \A c \in Connections :
             /\ l2[c].state = "held" => l[c].state = "held"
             /\ l2[c].active => l[c].active
  PROVE  TurnsGood(l2, need, turns, next, got, sess)
BY DEF TurnsGood

LEMMA TurnsRenewed ==
  ASSUME NEW l \in LeaseTable, NEW l2, NEW need, NEW turns, NEW next, NEW got, NEW sess,
         NEW c \in Connections, TurnsGood(l, need, turns, next, got, sess),
         l2 = [l EXCEPT ![c] = [state |-> "pending", active |-> TRUE, epoch |-> 0]]
  PROVE  TurnsGood(l2, need, Forget(turns, c), next, got, sess)
<1>1. \A d \in Connections : l2[d] = IF d = c THEN [state |-> "pending", active |-> TRUE, epoch |-> 0] ELSE l[d]
  BY DEF LeaseTable
<1>2. \A d \in Connections : l2[d].state = "held" => d # c /\ l[d].state = "held"
  BY <1>1
<1>3. PICK t : t = Forget(turns, c)
  OBVIOUS
<1>4. ASSUME NEW i \in 1 .. Len(t), NEW d \in Connections, t[i] = d, l2[d].active
      PROVE  d \in need
  <2>1. CASE Len(turns) \in Nat
    <3>1. Len(t) = Len(turns) /\ t[i] = (IF turns[i] = c THEN NoConn ELSE turns[i])
      BY <1>3, <2>1 DEF Forget
    <3>2. d # NoConn
      BY LeaseAssumption
    <3>3. d # c /\ turns[i] = d
      BY <1>4, <3>1, <3>2
    <3>4. l[d].active
      BY <1>1, <1>4, <3>3
    <3> QED  BY <3>1, <3>3, <3>4 DEF TurnsGood
  <2> QED  BY <2>1
<1>5. TurnsGood(l2, need, t, next, got, sess)
  BY <1>2, <1>4 DEF TurnsGood
<1> QED  BY <1>3, <1>5

\* The session is lost: no lease is held any more.
LEMMA TurnsLost ==
  ASSUME NEW l2, NEW need, \A c \in Connections : l2[c].state # "held"
  PROVE  TurnsGood(l2, need, <<>>, NoConn, FALSE, "none")
BY DEF TurnsGood

\* A session opens with the turns s.
LEMMA TurnsOpened ==
  ASSUME NEW l, NEW need, NEW turns, NEW next, NEW got \in BOOLEAN, NEW s,
         TurnsGood(l, need, turns, next, got, "none"),
         \A i \in 1 .. Len(s) : s[i] \in need
  PROVE  TurnsGood(l, need, s, next, got, "open")
BY DEF TurnsGood

\* The first turn is taken: it is skipped, or its lock statement is sent.
LEMMA TurnsTaken ==
  ASSUME NEW l, NEW need \in SUBSET Connections, NEW turns \in Seq(Connections \cup {NoConn}), NEW got \in BOOLEAN,
         turns # <<>>, TurnsGood(l, need, turns, NoConn, got, "open"), NEW n,
         \/ n = NoConn
         \/ /\ n = Head(turns) /\ n \in Connections /\ l[n].active
            /\ \A d \in need \ {n} : ~(KeyOf[d] = KeyOf[n] /\ l[d].state = "held")
  PROVE  TurnsGood(l, need, Tail(turns), n, got, "open")
<1>1. PICK t : t = Tail(turns)
  OBVIOUS
<1>2. /\ Head(turns) = turns[1] /\ 1 \in 1 .. Len(turns)
      /\ \A i \in 1 .. Len(t) : t[i] = turns[i + 1] /\ (i + 1) \in 1 .. Len(turns)
  BY <1>1, TailForm
<1>3. ~got
  BY DEF TurnsGood
<1>4. n # NoConn => n \in need
  BY <1>2 DEF TurnsGood
<1>5. n # NoConn => \A d \in Connections : l[d].state = "held" /\ KeyOf[d] = KeyOf[n] => d = n
  BY DEF TurnsGood
<1>6. \A i \in 1 .. Len(t) : \A c \in Connections : t[i] = c /\ l[c].active => c \in need
  BY <1>2 DEF TurnsGood
<1>7. TurnsGood(l, need, t, n, got, "open")
  BY <1>3, <1>4, <1>5, <1>6 DEF TurnsGood
<1> QED  BY <1>1, <1>7

\* The statement of the lease next is granted.
LEMMA TurnsGranted ==
  ASSUME NEW l, NEW need, NEW turns, NEW next, NEW got, NEW sess, next # NoConn,
         TurnsGood(l, need, turns, next, got, sess)
  PROVE  TurnsGood(l, need, turns, next, TRUE, sess)
BY DEF TurnsGood

\* The statement ends with the lease held.
LEMMA TurnsHeld ==
  ASSUME NEW l, NEW l2, NEW need, NEW turns, NEW next \in Connections, NEW got, NEW sess,
         TurnsGood(l, need, turns, next, got, sess),
         \A c \in Connections : l2[c].active => l[c].active,
         \A c \in Connections \ {next} : l2[c].state = l[c].state
  PROVE  TurnsGood(l2, need, turns, NoConn, FALSE, sess)
<1>1. next \in need /\ sess = "open"
  BY LeaseAssumption DEF TurnsGood
<1>2. \A d \in Connections : l[d].state = "held" /\ KeyOf[d] = KeyOf[next] => d = next
  BY LeaseAssumption DEF TurnsGood
<1>3. \A c \in Connections : l2[c].state = "held" => c \in need /\ sess # "none"
  BY <1>1 DEF TurnsGood
<1>4. ASSUME NEW c \in Connections, NEW d \in Connections, l2[c].state = "held", l2[d].state = "held",
             KeyOf[c] = KeyOf[d]
      PROVE  c = d
  BY <1>2, <1>4 DEF TurnsGood
<1>5. \A i \in 1 .. Len(turns) : \A c \in Connections : turns[i] = c /\ l2[c].active => c \in need
  BY DEF TurnsGood
<1> QED  BY <1>3, <1>4, <1>5 DEF TurnsGood

\* A lease that is needed, or not active, gets a turn.
LEMMA TurnsAppended ==
  ASSUME NEW l, NEW need, NEW turns \in Seq(Connections \cup {NoConn}), NEW next, NEW got, NEW sess,
         TurnsGood(l, need, turns, next, got, sess), NEW c \in Connections, c \in need
  PROVE  TurnsGood(l, need, Append(turns, c), next, got, sess)
<1>1. PICK t : t = Append(turns, c)
  OBVIOUS
<1>2. /\ Len(turns) \in Nat /\ Len(t) = Len(turns) + 1 /\ t[Len(turns) + 1] = c
      /\ \A i \in 1 .. Len(turns) : t[i] = turns[i]
  BY <1>1
<1>3. ASSUME NEW i \in 1 .. Len(t), NEW d \in Connections, t[i] = d, l[d].active
      PROVE  d \in need
  <2>1. CASE i = Len(turns) + 1
    BY <1>2, <1>3, <2>1
  <2>2. CASE i # Len(turns) + 1
    <3>1. i \in 1 .. Len(turns) /\ turns[i] = d
      BY <1>2, <1>3, <2>2
    <3> QED  BY <1>3, <3>1 DEF TurnsGood
  <2> QED  BY <2>1, <2>2
<1>4. TurnsGood(l, need, t, next, got, sess)
  BY <1>3 DEF TurnsGood
<1> QED  BY <1>1, <1>4

\* The statement was cancelled before its grant.
LEMMA TurnsCancelled ==
  ASSUME NEW l, NEW need, NEW turns, NEW next, NEW got, NEW sess,
         TurnsGood(l, need, turns, next, got, sess)
  PROVE  TurnsGood(l, need, turns, NoConn, FALSE, sess)
BY DEF TurnsGood

\* A lease is needed.
LEMMA TurnsNeeded ==
  ASSUME NEW l, NEW need, NEW need2, NEW turns, NEW next, NEW got, NEW sess, need \subseteq need2,
         TurnsGood(l, need, turns, next, got, sess)
  PROVE  TurnsGood(l, need2, turns, next, got, sess)
BY DEF TurnsGood

\* A lease is released; the leases s get a turn.
LEMMA TurnsReleased ==
  ASSUME NEW l \in LeaseTable, NEW need, NEW turns, NEW got \in BOOLEAN, NEW sess,
         TurnsGood(l, need, turns, NoConn, got, sess), NEW c \in Connections,
         NEW l2, \A d \in Connections : l2[d] = IF d = c THEN Released ELSE l[d]
  PROVE  TurnsGood(l2, need \ {c}, turns, NoConn, got, sess)
<1>2. \A d \in Connections : l2[d] = IF d = c THEN Released ELSE l[d]
  OBVIOUS
<1>3. ~l2[c].active /\ l2[c].state # "held"
  BY <1>2 DEF Released
<1>4. \A d \in Connections : l2[d].state = "held" => d # c /\ l[d].state = "held"
  BY <1>2, <1>3
<1>5. \A d \in Connections : l2[d].active => d # c /\ l[d].active
  BY <1>2, <1>3
<1>6. TurnsGood(l2, need \ {c}, turns, NoConn, got, sess)
  BY <1>4, <1>5 DEF TurnsGood
<1> QED  BY <1>6

LEMMA TurnsJoined ==
  ASSUME NEW l, NEW need, NEW turns \in Seq(Connections \cup {NoConn}), NEW next, NEW got, NEW sess,
         TurnsGood(l, need, turns, next, got, sess), NEW s \in Seq(Connections),
         \A i \in 1 .. Len(s) : s[i] \in need
  PROVE  TurnsGood(l, need, turns \o s, next, got, sess)
<1>1. PICK t : t = turns \o s
  OBVIOUS
<1>2. /\ Len(turns) \in Nat /\ Len(s) \in Nat /\ Len(t) = Len(turns) + Len(s)
      /\ \A i \in 1 .. Len(t) : t[i] = IF i <= Len(turns) THEN turns[i] ELSE s[i - Len(turns)]
  BY <1>1
<1>3. ASSUME NEW i \in 1 .. Len(t), NEW d \in Connections, t[i] = d, l[d].active
      PROVE  d \in need
  <2>1. CASE i <= Len(turns)
    <3>1. i \in 1 .. Len(turns) /\ turns[i] = d
      BY <1>2, <1>3, <2>1
    <3> QED  BY <1>3, <3>1 DEF TurnsGood
  <2>2. CASE ~(i <= Len(turns))
    <3>1. i - Len(turns) \in 1 .. Len(s) /\ s[i - Len(turns)] = d
      BY <1>2, <1>3, <2>2
    <3> QED  BY <3>1
  <2> QED  BY <2>1, <2>2
<1>4. TurnsGood(l, need, t, next, got, sess)
  BY <1>3 DEF TurnsGood
<1> QED  BY <1>1, <1>4

\* The session ends for good.
LEMMA TurnsEnded ==
  ASSUME NEW l, NEW need, NEW turns, NEW got, NEW sess,
         TurnsGood(l, need, turns, NoConn, got, sess)
  PROVE  TurnsGood(l, need, turns, NoConn, got, "ended")
BY DEF TurnsGood

-----------------------------------------------------------------------------
(* The locks of a session.                                                  *)

\* Leases that are no more held.
LEMMA LocksKept ==
  ASSUME NEW h, NEW l, NEW l2, NEW next, NEW got, NEW sess, NEW live, NEW live2, NEW taken,
         LocksGood(h, l, next, got, sess, live, taken), h \in live <=> h \in live2,
         \A c \in Connections : l2[c].state = "held" => l[c].state = "held"
  PROVE  LocksGood(h, l2, next, got, sess, live2, taken)
BY DEF LocksGood

\* A session that is gone.
LEMMA LocksGone ==
  ASSUME NEW h, NEW l, NEW next, NEW got, NEW sess, NEW live, NEW taken,
         h \notin live, \A k \in ResourceKeys : taken[k] = 0
  PROVE  LocksGood(h, l, next, got, sess, live, taken)
BY DEF LocksGood

\* A session opens.
LEMMA LocksOpened ==
  ASSUME NEW h, NEW l, NEW need, NEW turns, NEW next, NEW got \in BOOLEAN, NEW live, NEW taken,
         TurnsGood(l, need, turns, next, got, "none"),
         LocksGood(h, l, next, got, "none", live, taken)
  PROVE  LocksGood(h, l, next, got, "open", live \cup {h}, taken)
<1>1. ~got /\ \A c \in Connections : l[c].state # "held"
  BY DEF TurnsGood
<1> QED  BY <1>1 DEF LocksGood

\* No statement was granted.
LEMMA LocksAsked ==
  ASSUME NEW h, NEW l, NEW next, NEW next2, NEW got \in BOOLEAN, NEW sess, NEW live, NEW taken, ~got,
         LocksGood(h, l, next, got, sess, live, taken)
  PROVE  LocksGood(h, l, next2, got, sess, live, taken)
BY DEF LocksGood

\* The server grants the lock.
LEMMA LocksGranted ==
  ASSUME NEW h, NEW l, NEW next \in Connections, NEW got, NEW sess, NEW live, NEW taken \in [ResourceKeys -> Nat],
         h \in live, LocksGood(h, l, next, got, sess, live, taken)
  PROVE  LocksGood(h, l, next, TRUE, sess, live, [taken EXCEPT ![KeyOf[next]] = @ + 1])
<1>1. PICK t : t = [taken EXCEPT ![KeyOf[next]] = @ + 1]
  OBVIOUS
<1>2. KeyOf[next] \in ResourceKeys /\ \A c \in Connections : KeyOf[c] \in ResourceKeys
  BY LeaseAssumption
<1>3. t[KeyOf[next]] > 0 /\ \A k \in ResourceKeys : taken[k] > 0 => t[k] > 0
  BY <1>1, <1>2
<1>4. LocksGood(h, l, next, TRUE, sess, live, t)
  BY <1>2, <1>3 DEF LocksGood
<1> QED  BY <1>1, <1>4

\* The granted statement ends with its lease held.
LEMMA LocksHeld ==
  ASSUME NEW h, NEW l, NEW l2, NEW next, NEW sess, NEW live, NEW taken,
         LocksGood(h, l, next, TRUE, sess, live, taken),
         \A c \in Connections \ {next} : l2[c].state = l[c].state
  PROVE  LocksGood(h, l2, NoConn, FALSE, sess, live, taken)
BY DEF LocksGood

LEMMA LocksCancelled ==
  ASSUME NEW h, NEW l, NEW next, NEW got, NEW sess, NEW live, NEW taken,
         LocksGood(h, l, next, got, sess, live, taken)
  PROVE  LocksGood(h, l, NoConn, FALSE, sess, live, taken)
BY DEF LocksGood

\* A held lease is unlocked: no other lease relies on the lock.
LEMMA LocksReleased ==
  ASSUME NEW h, NEW l, NEW sess, NEW live, NEW taken \in [ResourceKeys -> Nat], NEW c \in Connections,
         \A d \in Connections : l[d].state = "held" /\ KeyOf[d] = KeyOf[c] => d = c,
         LocksGood(h, l, NoConn, FALSE, sess, live, taken),
         NEW l2, \A d \in Connections : l2[d] = IF d = c THEN Released ELSE l[d],
         NEW t, t = [taken EXCEPT ![KeyOf[c]] = @ - 1], h \in live
  PROVE  LocksGood(h, l2, NoConn, FALSE, sess, live, t)
<1>3. \A d \in Connections : l2[d].state = "held" => d # c /\ l[d].state = "held"
  BY DEF Released
<1>4. \A d \in Connections : l2[d].state = "held" => KeyOf[d] # KeyOf[c]
  BY <1>3
<1>5. \A d \in Connections : KeyOf[d] \in ResourceKeys
  BY LeaseAssumption
<1>6. \A k \in ResourceKeys : k # KeyOf[c] => t[k] = taken[k]
  OBVIOUS
<1> QED  BY <1>3, <1>4, <1>5, <1>6 DEF LocksGood

-----------------------------------------------------------------------------
(* A call and its lease.                                                    *)

\* A call that holds no mutex.
LEMMA CallOutside ==
  ASSUME NEW l, NEW m, NEW p, NEW ph, NEW c, NEW ep, NEW br, ph \notin Locking, p \notin br,
         ph # "idle" => c \in Connections
  PROVE  CallGood(l, m, p, ph, c, ep, br)
BY DEF CallGood

\* A call whose lease keeps its epoch, and stays held if it was.
LEMMA CallKept ==
  ASSUME NEW l, NEW l2, NEW m, NEW p, NEW ph, NEW c, NEW ep, NEW br,
         CallGood(l, m, p, ph, c, ep, br),
         ph \in Locking => /\ l.state # "released" => l2.state # "released"
                           /\ l.state = "held" => l2.state = "held"
                           /\ l2.epoch = l.epoch
  PROVE  CallGood(l2, m, p, ph, c, ep, br)
BY DEF CallGood

\* The session of the lease is lost.
LEMMA CallBroken ==
  ASSUME NEW l, NEW l2, NEW m, NEW p, NEW ph, NEW c, NEW ep \in Nat, NEW br, NEW br2, ph \in Locking,
         CallGood(l, m, p, ph, c, ep, br), l.epoch \in Nat, l2.epoch = l.epoch + 1, p \in br2,
         l2.state # "released"
  PROVE  CallGood(l2, m, p, ph, c, ep, br2)
BY DEF CallGood

-----------------------------------------------------------------------------
(* What a step leaves alone.                                                *)

\* The step changes nothing of the hosts other than h.
OthersKeep(h) ==
    \A o \in Hosts \ {h} :
        /\ lease'[o] = lease[o] /\ holder'[o] = holder[o] /\ revoking'[o] = revoking[o]
        /\ commands'[o] = commands[o] /\ needed'[o] = needed[o] /\ pending'[o] = pending[o]
        /\ acquiring'[o] = acquiring[o] /\ granted'[o] = granted[o] /\ session'[o] = session[o]
        /\ locks'[o] = locks[o] /\ (o \in alive <=> o \in alive')

LEMMA OtherHosts ==
  ASSUME \A o \in Hosts : HostGood(o), NEW h \in Hosts, OthersKeep(h), HostGood(h)'
  PROVE  \A o \in Hosts : HostGood(o)'
<1> SUFFICES ASSUME NEW o \in Hosts, o # h  PROVE HostGood(o)'
  OBVIOUS
<1>1. /\ lease'[o] = lease[o] /\ holder'[o] = holder[o] /\ revoking'[o] = revoking[o]
      /\ commands'[o] = commands[o] /\ needed'[o] = needed[o] /\ pending'[o] = pending[o]
      /\ acquiring'[o] = acquiring[o] /\ granted'[o] = granted[o] /\ session'[o] = session[o]
      /\ locks'[o] = locks[o] /\ (o \in alive <=> o \in alive')
  BY DEF OthersKeep
<1>2. HostGood(o)
  OBVIOUS
<1>3. LocksGood(o, lease[o], acquiring[o], granted[o], session[o], alive', locks[o])
  BY <1>1, <1>2, LocksKept DEF HostGood
<1> QED  BY <1>1, <1>2, <1>3 DEF HostGood

\* A step after which fewer sessions hold fewer locks.
LEMMA ExclusiveKept ==
  ASSUME Exclusive, rival' \subseteq rival,
         \A h \in Hosts : \A k \in ResourceKeys : locks'[h][k] > 0 => locks[h][k] > 0
  PROVE  Exclusive'
BY DEF Exclusive

\* A step of no call: the leases of the calls keep their epochs.
LEMMA CallersKeep ==
  ASSUME Inv, UNCHANGED <<holder, callVars>>,
         \A h \in Hosts : \A c \in Connections : \A p \in Callers :
             holder[h][c] = p =>
                 /\ lease[h][c].state # "released" => lease'[h][c].state # "released"
                 /\ lease[h][c].state = "held" => lease'[h][c].state = "held"
                 /\ lease'[h][c].epoch = lease[h][c].epoch
  PROVE  \A p \in Callers : CallerGood(p)'
<1> SUFFICES ASSUME NEW p \in Callers  PROVE CallerGood(p)'
  OBVIOUS
<1>1. HostOf[p] \in Hosts
  BY LeaseAssumption
<1>2. CallerGood(p)
  BY DEF Inv
<1>3. /\ phase'[p] = phase[p] /\ conn'[p] = conn[p] /\ epoch'[p] = epoch[p] /\ broken' = broken
  BY DEF callVars
<1>4. phase[p] \in Locking => conn[p] \in Connections /\ holder[HostOf[p]][conn[p]] = p
  BY <1>2 DEF CallerGood, CallGood, Locking
<1>5. CallGood(lease'[HostOf[p]][conn[p]], holder[HostOf[p]][conn[p]], p, phase[p], conn[p],
               epoch[p], broken)
  BY <1>1, <1>2, <1>4, CallKept DEF CallerGood
<1> QED  BY <1>2, <1>3, <1>5 DEF CallerGood

\* The invariant, from its parts.
LEMMA InvFrom ==
  ASSUME TypeOK', \A o \in Hosts : HostGood(o)', \A p \in Callers : CallerGood(p)', Exclusive'
  PROVE  Inv'
BY DEF Inv

\* A host and its tables.
LEMMA HostForm ==
  ASSUME TypeOK, NEW h \in Hosts
  PROVE  /\ lease[h] \in LeaseTable /\ holder[h] \in [Connections -> Callers \cup {NoCaller}]
         /\ revoking[h] \in SUBSET Connections /\ commands[h] \in Seq(Commands)
         /\ needed[h] \in SUBSET Connections /\ pending[h] \in Seq(Connections \cup {NoConn})
         /\ acquiring[h] \in Connections \cup {NoConn} /\ granted[h] \in BOOLEAN
         /\ inHand[h] \in BOOLEAN /\ session[h] \in {"none", "open", "ended"}
         /\ locks[h] \in [ResourceKeys -> Nat] /\ due[h] \in SUBSET Connections
BY DEF TypeOK, LeaseTypes, TaskTypes, ServerTypes, RegistryTypes, LeaseTable

-----------------------------------------------------------------------------
(* Steps of the server, and of a session that breaks.                       *)

LEMMA GhostEndsStep ==
  ASSUME Inv, NEW k \in ResourceKeys, GhostEnds(k)  PROVE Inv'
<1> USE DEF GhostEnds, registryVars, leaseVars, taskVars
<1>1. TypeOK'
  BY DEF Inv, TypeOK, RegistryTypes, LeaseTypes, TaskTypes, ServerTypes, CallTypes, callVars
<1>2. \A h \in Hosts : HostGood(h)'
  BY DEF Inv, HostGood
<1>3. \A p \in Callers : CallerGood(p)'
  BY DEF Inv, CallerGood, callVars
<1>4. Exclusive'
  BY DEF Inv, Exclusive
<1> QED  BY <1>1, <1>2, <1>3, <1>4, InvFrom

LEMMA RivalSessionStep ==
  ASSUME Inv, NEW k \in Rivals, RivalSession(k)  PROVE Inv'
<1> USE DEF RivalSession, registryVars, leaseVars, taskVars
<1>1. TypeOK'
  BY LeaseAssumption DEF Inv, TypeOK, RegistryTypes, LeaseTypes, TaskTypes, ServerTypes, CallTypes, callVars
<1>2. \A h \in Hosts : HostGood(h)'
  BY DEF Inv, HostGood
<1>3. \A p \in Callers : CallerGood(p)'
  BY DEF Inv, CallerGood, callVars
<1>4. Exclusive'
  <2>1. Exclusive /\ locks' = locks
    BY DEF Inv
  <2>2. CASE rival' = rival \cup {k} /\ \A h \in Hosts : locks[h][k] = 0
    BY <2>1, <2>2 DEF Exclusive
  <2>3. CASE rival' = rival \ {k}
    BY <2>1, <2>3 DEF Exclusive
  <2> QED  BY <2>2, <2>3
<1> QED  BY <1>1, <1>2, <1>3, <1>4, InvFrom

LEMMA ServerKillsStep ==
  ASSUME Inv, NEW h \in Hosts, ServerKills(h)  PROVE Inv'
<1>0. TypeOK /\ \A o \in Hosts : HostGood(o)
  BY DEF Inv
<1>1. /\ h \in alive /\ alive' = alive \ {h} /\ losses < MaxLosses /\ losses' = losses + 1
      /\ locks' = [locks EXCEPT ![h] = [k \in ResourceKeys |-> 0]]
      /\ UNCHANGED <<registryVars, leaseVars, taskVars, ghost, rival, callVars>>
  BY DEF ServerKills
<1>2. \A k \in ResourceKeys : locks'[h][k] = 0
  BY <1>0, <1>1 DEF TypeOK, ServerTypes
<1>3. \A o \in Hosts \ {h} : locks'[o] = locks[o]
  BY <1>0, <1>1 DEF TypeOK, ServerTypes
<1>4. TypeOK'
  <2>1. ServerTypes'
    BY <1>0, <1>1, LeaseAssumption DEF TypeOK, ServerTypes
  <2>2. (RegistryTypes /\ LeaseTypes /\ TaskTypes /\ CallTypes)'
    BY <1>0, <1>1 DEF TypeOK, RegistryTypes, LeaseTypes, TaskTypes, CallTypes, registryVars, leaseVars,
       taskVars, callVars
  <2> QED  BY <2>1, <2>2 DEF TypeOK
<1>5. HostGood(h)'
  <2>1. LocksGood(h, lease[h], acquiring[h], granted[h], session[h], alive', locks'[h])
    BY <1>1, <1>2, LocksGone
  <2> QED  BY <1>0, <1>1, <2>1 DEF HostGood, leaseVars, taskVars
<1>6. OthersKeep(h)
  BY <1>1, <1>3 DEF OthersKeep, leaseVars, taskVars
<1>7. \A p \in Callers : CallerGood(p)'
  BY <1>1 DEF Inv, CallerGood, callVars, leaseVars, registryVars
<1>8. Exclusive'
  <2>1. \A o \in Hosts : \A k \in ResourceKeys : locks'[o][k] > 0 => locks[o][k] > 0
    BY <1>2, <1>3
  <2> QED  BY <1>1, <2>1, ExclusiveKept DEF Inv
<1> QED  BY <1>0, <1>4, <1>5, <1>6, <1>7, <1>8, InvFrom, OtherHosts

\* The host sees its session break: its needed leases are lost.
LEMMA SessionBreaksStep ==
  ASSUME Inv, NEW h \in Hosts, SessionBreaks(h)  PROVE Inv'
<1>0. TypeOK /\ (\A o \in Hosts : HostGood(o)) /\ Exclusive
  BY DEF Inv
<1>1. /\ session[h] = "open" /\ (h \notin alive \/ losses < MaxLosses)
      /\ losses' = (IF h \in alive THEN losses + 1 ELSE losses) /\ commands' = commands
  BY DEF SessionBreaks, Breaks
<1>2. /\ lease' = [lease EXCEPT ![h] = [c \in Connections |->
                    IF c \in needed[h] /\ lease[h][c].state # "released"
                    THEN [state |-> "lost", active |-> lease[h][c].active, epoch |-> lease[h][c].epoch + 1]
                    ELSE lease[h][c]]]
      /\ broken' = broken \cup {p \in Callers : HostOf[p] = h /\ phase[p] \in Locking
                                                 /\ conn[p] \in needed[h]}
  BY DEF SessionBreaks, Breaks, LoseSession, Lost, State, Active
<1>3. /\ pending' = [pending EXCEPT ![h] = <<>>]
      /\ acquiring' = [acquiring EXCEPT ![h] = NoConn]
      /\ granted' = [granted EXCEPT ![h] = FALSE]
      /\ inHand' = [inHand EXCEPT ![h] = FALSE]
      /\ session' = [session EXCEPT ![h] = "none"]
      /\ alive' = alive \ {h}
      /\ ghost' = ghost \cup {k \in ResourceKeys : locks[h][k] > 0}
      /\ locks' = [locks EXCEPT ![h] = [k \in ResourceKeys |-> 0]]
      /\ UNCHANGED <<registryVars, holder, revoking, stage, needed, rival, phase, conn, epoch, stale>>
  BY DEF SessionBreaks, Breaks, LoseSession
<1>4. /\ \A k \in ResourceKeys : locks'[h][k] = 0
      /\ \A o \in Hosts \ {h} : locks'[o] = locks[o]
      /\ locks' \in [Hosts -> [ResourceKeys -> Nat]]
  BY <1>0, <1>3 DEF TypeOK, ServerTypes
<1>5. /\ pending'[h] = <<>> /\ acquiring'[h] = NoConn /\ granted'[h] = FALSE /\ session'[h] = "none"
      /\ \A o \in Hosts \ {h} : /\ pending'[o] = pending[o] /\ acquiring'[o] = acquiring[o]
                                /\ granted'[o] = granted[o] /\ session'[o] = session[o]
  BY <1>0, <1>3 DEF TypeOK, TaskTypes
<1>6. lease[h] \in LeaseTable
  BY <1>0, HostForm
<1>6a. PICK table :
         table = [c \in Connections |->
                     IF c \in needed[h] /\ lease[h][c].state # "released"
                     THEN [state |-> "lost", active |-> lease[h][c].active, epoch |-> lease[h][c].epoch + 1]
                     ELSE lease[h][c]]
  OBVIOUS
<1>6b. lease' = [lease EXCEPT ![h] = table]
  BY <1>2, <1>6a
<1>6c. lease'[h] = table
  BY <1>0, <1>6b DEF TypeOK, LeaseTypes
<1>7. \A c \in Connections :
         /\ lease'[h][c] \in Leases /\ lease'[h][c].active = lease[h][c].active
         /\ c \in needed[h] /\ lease[h][c].state # "released" =>
               lease'[h][c].state = "lost" /\ lease'[h][c].epoch = lease[h][c].epoch + 1
         /\ ~(c \in needed[h] /\ lease[h][c].state # "released") => lease'[h][c] = lease[h][c]
  <2> SUFFICES ASSUME NEW c \in Connections
               PROVE  /\ lease'[h][c] \in Leases /\ lease'[h][c].active = lease[h][c].active
                      /\ c \in needed[h] /\ lease[h][c].state # "released" =>
                            lease'[h][c].state = "lost" /\ lease'[h][c].epoch = lease[h][c].epoch + 1
                      /\ ~(c \in needed[h] /\ lease[h][c].state # "released") => lease'[h][c] = lease[h][c]
    OBVIOUS
  <2>1. lease[h][c] \in Leases /\ lease[h][c].epoch \in Nat
    BY <1>6, LeaseForm
  <2>2. lease'[h][c] = IF c \in needed[h] /\ lease[h][c].state # "released"
                       THEN [state |-> "lost", active |-> lease[h][c].active, epoch |-> lease[h][c].epoch + 1]
                       ELSE lease[h][c]
    BY <1>6a, <1>6c
  <2>3. PICK r : r = [state |-> "lost", active |-> lease[h][c].active, epoch |-> lease[h][c].epoch + 1]
    OBVIOUS
  <2>4. /\ r \in Leases /\ r.active = lease[h][c].active /\ r.state = "lost"
        /\ r.epoch = lease[h][c].epoch + 1
    BY <2>1, <2>3 DEF Leases
  <2>5. CASE c \in needed[h] /\ lease[h][c].state # "released"
    <3>1. lease'[h][c] = r
      BY <2>2, <2>3, <2>5
    <3> QED  BY <2>4, <2>5, <3>1
  <2>6. CASE ~(c \in needed[h] /\ lease[h][c].state # "released")
    <3>1. lease'[h][c] = lease[h][c]
      BY <2>2, <2>6
    <3> QED  BY <2>1, <2>6, <3>1
  <2> QED  BY <2>5, <2>6
<1>8. \A o \in Hosts \ {h} : lease'[o] = lease[o]
  BY <1>0, <1>2 DEF TypeOK, LeaseTypes
<1>9. TypeOK'
  <2>1. ServerTypes'
    <3>1. losses' \in 0 .. MaxLosses
      BY <1>0, <1>1, LeaseAssumption DEF TypeOK, ServerTypes
    <3> QED  BY <1>0, <1>3, <1>4, <3>1 DEF TypeOK, ServerTypes
  <2>2. TaskTypes'
    <3>1. <<>> \in Seq(Connections \cup {NoConn})
      OBVIOUS
    <3> QED  BY <1>0, <1>1, <1>3, <3>1 DEF TypeOK, TaskTypes
  <2>3. LeaseTypes'
    <3>1. table \in [Connections -> Leases]
      BY <1>7, <1>6a, <1>6c
    <3> QED  BY <1>0, <1>3, <1>6b, <3>1 DEF TypeOK, LeaseTypes
  <2>4. (RegistryTypes /\ CallTypes)'
    BY <1>0, <1>2, <1>3 DEF TypeOK, RegistryTypes, CallTypes, registryVars
  <2> QED  BY <2>1, <2>2, <2>3, <2>4 DEF TypeOK
<1>10. HostGood(h)'
  <2>0. HostGood(h)
    BY <1>0
  <2>1. \A c \in Connections : lease'[h][c].state # "held"
    BY <1>7, <2>0 DEF HostGood, TurnsGood
  <2>2. TurnsGood(lease'[h], needed[h], <<>>, NoConn, FALSE, "none")
    BY <2>1, TurnsLost
  <2>3. LocksGood(h, lease'[h], NoConn, FALSE, "none", alive', locks'[h])
    BY <1>3, <1>4, LocksGone
  <2>4. RevokedOnce(lease'[h], holder[h], revoking[h], commands[h])
    <3>1. revoking[h] \in SUBSET Connections
      BY <1>0, HostForm
    <3>2. \A c \in Connections : /\ lease'[h][c].active => lease[h][c].active
                                 /\ lease[h][c].state # "released" => lease'[h][c].state # "released"
      BY <1>7
    <3> QED  BY <2>0, <3>1, <3>2, RevokedKeeps DEF HostGood
  <2> QED  BY <1>1, <1>3, <1>5, <2>2, <2>3, <2>4 DEF HostGood
<1>11. OthersKeep(h)
  BY <1>1, <1>3, <1>4, <1>5, <1>8 DEF OthersKeep
<1>12. ASSUME NEW p \in Callers  PROVE CallerGood(p)'
  <2>1. CallerGood(p) /\ HostOf[p] \in Hosts /\ epoch[p] \in Nat
    BY LeaseAssumption DEF Inv, TypeOK, CallTypes
  <2>2. CallGood(lease'[HostOf[p]][conn[p]], holder[HostOf[p]][conn[p]], p, phase[p], conn[p],
                 epoch[p], broken')
    <3>1. CASE phase[p] \notin Locking
      <4>1. p \notin broken' /\ (phase[p] # "idle" => conn[p] \in Connections)
        BY <1>2, <2>1, <3>1 DEF CallerGood, CallGood, Locking
      <4> QED  BY <3>1, <4>1, CallOutside
    <3>2. CASE phase[p] \in Locking /\ HostOf[p] = h /\ conn[p] \in needed[h]
      <4>1. conn[p] \in Connections /\ lease[h][conn[p]].state # "released" /\ p \in broken'
        BY <1>2, <2>1, <3>2 DEF CallerGood, CallGood, Locking
      <4>2. /\ lease'[h][conn[p]].state # "released" /\ lease[h][conn[p]].epoch \in Nat
            /\ lease'[h][conn[p]].epoch = lease[h][conn[p]].epoch + 1
        BY <1>6, <1>7, <3>2, <4>1, LeaseForm
      <4> QED  BY <2>1, <3>2, <4>1, <4>2, CallBroken DEF CallerGood
    <3>3. CASE phase[p] \in Locking /\ ~(HostOf[p] = h /\ conn[p] \in needed[h])
      <4>1. conn[p] \in Connections /\ (p \in broken' <=> p \in broken)
        BY <1>2, <2>1, <3>3 DEF CallerGood, CallGood, Locking
      <4>2. lease'[HostOf[p]][conn[p]] = lease[HostOf[p]][conn[p]]
        BY <1>7, <1>8, <2>1, <3>3, <4>1
      <4> QED  BY <2>1, <4>1, <4>2 DEF CallerGood, CallGood
    <3> QED  BY <3>1, <3>2, <3>3
  <2> QED  BY <1>3, <2>1, <2>2 DEF CallerGood, registryVars
<1>13. Exclusive'
  <2>1. \A o \in Hosts : \A k \in ResourceKeys : locks'[o][k] > 0 => locks[o][k] > 0
    BY <1>4
  <2> QED  BY <1>0, <1>3, <2>1, ExclusiveKept
<1> QED  BY <1>0, <1>9, <1>10, <1>11, <1>12, <1>13, InvFrom, OtherHosts

-----------------------------------------------------------------------------
(* Steps of the session task.                                               *)

\* The leases of a set in some order.
LEMMA TurnsOfSet ==
  ASSUME NEW S \in SUBSET Connections, NEW s \in SetToSeqs(S)
  PROVE  s \in Seq(Connections) /\ \A i \in 1 .. Len(s) : s[i] \in S
<1>1. Cardinality(S) \in Nat
  BY LeaseAssumption, FS_Subset, FS_CardinalityType
<1>2. s \in [1 .. Cardinality(S) -> S]
  BY DEF SetToSeqs
<1>3. s \in Seq(S)
  BY <1>1, <1>2
<1>4. \A i \in 1 .. Len(s) : s[i] \in S
  BY <1>3
<1>5. s \in Seq(Connections)
  BY <1>1, <1>2
<1> QED  BY <1>4, <1>5

\* A step of the task keeps the types of what it leaves alone.
LEMMA TaskOnlyTypes ==
  ASSUME TypeOK, TaskOnly, lease' \in [Hosts -> [Connections -> Leases]], TaskTypes', ServerTypes'
  PROVE  TypeOK'
BY DEF TypeOK, TaskOnly, RegistryTypes, LeaseTypes, CallTypes, registryVars, callVars

LEMMA ConnectStep ==
  ASSUME Inv, NEW h \in Hosts, Connect(h)  PROVE Inv'
<1>0. TypeOK /\ (\A o \in Hosts : HostGood(o)) /\ Exclusive /\ HostGood(h)
  BY DEF Inv
<1>1. /\ session[h] = "none" /\ session' = [session EXCEPT ![h] = "open"] /\ alive' = alive \cup {h}
      /\ TaskOnly
      /\ UNCHANGED <<lease, commands, needed, acquiring, granted, inHand, locks, ghost, rival, losses>>
  BY DEF Connect
<1>2. PICK s \in SetToSeqs({c \in needed[h] : Active(h, c)}) : pending' = [pending EXCEPT ![h] = s]
  BY DEF Connect
<1>3. needed[h] \in SUBSET Connections /\ granted[h] \in BOOLEAN
  BY <1>0, HostForm
<1>4. s \in Seq(Connections) /\ \A i \in 1 .. Len(s) : s[i] \in {c \in needed[h] : Active(h, c)}
  <2>1. {c \in needed[h] : Active(h, c)} \in SUBSET Connections
    BY <1>3
  <2> QED  BY <2>1, TurnsOfSet
<1>5. s \in Seq(Connections \cup {NoConn})
  BY <1>4
<1>6. /\ pending'[h] = s /\ session'[h] = "open"
      /\ \A o \in Hosts \ {h} : pending'[o] = pending[o] /\ session'[o] = session[o]
  BY <1>0, <1>1, <1>2 DEF TypeOK, TaskTypes
<1>7. TypeOK'
  <2>1. TaskTypes'
    BY <1>0, <1>1, <1>2, <1>5 DEF TypeOK, TaskTypes
  <2>2. ServerTypes'
    BY <1>0, <1>1 DEF TypeOK, ServerTypes
  <2>3. lease' \in [Hosts -> [Connections -> Leases]]
    BY <1>0, <1>1 DEF TypeOK, LeaseTypes
  <2> QED  BY <1>0, <1>1, <2>1, <2>2, <2>3, TaskOnlyTypes
<1>8. HostGood(h)'
  <2>1. TurnsGood(lease[h], needed[h], pending[h], acquiring[h], granted[h], "none")
        /\ LocksGood(h, lease[h], acquiring[h], granted[h], "none", alive, locks[h])
    BY <1>0, <1>1 DEF HostGood
  <2>2. TurnsGood(lease[h], needed[h], s, acquiring[h], granted[h], "open")
    BY <1>3, <1>4, <2>1, TurnsOpened
  <2>3. LocksGood(h, lease[h], acquiring[h], granted[h], "open", alive \cup {h}, locks[h])
    BY <1>3, <2>1, LocksOpened
  <2> QED  BY <1>0, <1>1, <1>6, <2>2, <2>3 DEF HostGood, TaskOnly
<1>9. OthersKeep(h)
  BY <1>1, <1>6 DEF OthersKeep, TaskOnly
<1>10. \A p \in Callers : CallerGood(p)'
  BY <1>1, CallersKeep DEF TaskOnly, registryVars
<1>11. Exclusive'
  BY <1>0, <1>1 DEF Exclusive
<1> QED  BY <1>0, <1>7, <1>8, <1>9, <1>10, <1>11, InvFrom, OtherHosts

LEMMA NextPendingStep ==
  ASSUME Inv, NEW h \in Hosts, NextPending(h)  PROVE Inv'
<1>0. TypeOK /\ (\A o \in Hosts : HostGood(o)) /\ Exclusive /\ HostGood(h)
  BY DEF Inv
<1>1. PICK n : n = IF Head(pending[h]) # NoConn /\ Active(h, Head(pending[h]))
                      /\ ~HeldByAnother(h, Head(pending[h])) THEN Head(pending[h]) ELSE NoConn
  OBVIOUS
<1>2. /\ session[h] = "open" /\ acquiring[h] = NoConn /\ pending[h] # <<>>
      /\ pending' = [pending EXCEPT ![h] = Tail(@)] /\ acquiring' = [acquiring EXCEPT ![h] = n]
      /\ TaskOnly
      /\ UNCHANGED <<lease, commands, needed, granted, inHand, session, serverVars>>
  BY <1>1 DEF NextPending
<1>3. /\ needed[h] \in SUBSET Connections /\ granted[h] \in BOOLEAN
      /\ pending[h] \in Seq(Connections \cup {NoConn})
  BY <1>0, HostForm
<1>4. Head(pending[h]) \in Connections \cup {NoConn} /\ Tail(pending[h]) \in Seq(Connections \cup {NoConn})
  BY <1>2, <1>3, TailForm
<1>5. \/ n = NoConn
      \/ /\ n = Head(pending[h]) /\ n \in Connections /\ lease[h][n].active
         /\ \A d \in needed[h] \ {n} : ~(KeyOf[d] = KeyOf[n] /\ lease[h][d].state = "held")
  BY <1>1, <1>4 DEF Active, HeldByAnother, State
<1>6. /\ pending'[h] = Tail(pending[h]) /\ acquiring'[h] = n
      /\ \A o \in Hosts \ {h} : pending'[o] = pending[o] /\ acquiring'[o] = acquiring[o]
  BY <1>0, <1>2 DEF TypeOK, TaskTypes
<1>7. TypeOK'
  <2>1. TaskTypes'
    BY <1>0, <1>2, <1>4, <1>5 DEF TypeOK, TaskTypes
  <2>2. ServerTypes'
    BY <1>0, <1>2 DEF TypeOK, ServerTypes, serverVars
  <2>3. lease' \in [Hosts -> [Connections -> Leases]]
    BY <1>0, <1>2 DEF TypeOK, LeaseTypes
  <2> QED  BY <1>0, <1>2, <2>1, <2>2, <2>3, TaskOnlyTypes
<1>8. HostGood(h)'
  <2>1. /\ TurnsGood(lease[h], needed[h], pending[h], NoConn, granted[h], "open")
        /\ LocksGood(h, lease[h], NoConn, granted[h], "open", alive, locks[h])
    BY <1>0, <1>2 DEF HostGood
  <2>2. TurnsGood(lease[h], needed[h], Tail(pending[h]), n, granted[h], "open")
    BY <1>2, <1>3, <1>5, <2>1, TurnsTaken
  <2>3. ~granted[h]
    BY <1>3, <2>1 DEF TurnsGood
  <2>4. LocksGood(h, lease[h], n, granted[h], "open", alive, locks[h])
    BY <1>3, <2>1, <2>3, LocksAsked
  <2> QED  BY <1>0, <1>2, <1>6, <2>2, <2>4 DEF HostGood, TaskOnly, serverVars
<1>9. OthersKeep(h)
  BY <1>2, <1>6 DEF OthersKeep, TaskOnly, serverVars
<1>10. \A p \in Callers : CallerGood(p)'
  BY <1>2, CallersKeep DEF TaskOnly, registryVars
<1>11. Exclusive'
  BY <1>0, <1>2 DEF Exclusive, serverVars
<1> QED  BY <1>0, <1>7, <1>8, <1>9, <1>10, <1>11, InvFrom, OtherHosts

LEMMA ServerGrantsStep ==
  ASSUME Inv, NEW h \in Hosts, ServerGrants(h)  PROVE Inv'
<1>0. TypeOK /\ (\A o \in Hosts : HostGood(o)) /\ Exclusive /\ HostGood(h)
  BY DEF Inv
<1>1. PICK k : k = KeyOf[acquiring[h]]
  OBVIOUS
<1>2. /\ acquiring[h] # NoConn /\ h \in alive
      /\ k \notin rival /\ (\A o \in Hosts \ {h} : locks[o][k] = 0)
      /\ granted' = [granted EXCEPT ![h] = TRUE] /\ locks' = [locks EXCEPT ![h][k] = @ + 1]
      /\ TaskOnly
      /\ UNCHANGED <<lease, commands, needed, pending, acquiring, inHand, session,
                     alive, ghost, rival, losses>>
  BY <1>1 DEF ServerGrants
<1>3. acquiring[h] \in Connections /\ k \in ResourceKeys /\ locks[h] \in [ResourceKeys -> Nat]
  BY <1>0, <1>1, <1>2, HostForm, LeaseAssumption
<1>4. /\ locks'[h] = [locks[h] EXCEPT ![k] = @ + 1]
      /\ \A o \in Hosts \ {h} : locks'[o] = locks[o]
      /\ locks' \in [Hosts -> [ResourceKeys -> Nat]]
  BY <1>0, <1>2, <1>3 DEF TypeOK, ServerTypes
<1>5. granted'[h] = TRUE /\ \A o \in Hosts \ {h} : granted'[o] = granted[o]
  BY <1>0, <1>2 DEF TypeOK, TaskTypes
<1>6. TypeOK'
  <2>1. TaskTypes'
    BY <1>0, <1>2 DEF TypeOK, TaskTypes
  <2>2. ServerTypes'
    BY <1>0, <1>2, <1>4 DEF TypeOK, ServerTypes
  <2>3. lease' \in [Hosts -> [Connections -> Leases]]
    BY <1>0, <1>2 DEF TypeOK, LeaseTypes
  <2> QED  BY <1>0, <1>2, <2>1, <2>2, <2>3, TaskOnlyTypes
<1>7. HostGood(h)'
  <2>1. TurnsGood(lease[h], needed[h], pending[h], acquiring[h], TRUE, session[h])
    BY <1>0, <1>2, TurnsGranted DEF HostGood
  <2>2. LocksGood(h, lease[h], acquiring[h], TRUE, session[h], alive, [locks[h] EXCEPT ![k] = @ + 1])
    BY <1>0, <1>1, <1>2, <1>3, LocksGranted DEF HostGood
  <2>3. RevokedOnce(lease[h], holder[h], revoking[h], commands[h])
    BY <1>0 DEF HostGood
  <2>4. /\ lease' = lease /\ holder' = holder /\ revoking' = revoking /\ commands' = commands
        /\ needed' = needed /\ pending' = pending /\ acquiring' = acquiring /\ session' = session
        /\ alive' = alive
    BY <1>2 DEF TaskOnly
  <2>5. TurnsGood(lease[h], needed[h], pending[h], acquiring[h], granted'[h], session[h])
    BY <1>5, <2>1
  <2>6. LocksGood(h, lease[h], acquiring[h], granted'[h], session[h], alive, locks'[h])
    BY <1>4, <1>5, <2>2
  <2> QED  BY <2>3, <2>4, <2>5, <2>6 DEF HostGood
<1>8. OthersKeep(h)
  BY <1>2, <1>4, <1>5 DEF OthersKeep, TaskOnly
<1>9. \A p \in Callers : CallerGood(p)'
  BY <1>2, CallersKeep DEF TaskOnly, registryVars
<1>10. Exclusive'
  <2>1. \A o \in Hosts : locks'[o][k] > 0 => o = h
    BY <1>2, <1>4
  <2>2. \A o \in Hosts : \A j \in ResourceKeys \ {k} : locks'[o][j] = locks[o][j]
    BY <1>3, <1>4
  <2> SUFFICES ASSUME NEW o \in Hosts, NEW j \in ResourceKeys, locks'[o][j] > 0
               PROVE  j \notin rival' /\ \A g \in Hosts : locks'[g][j] > 0 => g = o
    BY DEF Exclusive
  <2>3. CASE j = k
    BY <1>2, <2>1, <2>3
  <2>4. CASE j # k
    BY <1>0, <1>2, <2>2, <2>4 DEF Exclusive
  <2> QED  BY <2>3, <2>4
<1> QED  BY <1>0, <1>6, <1>7, <1>8, <1>9, <1>10, InvFrom, OtherHosts

\* The lock statement ends, with its grant or without.
LEMMA EndAcquireStep ==
  ASSUME Inv, NEW h \in Hosts, NEW got \in BOOLEAN, NEW command \in BOOLEAN, acquiring[h] # NoConn,
         got => granted[h], EndAcquire(h, got, command)
  PROVE  Inv'
<1>0. TypeOK /\ (\A o \in Hosts : HostGood(o)) /\ Exclusive /\ HostGood(h)
  BY DEF Inv
<1>1. PICK c : c = acquiring[h]
  OBVIOUS
<1>2. /\ acquiring' = [acquiring EXCEPT ![h] = NoConn] /\ granted' = [granted EXCEPT ![h] = FALSE]
      /\ inHand' = [inHand EXCEPT ![h] = command]
      /\ TaskOnly /\ UNCHANGED <<commands, needed, session, serverVars>>
  BY DEF EndAcquire
<1>3. /\ c \in Connections /\ granted[h] \in BOOLEAN /\ pending[h] \in Seq(Connections \cup {NoConn})
      /\ lease[h] \in LeaseTable /\ revoking[h] \in SUBSET Connections
  BY <1>0, <1>1, HostForm
<1>4. /\ acquiring'[h] = NoConn /\ granted'[h] = FALSE
      /\ \A o \in Hosts \ {h} : acquiring'[o] = acquiring[o] /\ granted'[o] = granted[o]
  BY <1>0, <1>2 DEF TypeOK, TaskTypes
<1>5. /\ TurnsGood(lease[h], needed[h], pending[h], c, granted[h], session[h])
      /\ LocksGood(h, lease[h], c, granted[h], session[h], alive, locks[h])
      /\ RevokedOnce(lease[h], holder[h], revoking[h], commands[h])
  BY <1>0, <1>1 DEF HostGood
<1>6. c \in needed[h]
  BY <1>1, <1>5 DEF TurnsGood
<1>7. ServerTypes' /\ Exclusive'
  BY <1>0, <1>2 DEF TypeOK, ServerTypes, serverVars, Exclusive
<1>8. CASE got
  <2>1. lease' = [lease EXCEPT ![h][c].state = "held"] /\ pending' = pending
    BY <1>1, <1>8 DEF EndAcquire, SetState
  <2>2. /\ lease'[h] = [lease[h] EXCEPT ![c].state = "held"]
        /\ \A o \in Hosts \ {h} : lease'[o] = lease[o]
        /\ lease' = [lease EXCEPT ![h] = [lease[h] EXCEPT ![c].state = "held"]]
    BY <1>0, <2>1 DEF TypeOK, LeaseTypes
  <2>3. \A d \in Connections :
           /\ lease'[h][d] \in Leases /\ lease'[h][d].active = lease[h][d].active
           /\ lease'[h][d].epoch = lease[h][d].epoch
           /\ d # c => lease'[h][d] = lease[h][d]
           /\ d = c => lease'[h][d].state = "held"
    BY <1>3, <2>2 DEF LeaseTable, Leases
  <2>4. TypeOK'
    <3>1. TaskTypes'
      BY <1>0, <1>2, <2>1 DEF TypeOK, TaskTypes
    <3>2. PICK table : table = [lease[h] EXCEPT ![c].state = "held"]
      OBVIOUS
    <3>3. table \in [Connections -> Leases]
      BY <1>3, <2>2, <2>3, <3>2 DEF LeaseTable
    <3>4. lease' \in [Hosts -> [Connections -> Leases]]
      BY <1>0, <2>2, <3>2, <3>3 DEF TypeOK, LeaseTypes
    <3> QED  BY <1>0, <1>2, <1>7, <3>1, <3>4, TaskOnlyTypes
  <2>5. HostGood(h)'
    <3>1. TurnsGood(lease'[h], needed[h], pending[h], NoConn, FALSE, session[h])
      BY <1>3, <1>5, <2>3, TurnsHeld
    <3>2. LocksGood(h, lease[h], c, TRUE, session[h], alive, locks[h])
      BY <1>3, <1>5, <1>8
    <3>3. LocksGood(h, lease'[h], NoConn, FALSE, session[h], alive, locks[h])
      <4>1. \A d \in Connections \ {c} : lease'[h][d].state = lease[h][d].state
        BY <2>3
      <4> QED  BY <3>2, <4>1, LocksHeld
    <3>4. RevokedOnce(lease'[h], holder[h], revoking[h], commands[h])
      <4>1. \A d \in Connections :
               /\ lease'[h][d].active => lease[h][d].active
               /\ lease[h][d].state # "released" => lease'[h][d].state # "released"
        BY <2>3
      <4> QED  BY <1>3, <1>5, <4>1, RevokedKeeps
    <3> QED  BY <1>2, <1>4, <2>1, <3>1, <3>3, <3>4 DEF HostGood, TaskOnly, serverVars
  <2>6. OthersKeep(h)
    BY <1>2, <1>4, <2>1, <2>2 DEF OthersKeep, TaskOnly, serverVars
  <2>7. \A p \in Callers : CallerGood(p)'
    <3>1. \A o \in Hosts : \A d \in Connections :
              /\ lease[o][d].state # "released" => lease'[o][d].state # "released"
              /\ lease[o][d].state = "held" => lease'[o][d].state = "held"
              /\ lease'[o][d].epoch = lease[o][d].epoch
      BY <2>2, <2>3
    <3> QED  BY <1>2, <3>1, CallersKeep DEF TaskOnly, registryVars
  <2> QED  BY <1>0, <1>7, <2>4, <2>5, <2>6, <2>7, InvFrom, OtherHosts
<1>9. CASE ~got
  <2>1. PICK t : t = IF Active(h, c) THEN Append(pending[h], c) ELSE pending[h]
    OBVIOUS
  <2>2. lease' = lease /\ pending' = [pending EXCEPT ![h] = t]
    BY <1>1, <1>9, <2>1 DEF EndAcquire
  <2>3. t \in Seq(Connections \cup {NoConn})
    BY <1>3, <2>1
  <2>4. pending'[h] = t /\ \A o \in Hosts \ {h} : pending'[o] = pending[o]
    BY <1>0, <2>2 DEF TypeOK, TaskTypes
  <2>5. TypeOK'
    <3>1. TaskTypes'
      BY <1>0, <1>2, <2>2, <2>3 DEF TypeOK, TaskTypes
    <3>2. lease' \in [Hosts -> [Connections -> Leases]]
      BY <1>0, <2>2 DEF TypeOK, LeaseTypes
    <3> QED  BY <1>0, <1>2, <1>7, <3>1, <3>2, TaskOnlyTypes
  <2>6. HostGood(h)'
    <3>1. TurnsGood(lease[h], needed[h], pending[h], NoConn, FALSE, session[h])
      BY <1>5, TurnsCancelled
    <3>2. TurnsGood(lease[h], needed[h], Append(pending[h], c), NoConn, FALSE, session[h])
      BY <1>3, <1>6, <3>1, TurnsAppended
    <3>3. TurnsGood(lease[h], needed[h], t, NoConn, FALSE, session[h])
      BY <2>1, <3>1, <3>2
    <3>4. LocksGood(h, lease[h], NoConn, FALSE, session[h], alive, locks[h])
      BY <1>5, LocksCancelled
    <3> QED  BY <1>2, <1>4, <1>5, <2>2, <2>4, <3>3, <3>4 DEF HostGood, TaskOnly, serverVars
  <2>7. OthersKeep(h)
    BY <1>2, <1>4, <2>2, <2>4 DEF OthersKeep, TaskOnly, serverVars
  <2>8. \A p \in Callers : CallerGood(p)'
    BY <1>2, <2>2, CallersKeep DEF TaskOnly, registryVars
  <2> QED  BY <1>0, <1>7, <2>5, <2>6, <2>7, <2>8, InvFrom, OtherHosts
<1> QED  BY <1>8, <1>9

\* What the task knows when it handles a command.
LEMMA HandlesForm ==
  ASSUME TypeOK, NEW h \in Hosts, HostGood(h), NEW op, Handles(h, op), Handled(h)
  PROVE  /\ acquiring[h] = NoConn /\ ~granted[h] /\ session[h] \in {"none", "open"}
         /\ commands[h] # <<>> /\ commands[h] \in Seq(Commands)
         /\ Head(commands[h]) = commands[h][1] /\ commands[h][1] \in Commands /\ commands[h][1].op = op
         /\ commands'[h] = Tail(commands[h]) /\ \A o \in Hosts \ {h} : commands'[o] = commands[o]
         /\ commands' \in [Hosts -> Seq(Commands)] /\ inHand' \in [Hosts -> BOOLEAN]
<1>1. commands[h] # <<>> /\ commands[h] \in Seq(Commands) /\ granted[h] \in BOOLEAN
  BY HostForm DEF Handles
<1>2. Head(commands[h]) = commands[h][1] /\ Head(commands[h]) \in Commands /\ Tail(commands[h]) \in Seq(Commands)
  BY <1>1, TailForm
<1>3. acquiring[h] = NoConn /\ ~granted[h] /\ session[h] \in {"none", "open"}
  BY <1>1 DEF Handles, HostGood, TurnsGood
<1>4. /\ commands'[h] = Tail(commands[h]) /\ \A o \in Hosts \ {h} : commands'[o] = commands[o]
      /\ commands' \in [Hosts -> Seq(Commands)]
  BY <1>2 DEF Handled, TypeOK, TaskTypes
<1>5. inHand' \in [Hosts -> BOOLEAN]
  BY DEF Handled, TypeOK, TaskTypes
<1> QED  BY <1>1, <1>2, <1>3, <1>4, <1>5 DEF Handles

LEMMA HandleAcquireStep ==
  ASSUME Inv, NEW h \in Hosts, HandleAcquire(h)  PROVE Inv'
<1>0. TypeOK /\ (\A o \in Hosts : HostGood(o)) /\ Exclusive /\ HostGood(h)
  BY DEF Inv
<1>1. PICK c : c = Head(commands[h]).conn
  OBVIOUS
<1>2. PICK t : t = IF session[h] = "open" THEN Append(pending[h], c) ELSE pending[h]
  OBVIOUS
<1>3. /\ Handles(h, "acquire") /\ Handled(h)
      /\ needed' = [needed EXCEPT ![h] = @ \cup {c}] /\ pending' = [pending EXCEPT ![h] = t]
      /\ TaskOnly /\ UNCHANGED <<lease, acquiring, granted, session, serverVars>>
  BY <1>1, <1>2 DEF HandleAcquire
<1>4. /\ acquiring[h] = NoConn /\ ~granted[h] /\ session[h] \in {"none", "open"}
      /\ commands[h] # <<>> /\ commands[h] \in Seq(Commands)
      /\ Head(commands[h]) = commands[h][1] /\ commands[h][1] \in Commands /\ commands[h][1].op = "acquire"
      /\ commands'[h] = Tail(commands[h]) /\ (\A o \in Hosts \ {h} : commands'[o] = commands[o])
      /\ commands' \in [Hosts -> Seq(Commands)] /\ inHand' \in [Hosts -> BOOLEAN]
  BY <1>0, <1>3, HandlesForm
<1>5. c \in Connections
  BY <1>1, <1>4, CommandForm
<1>6. /\ pending[h] \in Seq(Connections \cup {NoConn}) /\ needed[h] \in SUBSET Connections
      /\ revoking[h] \in SUBSET Connections
  BY <1>0, HostForm
<1>7. t \in Seq(Connections \cup {NoConn})
  BY <1>2, <1>5, <1>6
<1>8. /\ pending'[h] = t /\ needed'[h] = needed[h] \cup {c}
      /\ \A o \in Hosts \ {h} : pending'[o] = pending[o] /\ needed'[o] = needed[o]
  BY <1>0, <1>3 DEF TypeOK, TaskTypes
<1>9. TypeOK'
  <2>1. TaskTypes'
    BY <1>0, <1>3, <1>4, <1>5, <1>6, <1>7 DEF TypeOK, TaskTypes
  <2>2. ServerTypes'
    BY <1>0, <1>3 DEF TypeOK, ServerTypes, serverVars
  <2>3. lease' \in [Hosts -> [Connections -> Leases]]
    BY <1>0, <1>3 DEF TypeOK, LeaseTypes
  <2> QED  BY <1>0, <1>3, <2>1, <2>2, <2>3, TaskOnlyTypes
<1>10. HostGood(h)'
  <2>1. TurnsGood(lease[h], needed[h] \cup {c}, pending[h], acquiring[h], granted[h], session[h])
    BY <1>0, TurnsNeeded DEF HostGood
  <2>2. TurnsGood(lease[h], needed[h] \cup {c}, Append(pending[h], c), acquiring[h], granted[h], session[h])
    BY <1>5, <1>6, <2>1, TurnsAppended
  <2>3. TurnsGood(lease[h], needed[h] \cup {c}, t, acquiring[h], granted[h], session[h])
    BY <1>2, <2>1, <2>2
  <2>4. RevokedOnce(lease[h], holder[h], revoking[h], Tail(commands[h]))
    BY <1>0, <1>4, <1>6, CommandHandled DEF HostGood
  <2> QED  BY <1>0, <1>3, <1>4, <1>8, <2>3, <2>4 DEF HostGood, TaskOnly, serverVars
<1>11. OthersKeep(h)
  BY <1>3, <1>4, <1>8 DEF OthersKeep, TaskOnly, serverVars
<1>12. \A p \in Callers : CallerGood(p)'
  BY <1>3, CallersKeep DEF TaskOnly, registryVars
<1>13. Exclusive'
  BY <1>0, <1>3 DEF Exclusive, serverVars
<1> QED  BY <1>0, <1>9, <1>10, <1>11, <1>12, <1>13, InvFrom, OtherHosts

LEMMA HandleStopStep ==
  ASSUME Inv, NEW h \in Hosts, HandleStop(h)  PROVE Inv'
<1>0. TypeOK /\ (\A o \in Hosts : HostGood(o)) /\ Exclusive /\ HostGood(h)
  BY DEF Inv
<1>1. /\ Handles(h, "stop") /\ Handled(h)
      /\ session' = [session EXCEPT ![h] = "ended"] /\ alive' = alive \ {h}
      /\ locks' = [locks EXCEPT ![h] = [k \in ResourceKeys |-> 0]]
      /\ TaskOnly /\ UNCHANGED <<lease, needed, pending, acquiring, granted, ghost, rival, losses>>
  BY DEF HandleStop
<1>2. /\ acquiring[h] = NoConn /\ ~granted[h] /\ session[h] \in {"none", "open"}
      /\ commands[h] # <<>> /\ commands[h] \in Seq(Commands)
      /\ Head(commands[h]) = commands[h][1] /\ commands[h][1] \in Commands /\ commands[h][1].op = "stop"
      /\ commands'[h] = Tail(commands[h]) /\ (\A o \in Hosts \ {h} : commands'[o] = commands[o])
      /\ commands' \in [Hosts -> Seq(Commands)] /\ inHand' \in [Hosts -> BOOLEAN]
  BY <1>0, <1>1, HandlesForm
<1>3. /\ \A k \in ResourceKeys : locks'[h][k] = 0
      /\ \A o \in Hosts \ {h} : locks'[o] = locks[o]
      /\ locks' \in [Hosts -> [ResourceKeys -> Nat]]
  BY <1>0, <1>1 DEF TypeOK, ServerTypes
<1>4. session'[h] = "ended" /\ \A o \in Hosts \ {h} : session'[o] = session[o]
  BY <1>0, <1>1 DEF TypeOK, TaskTypes
<1>5. revoking[h] \in SUBSET Connections
  BY <1>0, HostForm
<1>6. TypeOK'
  <2>1. TaskTypes'
    BY <1>0, <1>1, <1>2 DEF TypeOK, TaskTypes
  <2>2. ServerTypes'
    BY <1>0, <1>1, <1>3 DEF TypeOK, ServerTypes
  <2>3. lease' \in [Hosts -> [Connections -> Leases]]
    BY <1>0, <1>1 DEF TypeOK, LeaseTypes
  <2> QED  BY <1>0, <1>1, <2>1, <2>2, <2>3, TaskOnlyTypes
<1>7. HostGood(h)'
  <2>1. TurnsGood(lease[h], needed[h], pending[h], NoConn, granted[h], session[h])
    BY <1>0, <1>2 DEF HostGood
  <2>2. TurnsGood(lease[h], needed[h], pending[h], NoConn, granted[h], "ended")
    BY <2>1, TurnsEnded
  <2>3. LocksGood(h, lease[h], NoConn, granted[h], "ended", alive', locks'[h])
    BY <1>1, <1>3, LocksGone
  <2>4. RevokedOnce(lease[h], holder[h], revoking[h], Tail(commands[h]))
    BY <1>0, <1>2, <1>5, CommandHandled DEF HostGood
  <2> QED  BY <1>1, <1>2, <1>4, <2>2, <2>3, <2>4 DEF HostGood, TaskOnly
<1>8. OthersKeep(h)
  BY <1>1, <1>2, <1>3, <1>4 DEF OthersKeep, TaskOnly
<1>9. \A p \in Callers : CallerGood(p)'
  BY <1>1, CallersKeep DEF TaskOnly, registryVars
<1>10. Exclusive'
  <2>1. \A o \in Hosts : \A k \in ResourceKeys : locks'[o][k] > 0 => locks[o][k] > 0
    BY <1>3
  <2> QED  BY <1>0, <1>1, <2>1, ExclusiveKept
<1> QED  BY <1>0, <1>6, <1>7, <1>8, <1>9, <1>10, InvFrom, OtherHosts

LEMMA HandleReleaseStep ==
  ASSUME Inv, NEW h \in Hosts, HandleRelease(h)  PROVE Inv'
<1>0. TypeOK /\ (\A o \in Hosts : HostGood(o)) /\ Exclusive /\ HostGood(h)
  BY DEF Inv
<1>1. PICK c : c = Head(commands[h]).conn
  OBVIOUS
<1>2. /\ Handles(h, "release") /\ (Unlocks(h, c) => h \in alive) /\ Handled(h)
      /\ locks' = IF Unlocks(h, c) THEN [locks EXCEPT ![h][KeyOf[c]] = @ - 1] ELSE locks
      /\ needed' = [needed EXCEPT ![h] = @ \ {c}]
      /\ lease' = [lease EXCEPT ![h][c] = Released]
      /\ TaskOnly /\ UNCHANGED <<acquiring, granted, session, alive, ghost, rival, losses>>
  BY <1>1 DEF HandleRelease
<1>3. PICK s \in SetToSeqs(Waiting(h, c)) :
          pending' = [pending EXCEPT ![h] = IF session[h] = "open" THEN @ \o s ELSE @]
  BY <1>1 DEF HandleRelease
<1>4. /\ acquiring[h] = NoConn /\ ~granted[h] /\ session[h] \in {"none", "open"}
      /\ commands[h] # <<>> /\ commands[h] \in Seq(Commands)
      /\ Head(commands[h]) = commands[h][1] /\ commands[h][1] \in Commands /\ commands[h][1].op = "release"
      /\ commands'[h] = Tail(commands[h]) /\ (\A o \in Hosts \ {h} : commands'[o] = commands[o])
      /\ commands' \in [Hosts -> Seq(Commands)] /\ inHand' \in [Hosts -> BOOLEAN]
  BY <1>0, <1>2, HandlesForm
<1>5. c \in Connections /\ KeyOf[c] \in ResourceKeys
  BY <1>1, <1>4, CommandForm, LeaseAssumption
<1>6. Releases(commands[h], 1, c)
  BY <1>1, <1>4 DEF Releases, Commands
<1>7. /\ pending[h] \in Seq(Connections \cup {NoConn}) /\ needed[h] \in SUBSET Connections
      /\ revoking[h] \in SUBSET Connections /\ lease[h] \in LeaseTable
      /\ locks[h] \in [ResourceKeys -> Nat] /\ granted[h] \in BOOLEAN
  BY <1>0, HostForm
<1>8. /\ s \in Seq(Connections) /\ \A i \in 1 .. Len(s) : s[i] \in needed[h] \ {c}
  <2>1. Waiting(h, c) \in SUBSET (needed[h] \ {c})
    BY DEF Waiting
  <2> QED  BY <1>7, <2>1, TurnsOfSet
<1>9. PICK t : t = IF session[h] = "open" THEN pending[h] \o s ELSE pending[h]
  OBVIOUS
<1>10. t \in Seq(Connections \cup {NoConn})
  <2>1. s \in Seq(Connections \cup {NoConn})
    BY <1>8
  <2> QED  BY <1>7, <1>9, <2>1
<1>11. /\ pending' = [pending EXCEPT ![h] = t]
       /\ pending'[h] = t /\ needed'[h] = needed[h] \ {c}
       /\ \A o \in Hosts \ {h} : pending'[o] = pending[o] /\ needed'[o] = needed[o]
  BY <1>0, <1>2, <1>3, <1>9 DEF TypeOK, TaskTypes
<1>12. /\ lease'[h] = [lease[h] EXCEPT ![c] = Released]
       /\ \A o \in Hosts \ {h} : lease'[o] = lease[o]
  BY <1>0, <1>2 DEF TypeOK, LeaseTypes
<1>13. \A d \in Connections : lease'[h][d] = IF d = c THEN Released ELSE lease[h][d]
  BY <1>7, <1>12 DEF LeaseTable
<1>14. Released \in Leases
  BY DEF Released, Leases
<1>15. TurnsGood(lease[h], needed[h], pending[h], NoConn, granted[h], session[h])
       /\ LocksGood(h, lease[h], NoConn, granted[h], session[h], alive, locks[h])
       /\ RevokedOnce(lease[h], holder[h], revoking[h], commands[h])
  BY <1>0, <1>4 DEF HostGood
<1>16. LocksGood(h, lease'[h], NoConn, granted[h], session[h], alive, locks'[h])
       /\ (\A o \in Hosts \ {h} : locks'[o] = locks[o])
       /\ (\A k \in ResourceKeys : locks'[h][k] > 0 => locks[h][k] > 0)
       /\ locks' \in [Hosts -> [ResourceKeys -> Nat]]
  <2>1. CASE Unlocks(h, c)
    <3>1. lease[h][c].state = "held" /\ h \in alive
      BY <1>2, <2>1 DEF Unlocks, State
    <3>2. locks[h][KeyOf[c]] > 0
      BY <1>5, <1>15, <3>1 DEF LocksGood
    <3>3. /\ locks' = [locks EXCEPT ![h][KeyOf[c]] = @ - 1]
          /\ locks'[h] = [locks[h] EXCEPT ![KeyOf[c]] = @ - 1]
          /\ \A o \in Hosts \ {h} : locks'[o] = locks[o]
      BY <1>0, <1>2, <2>1 DEF TypeOK, ServerTypes
    <3>4. \A k \in ResourceKeys : locks'[h][k] \in Nat /\ (locks'[h][k] > 0 => locks[h][k] > 0)
      BY <1>5, <1>7, <3>2, <3>3
    <3>5. locks' \in [Hosts -> [ResourceKeys -> Nat]]
      <4>1. locks[h][KeyOf[c]] - 1 \in Nat
        BY <1>5, <1>7, <3>2
      <4> QED  BY <1>0, <1>5, <3>3, <4>1 DEF TypeOK, ServerTypes
    <3>6. LocksGood(h, lease'[h], NoConn, granted[h], session[h], alive, locks'[h])
      <4>1. PICK u : u = [locks[h] EXCEPT ![KeyOf[c]] = @ - 1]
        OBVIOUS
      <4>2. \A d \in Connections : lease[h][d].state = "held" /\ KeyOf[d] = KeyOf[c] => d = c
        BY <1>5, <1>15, <3>1 DEF TurnsGood
      <4>3. granted[h] = FALSE
        BY <1>4, <1>7
      <4>4. LocksGood(h, lease[h], NoConn, FALSE, session[h], alive, locks[h])
        BY <1>15, <4>3
      <4>5. LocksGood(h, lease'[h], NoConn, FALSE, session[h], alive, u)
        BY <1>5, <1>7, <1>13, <3>1, <4>1, <4>2, <4>4, LocksReleased
      <4> QED  BY <3>3, <4>1, <4>3, <4>5
    <3> QED  BY <1>12, <3>3, <3>4, <3>5, <3>6
  <2>2. CASE ~Unlocks(h, c)
    <3>1. locks' = locks
      BY <1>2, <2>2
    <3>2. \A d \in Connections : lease'[h][d].state = "held" => lease[h][d].state = "held"
      BY <1>13 DEF Released
    <3>3. LocksGood(h, lease'[h], NoConn, granted[h], session[h], alive, locks[h])
      BY <1>15, <3>2, LocksKept
    <3> QED  BY <1>0, <3>1, <3>3 DEF TypeOK, ServerTypes
  <2> QED  BY <2>1, <2>2
<1>17. TypeOK'
  <2>1. TaskTypes'
    BY <1>0, <1>2, <1>4, <1>10, <1>11 DEF TypeOK, TaskTypes
  <2>2. ServerTypes'
    BY <1>0, <1>2, <1>16 DEF TypeOK, ServerTypes
  <2>3. lease' \in [Hosts -> [Connections -> Leases]]
    BY <1>0, <1>2, <1>14 DEF TypeOK, LeaseTypes
  <2> QED  BY <1>0, <1>2, <2>1, <2>2, <2>3, TaskOnlyTypes
<1>18. HostGood(h)'
  <2>1. TurnsGood(lease'[h], needed[h] \ {c}, pending[h], NoConn, granted[h], session[h])
    BY <1>5, <1>7, <1>13, <1>15, TurnsReleased
  <2>2. TurnsGood(lease'[h], needed[h] \ {c}, pending[h] \o s, NoConn, granted[h], session[h])
    BY <1>7, <1>8, <2>1, TurnsJoined
  <2>3. TurnsGood(lease'[h], needed[h] \ {c}, t, NoConn, granted[h], session[h])
    BY <1>9, <2>1, <2>2
  <2>4. RevokedOnce(lease'[h], holder[h], revoking[h], Tail(commands[h]))
    <3>1. \A d \in Connections :
             \/ lease'[h][d] = lease[h][d]
             \/ Releases(commands[h], 1, d) /\ lease'[h][d] = Released
      BY <1>6, <1>13
    <3> QED  BY <1>4, <1>7, <1>15, <3>1, CommandHandled
  <2> QED  BY <1>2, <1>4, <1>11, <1>16, <2>3, <2>4 DEF HostGood, TaskOnly
<1>19. OthersKeep(h)
  BY <1>2, <1>4, <1>11, <1>12, <1>16 DEF OthersKeep, TaskOnly
<1>20. \A p \in Callers : CallerGood(p)'
  <2>1. 1 \in 1 .. Len(commands[h])
    BY <1>4, TailForm
  <2>2. holder[h][c] = NoCaller
    BY <1>5, <1>6, <1>15, <2>1 DEF RevokedOnce
  <2>3. ASSUME NEW o \in Hosts, NEW d \in Connections, NEW p \in Callers, holder[o][d] = p
        PROVE  lease'[o][d] = lease[o][d]
    BY <1>12, <1>13, <2>2, <2>3, LeaseAssumption
  <2> QED  BY <1>2, <2>3, CallersKeep DEF TaskOnly, registryVars
<1>21. Exclusive'
  <2>1. \A o \in Hosts : \A k \in ResourceKeys : locks'[o][k] > 0 => locks[o][k] > 0
    BY <1>16
  <2> QED  BY <1>0, <1>2, <2>1, ExclusiveKept
<1> QED  BY <1>0, <1>17, <1>18, <1>19, <1>20, <1>21, InvFrom, OtherHosts

-----------------------------------------------------------------------------
(* Revokes.                                                                 *)

\* revoke changes only whether leases are active.
LEMMA RevokeForm ==
  ASSUME TypeOK, NEW h \in Hosts, NEW C \in SUBSET Connections, Revoke(h, C)
  PROVE  /\ lease' \in [Hosts -> [Connections -> Leases]] /\ revoking' \in [Hosts -> SUBSET Connections]
         /\ \A o \in Hosts \ {h} : lease'[o] = lease[o] /\ revoking'[o] = revoking[o]
         /\ \A o \in Hosts : \A c \in Connections :
                /\ lease'[o][c].state = lease[o][c].state /\ lease'[o][c].epoch = lease[o][c].epoch
                /\ lease'[o][c].active => lease[o][c].active
         /\ \A c \in C : ~lease'[h][c].active
         /\ revoking'[h] = revoking[h] \cup {c \in C : lease[h][c].active}
<1>1. PICK table : table = [c \in Connections |-> IF c \in C THEN [lease[h][c] EXCEPT !.active = FALSE]
                                                 ELSE lease[h][c]]
  OBVIOUS
<1>2. lease' = [lease EXCEPT ![h] = table] /\ lease \in [Hosts -> [Connections -> Leases]]
  BY <1>1 DEF Revoke, TypeOK, LeaseTypes
<1>3. lease'[h] = table /\ \A o \in Hosts \ {h} : lease'[o] = lease[o]
  BY <1>2
<1>4. \A c \in Connections :
         /\ table[c] \in Leases /\ table[c].state = lease[h][c].state /\ table[c].epoch = lease[h][c].epoch
         /\ table[c].active => lease[h][c].active
         /\ c \in C => ~table[c].active
  <2> SUFFICES ASSUME NEW c \in Connections
               PROVE  /\ table[c] \in Leases /\ table[c].state = lease[h][c].state
                      /\ table[c].epoch = lease[h][c].epoch
                      /\ table[c].active => lease[h][c].active
                      /\ c \in C => ~table[c].active
    OBVIOUS
  <2>1. lease[h][c] \in Leases
    BY <1>2
  <2>2. CASE c \in C
    <3>1. table[c] = [lease[h][c] EXCEPT !.active = FALSE]
      BY <1>1, <2>2
    <3> QED  BY <2>1, <3>1 DEF Leases
  <2>3. CASE c \notin C
    BY <1>1, <2>1, <2>3
  <2> QED  BY <2>2, <2>3
<1>5. table \in [Connections -> Leases]
  BY <1>1, <1>4
<1>6. lease' \in [Hosts -> [Connections -> Leases]]
  BY <1>2, <1>5
<1>7. /\ revoking' \in [Hosts -> SUBSET Connections]
      /\ revoking'[h] = revoking[h] \cup {c \in C : lease[h][c].active}
      /\ \A o \in Hosts \ {h} : revoking'[o] = revoking[o]
  BY DEF Revoke, TypeOK, LeaseTypes, Active
<1> QED  BY <1>3, <1>4, <1>6, <1>7

\* A revoke, after which no other mutex is held.
LEMMA RevokeHosts ==
  ASSUME TypeOK, \A o \in Hosts : HostGood(o), NEW h \in Hosts, NEW C \in SUBSET Connections, Revoke(h, C),
         UNCHANGED <<taskVars, alive, locks>>, \A o \in Hosts \ {h} : holder'[o] = holder[o],
         \A c \in Connections : holder[h][c] = NoCaller => holder'[h][c] = NoCaller
  PROVE  \A o \in Hosts : HostGood(o)'
<1>1. PICK more : more = {c \in C : lease[h][c].active}
  OBVIOUS
<1>2. /\ \A o \in Hosts \ {h} : lease'[o] = lease[o] /\ revoking'[o] = revoking[o]
      /\ \A c \in Connections :
                /\ lease'[h][c].state = lease[h][c].state /\ lease'[h][c].epoch = lease[h][c].epoch
                /\ lease'[h][c].active => lease[h][c].active
      /\ \A c \in C : ~lease'[h][c].active
      /\ revoking'[h] = revoking[h] \cup more
  BY <1>1, RevokeForm
<1>3. revoking[h] \in SUBSET Connections /\ more \in SUBSET Connections
  BY <1>1, HostForm
<1>4. HostGood(h)
  OBVIOUS
<1>5. RevokedOnce(lease'[h], holder[h], revoking[h] \cup more, commands[h])
  <2>1. \A c \in more : lease[h][c].active /\ ~lease'[h][c].active
    BY <1>1, <1>2
  <2>2. RevokedOnce(lease[h], holder[h], revoking[h], commands[h])
    BY <1>4 DEF HostGood
  <2> QED  BY <1>2, <1>3, <2>1, <2>2, RevokedMore
<1>6. RevokedOnce(lease'[h], holder'[h], revoking[h] \cup more, commands[h])
  <2>1. revoking[h] \cup more \in SUBSET Connections
    BY <1>3
  <2> QED  BY <1>5, <2>1, RevokedKeeps
<1>7. TurnsGood(lease'[h], needed[h], pending[h], acquiring[h], granted[h], session[h])
  BY <1>2, <1>4, TurnsKept DEF HostGood
<1>8. LocksGood(h, lease'[h], acquiring[h], granted[h], session[h], alive, locks[h])
  BY <1>2, <1>4, LocksKept DEF HostGood
<1>9. HostGood(h)'
  BY <1>2, <1>6, <1>7, <1>8 DEF HostGood, taskVars
<1>10. OthersKeep(h)
  BY <1>2 DEF OthersKeep, taskVars
<1> QED  BY <1>9, <1>10, OtherHosts

\* The delete of the connections C reaches the host.
LEMMA DeleteArrives ==
  ASSUME Inv, NEW h \in Hosts, NEW C \in SUBSET Connections, Revoke(h, C), Outdate(h, C, NoCaller),
         due' \in [Hosts -> SUBSET Connections], applying' \in [Hosts -> SUBSET Connections],
         UNCHANGED <<enabled, changes, holder, stage, taskVars, serverVars, phase, conn, epoch, broken>>
  PROVE  Inv'
<1>0. TypeOK /\ (\A o \in Hosts : HostGood(o)) /\ Exclusive
  BY DEF Inv
<1>1. /\ lease' \in [Hosts -> [Connections -> Leases]] /\ revoking' \in [Hosts -> SUBSET Connections]
      /\ \A o \in Hosts : \A c \in Connections :
                lease'[o][c].state = lease[o][c].state /\ lease'[o][c].epoch = lease[o][c].epoch
  BY <1>0, RevokeForm
<1>2. stale' = stale \cup {q \in Callers : HostOf[q] = h /\ conn[q] \in C}
  BY <1>0, LeaseAssumption DEF Outdate, TypeOK, CallTypes
<1>4. TypeOK'
  <2>1. RegistryTypes'
    BY <1>0 DEF TypeOK, RegistryTypes
  <2>2. LeaseTypes'
    BY <1>0, <1>1 DEF TypeOK, LeaseTypes
  <2>3. TaskTypes' /\ ServerTypes'
    BY <1>0 DEF TypeOK, TaskTypes, ServerTypes, taskVars, serverVars
  <2>4. CallTypes'
    BY <1>0, <1>2 DEF TypeOK, CallTypes
  <2> QED  BY <2>1, <2>2, <2>3, <2>4 DEF TypeOK
<1>5. \A o \in Hosts : HostGood(o)'
  BY <1>0, RevokeHosts DEF serverVars
<1>6. ASSUME NEW p \in Callers  PROVE CallerGood(p)'
  <2>1. CallerGood(p) /\ HostOf[p] \in Hosts
    BY LeaseAssumption DEF Inv
  <2>2. CallGood(lease'[HostOf[p]][conn[p]], holder[HostOf[p]][conn[p]], p, phase[p], conn[p],
                 epoch[p], broken)
    <3>1. phase[p] \in Locking => conn[p] \in Connections
      BY <2>1 DEF CallerGood, CallGood, Locking
    <3> QED  BY <1>1, <2>1, <3>1, CallKept DEF CallerGood
  <2> QED  BY <2>2 DEF CallerGood
<1>7. Exclusive'
  BY <1>0 DEF Exclusive, serverVars
<1> QED  BY <1>4, <1>5, <1>6, <1>7, InvFrom

LEMMA RegistryStep ==
  ASSUME Inv
  PROVE  /\ \A c \in Connections : ChangeConnection(c) => Inv'
         /\ \A h \in Hosts, c \in Connections : DeliverDelete(h, c) \/ DropFact(h, c) => Inv'
         /\ \A h \in Hosts : WatchBreaks(h) => Inv'
<1>0. TypeOK /\ (\A o \in Hosts : HostGood(o)) /\ Exclusive
  BY DEF Inv
<1>1. ASSUME NEW c \in Connections, ChangeConnection(c)  PROVE Inv'
  <2>1. /\ due' = [h \in Hosts |-> due[h] \cup {c}]
        /\ UNCHANGED <<applying, leaseVars, taskVars, serverVars, callVars>>
        /\ changes' \in 0 .. MaxChanges /\ enabled' \in SUBSET Connections
    BY <1>0, <1>1, LeaseAssumption DEF ChangeConnection, TypeOK, RegistryTypes
  <2>2. TypeOK'
    BY <1>0, <2>1 DEF TypeOK, RegistryTypes, LeaseTypes, TaskTypes, ServerTypes, CallTypes, leaseVars, taskVars,
       serverVars, callVars
  <2>3. \A o \in Hosts : HostGood(o)'
    BY <1>0, <2>1 DEF HostGood, leaseVars, taskVars, serverVars
  <2>4. ASSUME NEW p \in Callers  PROVE CallerGood(p)'
    <3>1. CallerGood(p)
      BY DEF Inv
    <3> QED  BY <2>1, <3>1 DEF CallerGood, leaseVars, callVars
  <2>5. Exclusive'
    BY <1>0, <2>1 DEF Exclusive, serverVars
  <2> QED  BY <2>2, <2>3, <2>4, <2>5, InvFrom
<1>2. ASSUME NEW h \in Hosts, NEW c \in Connections, DeliverDelete(h, c)  PROVE Inv'
  <2>1. due' \in [Hosts -> SUBSET Connections] /\ applying' \in [Hosts -> SUBSET Connections]
    BY <1>0, <1>2 DEF DeliverDelete, TypeOK, RegistryTypes
  <2> QED  BY <1>2, <2>1, DeleteArrives DEF DeliverDelete, Invalidate
<1>3. ASSUME NEW h \in Hosts, WatchBreaks(h)  PROVE Inv'
  <2>1. due' \in [Hosts -> SUBSET Connections] /\ applying' \in [Hosts -> SUBSET Connections]
    BY <1>0, <1>3 DEF WatchBreaks, TypeOK, RegistryTypes
  <2> QED  BY <1>3, <2>1, DeleteArrives DEF WatchBreaks
<1>4. ASSUME NEW h \in Hosts, NEW c \in Connections, DropFact(h, c)  PROVE Inv'
  <2>1. /\ applying' = [applying EXCEPT ![h] = @ \ {c}]
        /\ UNCHANGED <<enabled, due, changes, leaseVars, taskVars, serverVars, callVars>>
    BY <1>4 DEF DropFact
  <2>2. TypeOK'
    BY <1>0, <2>1 DEF TypeOK, RegistryTypes, LeaseTypes, TaskTypes, ServerTypes, CallTypes, leaseVars, taskVars,
       serverVars, callVars
  <2>3. \A o \in Hosts : HostGood(o)'
    BY <1>0, <2>1 DEF HostGood, leaseVars, taskVars, serverVars
  <2>4. \A p \in Callers : CallerGood(p)'
    BY <2>1 DEF Inv, CallerGood, leaseVars, callVars
  <2>5. Exclusive'
    BY <1>0, <2>1 DEF Exclusive, serverVars
  <2> QED  BY <2>2, <2>3, <2>4, <2>5, InvFrom
<1> QED  BY <1>1, <1>2, <1>3, <1>4

LEMMA RevokeSendsStep ==
  ASSUME Inv, NEW h \in Hosts, NEW c \in Connections, RevokeSends(h, c)  PROVE Inv'
<1>0. TypeOK /\ (\A o \in Hosts : HostGood(o)) /\ Exclusive /\ HostGood(h)
  BY DEF Inv
<1>1. PICK x : x = [op |-> "release", conn |-> c]
  OBVIOUS
<1>2. /\ c \in revoking[h] /\ holder[h][c] = NoCaller
      /\ revoking' = [revoking EXCEPT ![h] = @ \ {c}] /\ commands' = [commands EXCEPT ![h] = Append(@, x)]
      /\ UNCHANGED <<registryVars, lease, holder, stage, needed, pending, acquiring, granted,
                     inHand, session, serverVars, callVars>>
  BY <1>1 DEF RevokeSends, Enqueue
<1>3. x \in Commands /\ commands[h] \in Seq(Commands) /\ revoking[h] \in SUBSET Connections
  BY <1>0, <1>1, HostForm DEF Commands
<1>4. Append(commands[h], x) \in Seq(Commands)
  BY <1>3
<1>5. /\ commands'[h] = Append(commands[h], x) /\ revoking'[h] = revoking[h] \ {c}
      /\ \A o \in Hosts \ {h} : commands'[o] = commands[o] /\ revoking'[o] = revoking[o]
  BY <1>0, <1>2 DEF TypeOK, TaskTypes, LeaseTypes
<1>6. TypeOK'
  <2>1. TaskTypes'
    BY <1>0, <1>2, <1>4 DEF TypeOK, TaskTypes
  <2>2. LeaseTypes'
    BY <1>0, <1>2 DEF TypeOK, LeaseTypes
  <2>3. RegistryTypes' /\ ServerTypes' /\ CallTypes'
    BY <1>0, <1>2 DEF TypeOK, RegistryTypes, ServerTypes, CallTypes, registryVars, serverVars, callVars
  <2> QED  BY <2>1, <2>2, <2>3 DEF TypeOK
<1>7. HostGood(h)'
  <2>1. RevokedOnce(lease[h], holder[h], revoking[h], commands[h])
    BY <1>0 DEF HostGood
  <2>2. RevokedOnce(lease[h], holder[h], revoking[h] \ {c}, Append(commands[h], x))
    BY <1>1, <1>2, <1>3, <2>1, ReleaseSent
  <2> QED  BY <1>0, <1>2, <1>5, <2>2 DEF HostGood, serverVars
<1>8. OthersKeep(h)
  BY <1>2, <1>5 DEF OthersKeep, serverVars
<1>9. \A p \in Callers : CallerGood(p)'
  BY <1>2 DEF Inv, CallerGood, registryVars, callVars
<1>10. Exclusive'
  BY <1>0, <1>2 DEF Exclusive, serverVars
<1> QED  BY <1>0, <1>6, <1>7, <1>8, <1>9, <1>10, InvFrom, OtherHosts

LEMMA ShutdownStep ==
  ASSUME Inv, NEW h \in Hosts
  PROVE  /\ ShutdownBegins(h) => Inv'
         /\ LeasesDrained(h) => Inv'
         /\ ShutdownEnds(h) => Inv'
<1>0. TypeOK /\ (\A o \in Hosts : HostGood(o)) /\ Exclusive /\ HostGood(h)
  BY DEF Inv
<1>1. ASSUME ShutdownBegins(h)  PROVE Inv'
  <2>1. /\ stage' = [stage EXCEPT ![h] = "draining"] /\ Revoke(h, Connections)
        /\ UNCHANGED <<registryVars, holder, taskVars, serverVars, callVars>>
    BY <1>1 DEF ShutdownBegins
  <2>2. /\ lease' \in [Hosts -> [Connections -> Leases]] /\ revoking' \in [Hosts -> SUBSET Connections]
        /\ \A o \in Hosts : \A c \in Connections :
                lease'[o][c].state = lease[o][c].state /\ lease'[o][c].epoch = lease[o][c].epoch
    BY <1>0, <2>1, RevokeForm
  <2>3. TypeOK'
    <3>1. LeaseTypes'
      BY <1>0, <2>1, <2>2 DEF TypeOK, LeaseTypes
    <3>2. RegistryTypes' /\ TaskTypes' /\ ServerTypes' /\ CallTypes'
      BY <1>0, <2>1 DEF TypeOK, RegistryTypes, TaskTypes, ServerTypes, CallTypes, registryVars, taskVars,
         serverVars, callVars
    <3> QED  BY <3>1, <3>2 DEF TypeOK
  <2>4. \A o \in Hosts : HostGood(o)'
    BY <1>0, <2>1, RevokeHosts DEF serverVars
  <2>5. \A p \in Callers : CallerGood(p)'
    BY <2>1, <2>2, CallersKeep DEF registryVars
  <2>6. Exclusive'
    BY <1>0, <2>1 DEF Exclusive, serverVars
  <2> QED  BY <2>3, <2>4, <2>5, <2>6, InvFrom
<1>2. ASSUME LeasesDrained(h)  PROVE Inv'
  <2>1. PICK x : x = [op |-> "stop", conn |-> NoConn]
    OBVIOUS
  <2>2. /\ stage' = [stage EXCEPT ![h] = "closing"] /\ commands' = [commands EXCEPT ![h] = Append(@, x)]
        /\ UNCHANGED <<registryVars, lease, holder, revoking, needed, pending, acquiring, granted,
                       inHand, session, serverVars, callVars>>
    BY <1>2, <2>1 DEF LeasesDrained, Enqueue
  <2>3. x \in Commands /\ x.op # "release" /\ commands[h] \in Seq(Commands)
    BY <1>0, <2>1, HostForm DEF Commands
  <2>4. Append(commands[h], x) \in Seq(Commands)
    BY <2>3
  <2>5. commands'[h] = Append(commands[h], x) /\ \A o \in Hosts \ {h} : commands'[o] = commands[o]
    BY <1>0, <2>2 DEF TypeOK, TaskTypes
  <2>6. TypeOK'
    <3>1. TaskTypes'
      BY <1>0, <2>2, <2>4 DEF TypeOK, TaskTypes
    <3>2. LeaseTypes'
      BY <1>0, <2>2 DEF TypeOK, LeaseTypes
    <3>3. RegistryTypes' /\ ServerTypes' /\ CallTypes'
      BY <1>0, <2>2 DEF TypeOK, RegistryTypes, ServerTypes, CallTypes, registryVars, serverVars, callVars
    <3> QED  BY <3>1, <3>2, <3>3 DEF TypeOK
  <2>7. HostGood(h)'
    <3>1. RevokedOnce(lease[h], holder[h], revoking[h], Append(commands[h], x))
      BY <1>0, <2>3, OtherCommand DEF HostGood
    <3> QED  BY <1>0, <2>2, <2>5, <3>1 DEF HostGood, serverVars
  <2>8. OthersKeep(h)
    BY <2>2, <2>5 DEF OthersKeep, serverVars
  <2>9. \A p \in Callers : CallerGood(p)'
    BY <2>2 DEF Inv, CallerGood, registryVars, callVars
  <2>10. Exclusive'
    BY <1>0, <2>2 DEF Exclusive, serverVars
  <2> QED  BY <1>0, <2>6, <2>7, <2>8, <2>9, <2>10, InvFrom, OtherHosts
<1>3. ASSUME ShutdownEnds(h)  PROVE Inv'
  <2>1. /\ stage' = [stage EXCEPT ![h] = "stopped"]
        /\ UNCHANGED <<registryVars, lease, holder, revoking, taskVars, serverVars, callVars>>
    BY <1>3 DEF ShutdownEnds
  <2>2. TypeOK'
    BY <1>0, <2>1 DEF TypeOK, RegistryTypes, LeaseTypes, TaskTypes, ServerTypes, CallTypes, registryVars,
       taskVars, serverVars, callVars
  <2>3. \A o \in Hosts : HostGood(o)'
    BY <1>0, <2>1 DEF HostGood, taskVars, serverVars
  <2>4. \A p \in Callers : CallerGood(p)'
    BY <2>1 DEF Inv, CallerGood, registryVars, callVars
  <2>5. Exclusive'
    BY <1>0, <2>1 DEF Exclusive, serverVars
  <2> QED  BY <2>2, <2>3, <2>4, <2>5, InvFrom
<1> QED  BY <1>1, <1>2, <1>3

-----------------------------------------------------------------------------
(* Steps of a call.                                                         *)

\* A step of the call p: what the other calls rely on stays.
LEMMA OtherCallers ==
  ASSUME \A q \in Callers : CallerGood(q), NEW p \in Callers, CallerGood(p)',
         \A q \in Callers \ {p} :
             /\ phase'[q] = phase[q] \/ (phase[q] = "wait" /\ phase'[q] = "refused")
             /\ conn'[q] = conn[q] /\ epoch'[q] = epoch[q]
             /\ q \in broken' <=> q \in broken,
         \A o \in Hosts : \A c \in Connections :
             /\ \A q \in Callers \ {p} : holder[o][c] = q => holder'[o][c] = q
             /\ lease[o][c].state # "released" =>
                    /\ lease'[o][c].state = lease[o][c].state
                    /\ lease'[o][c].epoch = lease[o][c].epoch
  PROVE  \A q \in Callers : CallerGood(q)'
<1> SUFFICES ASSUME NEW q \in Callers, q # p  PROVE CallerGood(q)'
  OBVIOUS
<1>1. CallerGood(q) /\ HostOf[q] \in Hosts
  BY LeaseAssumption
<1>2. /\ phase'[q] = phase[q] \/ (phase[q] = "wait" /\ phase'[q] = "refused")
      /\ conn'[q] = conn[q] /\ epoch'[q] = epoch[q]
      /\ q \in broken' <=> q \in broken
  OBVIOUS
<1>4. CallGood(lease'[HostOf[q]][conn[q]], holder'[HostOf[q]][conn[q]], q, phase'[q], conn[q],
               epoch[q], broken')
  <2>1. CASE phase[q] \in Locking
    <3>1. /\ phase'[q] = phase[q] /\ conn[q] \in Connections /\ holder[HostOf[q]][conn[q]] = q
          /\ lease[HostOf[q]][conn[q]].state # "released"
      BY <1>1, <1>2, <2>1 DEF CallerGood, CallGood, Locking
    <3>2. /\ holder'[HostOf[q]][conn[q]] = q
          /\ lease'[HostOf[q]][conn[q]].state = lease[HostOf[q]][conn[q]].state
          /\ lease'[HostOf[q]][conn[q]].epoch = lease[HostOf[q]][conn[q]].epoch
      BY <1>1, <3>1
    <3> QED  BY <1>1, <1>2, <3>1, <3>2 DEF CallerGood, CallGood
  <2>2. CASE phase[q] \notin Locking
    <3>1. phase'[q] \notin Locking /\ q \notin broken' /\ (phase'[q] # "idle" => conn[q] \in Connections)
      BY <1>1, <1>2, <2>2 DEF CallerGood, CallGood, Locking
    <3> QED  BY <3>1, CallOutside
  <2> QED  BY <2>1, <2>2
<1> QED  BY <1>2, <1>4 DEF CallerGood

\* A step that changes nothing of the hosts but who holds a mutex.
LEMMA HolderHosts ==
  ASSUME TypeOK, \A o \in Hosts : HostGood(o), UNCHANGED <<lease, revoking, taskVars, alive, locks>>,
         \A o \in Hosts : \A c \in Connections :
             holder[o][c] = NoCaller /\ ~lease[o][c].active => holder'[o][c] = NoCaller
  PROVE  \A o \in Hosts : HostGood(o)'
<1> SUFFICES ASSUME NEW o \in Hosts  PROVE HostGood(o)'
  OBVIOUS
<1>1. HostGood(o) /\ revoking[o] \in SUBSET Connections
  BY HostForm
<1>2. RevokedOnce(lease[o], holder'[o], revoking[o], commands[o])
  BY <1>1, RevokedKeeps DEF HostGood
<1> QED  BY <1>1, <1>2 DEF HostGood, taskVars

\* A call that ends.
LEMMA IdleForm ==
  ASSUME TypeOK, NEW p \in Callers, Idle(p), stale' \in SUBSET Callers
  PROVE  /\ CallTypes' /\ phase'[p] = "idle" /\ p \notin broken'
         /\ \A q \in Callers \ {p} :
                /\ phase'[q] = phase[q] /\ conn'[q] = conn[q] /\ epoch'[q] = epoch[q]
                /\ q \in broken' <=> q \in broken
<1>1. CallTypes'
  BY DEF Idle, Goto, TypeOK, CallTypes, Phases, Locking
<1> QED  BY <1>1 DEF Idle, Goto, TypeOK, CallTypes

LEMMA IdleGood ==
  ASSUME NEW p \in Callers, phase'[p] = "idle", p \notin broken'
  PROVE  CallerGood(p)'
<1>1. CallGood(lease'[HostOf[p]][conn'[p]], holder'[HostOf[p]][conn'[p]], p, phase'[p], conn'[p],
               epoch'[p], broken')
  BY CallOutside DEF Locking
<1> QED  BY <1>1 DEF CallerGood

\* The mutex of a call that holds it is free again.
LEMMA UnlockForm ==
  ASSUME Inv, NEW p \in Callers, phase[p] \in Locking, Unlock(p)
  PROVE  /\ holder' \in [Hosts -> [Connections -> Callers \cup {NoCaller}]]
         /\ \A o \in Hosts \ {HostOf[p]} : holder'[o] = holder[o]
         /\ \A o \in Hosts : \A c \in Connections :
                /\ holder[o][c] = NoCaller => holder'[o][c] = NoCaller
                /\ \A q \in Callers \ {p} : holder[o][c] = q => holder'[o][c] = q
<1>1. PICK h : h = HostOf[p]
  OBVIOUS
<1>2. PICK d : d = conn[p]
  OBVIOUS
<1>3. TypeOK /\ h \in Hosts /\ d \in Connections /\ holder[h][d] = p
  BY <1>1, <1>2, LeaseAssumption DEF Inv, CallerGood, CallGood, Locking
<1>4. holder \in [Hosts -> [Connections -> Callers \cup {NoCaller}]]
      /\ holder' = [holder EXCEPT ![h][d] = NoCaller]
  BY <1>1, <1>2, <1>3 DEF Unlock, TypeOK, LeaseTypes
<1>5. holder' \in [Hosts -> [Connections -> Callers \cup {NoCaller}]]
  BY <1>3, <1>4
<1>6. \A o \in Hosts : \A c \in Connections : holder'[o][c] = IF o = h /\ c = d THEN NoCaller ELSE holder[o][c]
  BY <1>3, <1>4
<1>7. \A o \in Hosts \ {h} : holder'[o] = holder[o]
  BY <1>3, <1>4
<1> QED  BY <1>1, <1>3, <1>5, <1>6, <1>7

\* A call ends with no revoke; the mutex it may have held is free.
LEMMA CallEnds ==
  ASSUME Inv, NEW p \in Callers, Idle(p), stale' = stale \ {p},
         UNCHANGED <<registryVars, lease, revoking, stage, taskVars, serverVars>>,
         holder' = holder \/ (phase[p] \in Locking /\ Unlock(p))
  PROVE  Inv'
<1>0. TypeOK /\ (\A o \in Hosts : HostGood(o)) /\ (\A q \in Callers : CallerGood(q)) /\ Exclusive
  BY DEF Inv
<1>1. /\ holder' \in [Hosts -> [Connections -> Callers \cup {NoCaller}]]
      /\ \A o \in Hosts : \A c \in Connections :
                /\ holder[o][c] = NoCaller => holder'[o][c] = NoCaller
                /\ \A q \in Callers \ {p} : holder[o][c] = q => holder'[o][c] = q
  BY <1>0, UnlockForm DEF TypeOK, LeaseTypes
<1>2. /\ CallTypes' /\ phase'[p] = "idle" /\ p \notin broken'
      /\ \A q \in Callers \ {p} :
             /\ phase'[q] = phase[q] /\ conn'[q] = conn[q] /\ epoch'[q] = epoch[q]
             /\ q \in broken' <=> q \in broken
  <2>1. stale' \in SUBSET Callers
    BY <1>0 DEF TypeOK, CallTypes
  <2> QED  BY <1>0, <2>1, IdleForm
<1>3. TypeOK'
  <2>1. RegistryTypes' /\ TaskTypes' /\ ServerTypes'
    BY <1>0 DEF TypeOK, RegistryTypes, TaskTypes, ServerTypes, registryVars, taskVars, serverVars
  <2>2. LeaseTypes'
    BY <1>0, <1>1 DEF TypeOK, LeaseTypes
  <2> QED  BY <1>2, <2>1, <2>2 DEF TypeOK
<1>4. \A o \in Hosts : HostGood(o)'
  BY <1>0, <1>1, HolderHosts DEF serverVars
<1>5. \A q \in Callers : CallerGood(q)'
  <2>1. CallerGood(p)'
    BY <1>2, IdleGood
  <2> QED  BY <1>0, <1>1, <1>2, <2>1, OtherCallers
<1>6. Exclusive'
  BY <1>0 DEF Exclusive, serverVars
<1> QED  BY <1>3, <1>4, <1>5, <1>6, InvFrom

\* A call ends and the lease of its connection is revoked.
LEMMA CallInvalidates ==
  ASSUME Inv, NEW p \in Callers, phase[p] # "idle", Idle(p), Invalidate(HostOf[p], conn[p], p),
         UNCHANGED <<registryVars, stage, taskVars, serverVars>>,
         holder' = holder \/ (phase[p] \in Locking /\ Unlock(p))
  PROVE  Inv'
<1>0. TypeOK /\ (\A o \in Hosts : HostGood(o)) /\ (\A q \in Callers : CallerGood(q)) /\ Exclusive
  BY DEF Inv
<1>1. /\ holder' \in [Hosts -> [Connections -> Callers \cup {NoCaller}]]
      /\ \A o \in Hosts \ {HostOf[p]} : holder'[o] = holder[o]
      /\ \A o \in Hosts : \A c \in Connections :
                /\ holder[o][c] = NoCaller => holder'[o][c] = NoCaller
                /\ \A q \in Callers \ {p} : holder[o][c] = q => holder'[o][c] = q
  BY <1>0, UnlockForm DEF TypeOK, LeaseTypes
<1>2. HostOf[p] \in Hosts /\ conn[p] \in Connections
  BY <1>0, LeaseAssumption DEF CallerGood, CallGood
<1>3. Revoke(HostOf[p], {conn[p]}) /\ {conn[p]} \in SUBSET Connections
      /\ stale' = (stale \cup {q \in Callers : HostOf[q] = HostOf[p] /\ conn[q] \in {conn[p]}}) \ {p}
  BY <1>2 DEF Invalidate, Outdate
<1>4. /\ CallTypes' /\ phase'[p] = "idle" /\ p \notin broken'
      /\ \A q \in Callers \ {p} :
             /\ phase'[q] = phase[q] /\ conn'[q] = conn[q] /\ epoch'[q] = epoch[q]
             /\ q \in broken' <=> q \in broken
  <2>1. stale' \in SUBSET Callers
    BY <1>0, <1>3 DEF TypeOK, CallTypes
  <2> QED  BY <1>0, <2>1, IdleForm
<1>5. /\ lease' \in [Hosts -> [Connections -> Leases]] /\ revoking' \in [Hosts -> SUBSET Connections]
      /\ \A o \in Hosts : \A c \in Connections :
                lease'[o][c].state = lease[o][c].state /\ lease'[o][c].epoch = lease[o][c].epoch
  BY <1>0, <1>2, <1>3, RevokeForm
<1>6. TypeOK'
  <2>1. RegistryTypes' /\ TaskTypes' /\ ServerTypes'
    BY <1>0 DEF TypeOK, RegistryTypes, TaskTypes, ServerTypes, registryVars, taskVars, serverVars
  <2>2. LeaseTypes'
    BY <1>0, <1>1, <1>5 DEF TypeOK, LeaseTypes
  <2> QED  BY <1>4, <2>1, <2>2 DEF TypeOK
<1>7. \A o \in Hosts : HostGood(o)'
  BY <1>0, <1>1, <1>2, <1>3, RevokeHosts DEF serverVars
<1>8. \A q \in Callers : CallerGood(q)'
  <2>1. CallerGood(p)'
    BY <1>4, IdleGood
  <2> QED  BY <1>0, <1>1, <1>4, <1>5, <2>1, OtherCallers
<1>9. Exclusive'
  BY <1>0 DEF Exclusive, serverVars
<1> QED  BY <1>6, <1>7, <1>8, <1>9, InvFrom

\* A call goes on to the phase s and changes nothing else.
LEMMA CallAdvances ==
  ASSUME Inv, NEW p \in Callers, NEW s \in Phases, Goto(p, s),
         UNCHANGED <<registryVars, leaseVars, taskVars, serverVars, epoch, stale, broken>>,
         conn' \in [Callers -> Connections \cup {NoConn}],
         \A q \in Callers \ {p} : conn'[q] = conn[q],
         CallGood(lease[HostOf[p]][conn'[p]], holder[HostOf[p]][conn'[p]], p, s, conn'[p], epoch[p], broken)
  PROVE  Inv'
<1>0. TypeOK /\ (\A o \in Hosts : HostGood(o)) /\ (\A q \in Callers : CallerGood(q)) /\ Exclusive
  BY DEF Inv
<1>1. phase' \in [Callers -> Phases] /\ phase'[p] = s /\ \A q \in Callers \ {p} : phase'[q] = phase[q]
  BY <1>0 DEF Goto, TypeOK, CallTypes
<1>2. TypeOK'
  <2>1. CallTypes'
    BY <1>0, <1>1 DEF TypeOK, CallTypes
  <2>2. RegistryTypes' /\ LeaseTypes' /\ TaskTypes' /\ ServerTypes'
    BY <1>0 DEF TypeOK, RegistryTypes, LeaseTypes, TaskTypes, ServerTypes, registryVars, leaseVars, taskVars,
       serverVars
  <2> QED  BY <2>1, <2>2 DEF TypeOK
<1>3. \A o \in Hosts : HostGood(o)'
  BY <1>0 DEF HostGood, leaseVars, taskVars, serverVars
<1>4. \A q \in Callers : CallerGood(q)'
  <2>1. CallerGood(p)'
    BY <1>1 DEF CallerGood, registryVars, leaseVars
  <2>2. lease' = lease /\ holder' = holder /\ epoch' = epoch /\ broken' = broken
    BY DEF leaseVars
  <2> QED  BY <1>0, <1>1, <2>1, <2>2, OtherCallers
<1>5. Exclusive'
  BY <1>0 DEF Exclusive, serverVars
<1> QED  BY <1>2, <1>3, <1>4, <1>5, InvFrom

LEMMA StartStep ==
  ASSUME Inv, NEW p \in Callers, NEW c \in Connections, Start(p, c)  PROVE Inv'
<1>0. TypeOK /\ CallerGood(p)
  BY DEF Inv
<1>1. /\ phase[p] = "idle" /\ Goto(p, "fact") /\ conn' = [conn EXCEPT ![p] = c]
      /\ UNCHANGED <<registryVars, leaseVars, taskVars, serverVars, epoch, stale, broken>>
  BY DEF Start
<1>2. /\ conn' \in [Callers -> Connections \cup {NoConn}] /\ conn'[p] = c
      /\ \A q \in Callers \ {p} : conn'[q] = conn[q]
  BY <1>0, <1>1 DEF TypeOK, CallTypes
<1>3. CallGood(lease[HostOf[p]][c], holder[HostOf[p]][c], p, "fact", c, epoch[p], broken)
  BY <1>0, <1>1 DEF CallerGood, CallGood, Locking
<1>5. "fact" \in Phases
  BY DEF Phases, Locking
<1> QED  BY <1>1, <1>2, <1>3, <1>5, CallAdvances

LEMMA ReadFactStep ==
  ASSUME Inv, NEW p \in Callers, ReadFact(p)  PROVE Inv'
<1>0. TypeOK /\ CallerGood(p) /\ phase[p] = "fact"
  BY DEF Inv, ReadFact
<1>1. CASE /\ Goto(p, "enter") /\ UNCHANGED <<lease, revoking, conn, epoch, stale, broken>>
           /\ UNCHANGED <<registryVars, holder, stage, taskVars, serverVars>>
  <2>1. CallGood(lease[HostOf[p]][conn[p]], holder[HostOf[p]][conn[p]], p, "enter", conn[p], epoch[p], broken)
    BY <1>0 DEF CallerGood, CallGood, Locking
  <2>3. "enter" \in Phases
    BY DEF Phases, Locking
  <2>4. conn' = conn /\ conn' \in [Callers -> Connections \cup {NoConn}]
    BY <1>0, <1>1 DEF TypeOK, CallTypes
  <2> QED  BY <1>1, <2>1, <2>3, <2>4, CallAdvances DEF leaseVars
<1>2. CASE /\ Invalidate(HostOf[p], conn[p], p) /\ Idle(p)
           /\ UNCHANGED <<registryVars, holder, stage, taskVars, serverVars>>
  BY <1>0, <1>2, CallInvalidates
<1> QED  BY <1>1, <1>2 DEF ReadFact, ReadsInactive

LEMMA RefuseStep ==
  ASSUME Inv, NEW p \in Callers, Refuse(p)  PROVE Inv'
BY CallEnds DEF Refuse, leaseVars

LEMMA ReturnStep ==
  ASSUME Inv, NEW p \in Callers, NEW used, Return(p, used)  PROVE Inv'
<1>1. phase[p] \in Locking
  BY DEF Return, Locking
<1> QED  BY <1>1, CallEnds DEF Return

LEMMA CheckLeaseStep ==
  ASSUME Inv, NEW p \in Callers, CheckLease(p)  PROVE Inv'
<1>0. TypeOK /\ CallerGood(p) /\ phase[p] = "locked" /\ phase[p] \in Locking
  BY DEF Inv, CheckLease, Locking
<1>1. CASE /\ Goto(p, "check") /\ UNCHANGED <<holder, conn, epoch, stale, broken>>
           /\ UNCHANGED <<registryVars, lease, revoking, stage, taskVars, serverVars>>
  <2>1. CallGood(lease[HostOf[p]][conn[p]], holder[HostOf[p]][conn[p]], p, "check", conn[p], epoch[p], broken)
    BY <1>0 DEF CallerGood, CallGood, Locking
  <2>3. "check" \in Phases
    BY DEF Phases, Locking
  <2>4. conn' = conn /\ conn' \in [Callers -> Connections \cup {NoConn}]
    BY <1>0, <1>1 DEF TypeOK, CallTypes
  <2> QED  BY <1>1, <2>1, <2>3, <2>4, CallAdvances DEF leaseVars
<1>2. CASE /\ Idle(p) /\ Unlock(p) /\ stale' = stale \ {p}
           /\ UNCHANGED <<registryVars, lease, revoking, stage, taskVars, serverVars>>
  BY <1>0, <1>2, CallEnds
<1> QED  BY <1>1, <1>2 DEF CheckLease

LEMMA CheckRevisionStep ==
  ASSUME Inv, NEW p \in Callers, CheckRevision(p)  PROVE Inv'
<1>0. TypeOK /\ CallerGood(p) /\ phase[p] = "check" /\ phase[p] \in Locking
  BY DEF Inv, CheckRevision, Locking
<1>1. CASE /\ Goto(p, "resolve") /\ UNCHANGED <<lease, revoking, holder, conn, epoch, stale, broken>>
           /\ UNCHANGED <<registryVars, stage, taskVars, serverVars>>
  <2>1. CallGood(lease[HostOf[p]][conn[p]], holder[HostOf[p]][conn[p]], p, "resolve", conn[p], epoch[p], broken)
    BY <1>0 DEF CallerGood, CallGood, Locking
  <2>3. "resolve" \in Phases
    BY DEF Phases, Locking
  <2>4. conn' = conn /\ conn' \in [Callers -> Connections \cup {NoConn}]
    BY <1>0, <1>1 DEF TypeOK, CallTypes
  <2> QED  BY <1>1, <2>1, <2>3, <2>4, CallAdvances DEF leaseVars
<1>2. CASE /\ Invalidate(HostOf[p], conn[p], p) /\ Idle(p) /\ Unlock(p)
           /\ UNCHANGED <<registryVars, stage, taskVars, serverVars>>
  BY <1>0, <1>2, CallInvalidates
<1> QED  BY <1>1, <1>2 DEF CheckRevision

LEMMA ResolveStep ==
  ASSUME Inv, NEW p \in Callers, Resolve(p)  PROVE Inv'
<1>0. TypeOK /\ CallerGood(p) /\ phase[p] = "resolve" /\ phase[p] \in Locking
  BY DEF Inv, Resolve, Locking
<1>1. CASE /\ Goto(p, "run") /\ UNCHANGED <<lease, revoking, holder, conn, epoch, stale, broken>>
           /\ UNCHANGED <<registryVars, stage, taskVars, serverVars>>
  <2>1. CallGood(lease[HostOf[p]][conn[p]], holder[HostOf[p]][conn[p]], p, "run", conn[p], epoch[p], broken)
    BY <1>0 DEF CallerGood, CallGood, Locking
  <2>3. "run" \in Phases
    BY DEF Phases, Locking
  <2>4. conn' = conn /\ conn' \in [Callers -> Connections \cup {NoConn}]
    BY <1>0, <1>1 DEF TypeOK, CallTypes
  <2> QED  BY <1>1, <2>1, <2>3, <2>4, CallAdvances DEF leaseVars
<1>2. CASE /\ Invalidate(HostOf[p], conn[p], p) /\ Idle(p) /\ Unlock(p)
           /\ UNCHANGED <<registryVars, stage, taskVars, serverVars>>
  BY <1>0, <1>2, CallInvalidates
<1>3. CASE /\ Idle(p) /\ Unlock(p) /\ stale' = stale \ {p} /\ UNCHANGED <<lease, revoking>>
           /\ UNCHANGED <<registryVars, stage, taskVars, serverVars>>
  BY <1>0, <1>3, CallEnds
<1> QED  BY <1>1, <1>2, <1>3 DEF Resolve, ReadsInactive

LEMMA LockCallStep ==
  ASSUME Inv, NEW p \in Callers, LockCall(p)  PROVE Inv'
<1>0. TypeOK /\ (\A o \in Hosts : HostGood(o)) /\ (\A q \in Callers : CallerGood(q)) /\ Exclusive
  BY DEF Inv
<1>1. PICK h : h = HostOf[p]
  OBVIOUS
<1>2. PICK c : c = conn[p]
  OBVIOUS
<1>3. /\ phase[p] = "wait" /\ lease[h][c].active /\ lease[h][c].state = "held" /\ holder[h][c] = NoCaller
      /\ holder' = [holder EXCEPT ![h][c] = p] /\ epoch' = [epoch EXCEPT ![p] = lease[h][c].epoch]
      /\ phase' = [phase EXCEPT ![p] = "locked"]
      /\ UNCHANGED <<registryVars, lease, revoking, stage, taskVars, serverVars, conn, stale, broken>>
  BY <1>1, <1>2 DEF LockCall, Active, State, Goto
<1>4. h \in Hosts /\ c \in Connections /\ p \notin broken
  BY <1>0, <1>1, <1>2, <1>3, LeaseAssumption DEF CallerGood, CallGood, Locking
<1>5. lease[h][c].epoch \in Nat
  BY <1>0, <1>4, HostForm, LeaseForm
<1>6. /\ holder' \in [Hosts -> [Connections -> Callers \cup {NoCaller}]]
      /\ \A o \in Hosts : \A d \in Connections : holder'[o][d] = IF o = h /\ d = c THEN p ELSE holder[o][d]
  BY <1>0, <1>3, <1>4 DEF TypeOK, LeaseTypes
<1>7. /\ phase'[p] = "locked" /\ epoch'[p] = lease[h][c].epoch
      /\ \A q \in Callers \ {p} : phase'[q] = phase[q] /\ epoch'[q] = epoch[q]
  BY <1>0, <1>3 DEF TypeOK, CallTypes
<1>8. TypeOK'
  <2>1. RegistryTypes' /\ TaskTypes' /\ ServerTypes'
    BY <1>0, <1>3 DEF TypeOK, RegistryTypes, TaskTypes, ServerTypes, registryVars, taskVars, serverVars
  <2>2. LeaseTypes'
    BY <1>0, <1>3, <1>6 DEF TypeOK, LeaseTypes
  <2>3. CallTypes'
    BY <1>0, <1>3, <1>5 DEF TypeOK, CallTypes, Phases, Locking
  <2> QED  BY <2>1, <2>2, <2>3 DEF TypeOK
<1>9. \A o \in Hosts : HostGood(o)'
  BY <1>0, <1>3, <1>6, HolderHosts DEF serverVars
<1>10. \A q \in Callers : CallerGood(q)'
  <2>1. CallGood(lease[h][c], p, p, "locked", c, lease[h][c].epoch, broken)
    BY <1>3, <1>4, <1>5 DEF CallGood, Locking
  <2>3. lease' = lease /\ conn' = conn /\ broken' = broken
    BY <1>3
  <2>4. holder'[h][c] = p
    BY <1>4, <1>6
  <2>5. CallerGood(p)'
    BY <1>1, <1>2, <1>7, <2>1, <2>3, <2>4 DEF CallerGood
  <2>6. \A o \in Hosts : \A d \in Connections : \A q \in Callers \ {p} : holder[o][d] = q => holder'[o][d] = q
    BY <1>3, <1>6, LeaseAssumption
  <2> QED  BY <1>0, <1>7, <2>3, <2>5, <2>6, OtherCallers
<1>11. Exclusive'
  BY <1>0, <1>3 DEF Exclusive, serverVars
<1> QED  BY <1>8, <1>9, <1>10, <1>11, InvFrom

LEMMA EnterStep ==
  ASSUME Inv, NEW p \in Callers, Enter(p)  PROVE Inv'
<1>0. TypeOK /\ (\A o \in Hosts : HostGood(o)) /\ (\A q \in Callers : CallerGood(q)) /\ Exclusive
  BY DEF Inv
<1>1. PICK h : h = HostOf[p]
  OBVIOUS
<1>2. PICK c : c = conn[p]
  OBVIOUS
<1>3. /\ phase[p] = "enter"
      /\ UNCHANGED <<registryVars, holder, revoking, stage, needed, acquiring, granted,
                     inHand, session, serverVars, conn, epoch, stale, broken>>
  BY DEF Enter
<1>4. h \in Hosts /\ HostGood(h) /\ c \in Connections /\ p \notin broken
  BY <1>0, <1>1, <1>2, <1>3, LeaseAssumption DEF CallerGood, CallGood, Locking
<1>5. CallGood(lease'[h][c], holder[h][c], p, "wait", c, epoch[p], broken)
  BY <1>4, CallOutside DEF Locking
<1>7. "wait" \in Phases /\ "refused" \in Phases
  BY DEF Phases, Locking
<1>8. CASE Goto(p, "wait") /\ UNCHANGED <<lease, commands, pending>>
  <2>1. conn' = conn /\ conn' \in [Callers -> Connections \cup {NoConn}]
    BY <1>0, <1>3 DEF TypeOK, CallTypes
  <2> QED  BY <1>1, <1>2, <1>3, <1>5, <1>7, <1>8, <2>1, CallAdvances DEF leaseVars, taskVars
<1>9. CASE /\ lease[h][c].state = "released"
           /\ lease' = [lease EXCEPT ![h][c] = [state |-> "pending", active |-> TRUE, epoch |-> 0]]
           /\ Enqueue(h, "acquire", c)
           /\ pending' = [pending EXCEPT ![h] = Forget(@, c)]
           /\ phase' = [q \in Callers |->
                IF q = p THEN "wait"
                ELSE IF HostOf[q] = h /\ conn[q] = c /\ phase[q] = "wait"
                THEN "refused" ELSE phase[q]]
  <2>1. PICK x : x = [op |-> "acquire", conn |-> c]
    OBVIOUS
  <2>2. PICK t : t = Forget(pending[h], c)
    OBVIOUS
  <2>3. /\ x \in Commands /\ x.op # "release" /\ commands[h] \in Seq(Commands) /\ lease[h] \in LeaseTable
        /\ pending[h] \in Seq(Connections \cup {NoConn}) /\ revoking[h] \in SUBSET Connections
    BY <1>0, <1>4, <2>1, HostForm DEF Commands
  <2>4. Append(commands[h], x) \in Seq(Commands)
    BY <2>3
  <2>5. t \in Seq(Connections \cup {NoConn})
    <3>1. Len(pending[h]) \in Nat /\ \A i \in 1 .. Len(pending[h]) : pending[h][i] \in Connections \cup {NoConn}
      BY <2>3
    <3>2. t \in [1 .. Len(pending[h]) -> Connections \cup {NoConn}]
      BY <2>2, <3>1 DEF Forget
    <3> QED  BY <3>1, <3>2
  <2>6. /\ commands' = [commands EXCEPT ![h] = Append(@, x)] /\ commands'[h] = Append(commands[h], x)
        /\ pending' = [pending EXCEPT ![h] = t] /\ pending'[h] = t
        /\ \A o \in Hosts \ {h} : commands'[o] = commands[o] /\ pending'[o] = pending[o]
    BY <1>0, <1>4, <1>9, <2>1, <2>2 DEF Enqueue, TypeOK, TaskTypes
  <2>7. [state |-> "pending", active |-> TRUE, epoch |-> 0] \in Leases
    BY DEF Leases
  <2>8. /\ lease' \in [Hosts -> [Connections -> Leases]]
        /\ lease'[h] = [lease[h] EXCEPT ![c] = [state |-> "pending", active |-> TRUE, epoch |-> 0]]
        /\ \A o \in Hosts \ {h} : lease'[o] = lease[o]
    BY <1>0, <1>4, <1>9, <2>7 DEF TypeOK, LeaseTypes
  <2>9. \A d \in Connections : d # c => lease'[h][d] = lease[h][d]
    BY <2>3, <2>8 DEF LeaseTable
  <2>10. lease'[h][c].state = "pending"
    BY <1>4, <2>3, <2>8 DEF LeaseTable
  <2>11. /\ phase' \in [Callers -> Phases] /\ phase'[p] = "wait"
         /\ \A q \in Callers \ {p} : phase'[q] = phase[q] \/ (phase[q] = "wait" /\ phase'[q] = "refused")
    BY <1>0, <1>7, <1>9 DEF TypeOK, CallTypes
  <2>12. TypeOK'
    <3>1. TaskTypes'
      BY <1>0, <1>3, <2>4, <2>5, <2>6 DEF TypeOK, TaskTypes
    <3>2. LeaseTypes'
      BY <1>0, <1>3, <2>8 DEF TypeOK, LeaseTypes
    <3>3. RegistryTypes' /\ ServerTypes' /\ CallTypes'
      BY <1>0, <1>3, <2>11 DEF TypeOK, RegistryTypes, ServerTypes, CallTypes, registryVars, serverVars
    <3> QED  BY <3>1, <3>2, <3>3 DEF TypeOK
  <2>13. HostGood(h)'
    <3>1. /\ RevokedOnce(lease[h], holder[h], revoking[h], commands[h])
          /\ TurnsGood(lease[h], needed[h], pending[h], acquiring[h], granted[h], session[h])
          /\ LocksGood(h, lease[h], acquiring[h], granted[h], session[h], alive, locks[h])
      BY <1>4 DEF HostGood
    <3>2. RevokedOnce(lease'[h], holder[h], revoking[h], commands[h])
      BY <1>4, <1>9, <2>3, <2>8, <3>1, LeaseRenewed
    <3>3. RevokedOnce(lease'[h], holder[h], revoking[h], Append(commands[h], x))
      BY <2>3, <3>2, OtherCommand
    <3>4. TurnsGood(lease'[h], needed[h], t, acquiring[h], granted[h], session[h])
      BY <1>4, <2>2, <2>3, <2>8, <3>1, TurnsRenewed
    <3>5. \A d \in Connections : lease'[h][d].state = "held" => lease[h][d].state = "held"
      BY <2>9, <2>10
    <3>6. LocksGood(h, lease'[h], acquiring[h], granted[h], session[h], alive, locks[h])
      BY <3>1, <3>5, LocksKept
    <3> QED  BY <1>3, <2>6, <3>3, <3>4, <3>6 DEF HostGood, serverVars
  <2>14. OthersKeep(h)
    BY <1>3, <2>6, <2>8 DEF OthersKeep, serverVars
  <2>15. \A q \in Callers : CallerGood(q)'
    <3>1. holder' = holder /\ conn' = conn /\ epoch' = epoch /\ broken' = broken
      BY <1>3
    <3>2. CallerGood(p)'
      BY <1>1, <1>2, <1>5, <2>11, <3>1 DEF CallerGood
    <3>3. \A o \in Hosts : \A d \in Connections :
             lease[o][d].state # "released" => lease'[o][d] = lease[o][d]
      BY <1>9, <2>8, <2>9
    <3> QED  BY <1>0, <2>11, <3>1, <3>2, <3>3, OtherCallers
  <2>16. Exclusive'
    BY <1>0, <1>3 DEF Exclusive, serverVars
  <2> QED  BY <1>0, <1>4, <2>12, <2>13, <2>14, <2>15, <2>16, InvFrom, OtherHosts
<1> QED  BY <1>1, <1>2, <1>8, <1>9 DEF Enter, State

-----------------------------------------------------------------------------
(* The invariant holds.                                                     *)

LEMMA InitGood == Init => Inv
<1> SUFFICES ASSUME Init  PROVE Inv
  OBVIOUS
<1>1. TypeOK
  <2>1. RegistryTypes
    BY LeaseAssumption DEF Init, RegistryTypes
  <2>2. LeaseTypes
    <3>1. Released \in Leases
      BY DEF Released, Leases
    <3> QED  BY <3>1 DEF Init, LeaseTypes
  <2>3. TaskTypes
    <3>1. <<>> \in Seq(Commands) /\ <<>> \in Seq(Connections \cup {NoConn})
      OBVIOUS
    <3> QED  BY <3>1 DEF Init, TaskTypes
  <2>4. ServerTypes
    BY LeaseAssumption DEF Init, ServerTypes
  <2>5. CallTypes
    BY DEF Init, CallTypes, Phases, Locking
  <2> QED  BY <2>1, <2>2, <2>3, <2>4, <2>5 DEF TypeOK
<1>2. ASSUME NEW h \in Hosts  PROVE HostGood(h)
  <2>1. /\ \A c \in Connections : lease[h][c] = Released
        /\ revoking[h] = {} /\ commands[h] = <<>> /\ pending[h] = <<>> /\ acquiring[h] = NoConn
        /\ granted[h] = FALSE /\ session[h] = "none" /\ alive = {}
        /\ \A k \in ResourceKeys : locks[h][k] = 0
    BY DEF Init
  <2>2. \A c \in Connections : ~lease[h][c].active /\ lease[h][c].state # "held"
    BY <2>1 DEF Released
  <2>3. RevokedOnce(lease[h], holder[h], {}, <<>>)
    BY <2>2 DEF RevokedOnce
  <2>4. TurnsGood(lease[h], needed[h], <<>>, NoConn, FALSE, "none")
    BY <2>2, TurnsLost
  <2>5. LocksGood(h, lease[h], NoConn, FALSE, "none", alive, locks[h])
    BY <2>1, LocksGone
  <2> QED  BY <2>1, <2>3, <2>4, <2>5 DEF HostGood
<1>3. ASSUME NEW p \in Callers  PROVE CallerGood(p)
  <2>1. phase[p] = "idle" /\ broken = {}
    BY DEF Init
  <2> QED  BY <2>1 DEF CallerGood, CallGood, Locking
<1>4. Exclusive
  BY DEF Init, Exclusive
<1> QED  BY <1>1, <1>2, <1>3, <1>4 DEF Inv

LEMMA NextKeeps == Inv /\ [Next]_vars => Inv'
<1> SUFFICES ASSUME Inv, [Next]_vars  PROVE Inv'
  OBVIOUS
<1>1. ASSUME NEW c \in Connections, ChangeConnection(c)  PROVE Inv'
  BY <1>1, RegistryStep
<1>2. ASSUME NEW c \in Connections, NEW p \in Callers, Start(p, c)  PROVE Inv'
  BY <1>2, StartStep
<1>3. ASSUME NEW p \in Callers, CallStep(p)  PROVE Inv'
  BY <1>3, ReadFactStep, EnterStep, RefuseStep, LockCallStep, CheckLeaseStep, CheckRevisionStep, ResolveStep,
     ReturnStep
     DEF CallStep, HoldingStep
<1>4. ASSUME NEW h \in Hosts, NEW c \in Connections, DeliverDelete(h, c) \/ DropFact(h, c) \/ RevokeSends(h, c)
      PROVE  Inv'
  BY <1>4, RegistryStep, RevokeSendsStep
<1>5. ASSUME NEW h \in Hosts, WatchBreaks(h) \/ Connect(h) \/ SessionBreaks(h) \/ ServerKills(h)
                              \/ ServerGrants(h) \/ ShutdownBegins(h)
      PROVE  Inv'
  BY <1>5, RegistryStep, ConnectStep, SessionBreaksStep, ServerKillsStep, ServerGrantsStep, ShutdownStep
<1>6. ASSUME NEW h \in Hosts, TaskStep(h)  PROVE Inv'
  <2>1. granted[h] \in BOOLEAN /\ (granted[h] => acquiring[h] # NoConn)
    <3>1. TypeOK /\ HostGood(h)
      BY DEF Inv
    <3> QED  BY <3>1, HostForm DEF HostGood, TurnsGood
  <2>2. CASE Acquired(h)
    BY <2>1, <2>2, EndAcquireStep DEF Acquired
  <2>3. CASE CancelForCommand(h)
    BY <2>1, <2>3, EndAcquireStep DEF CancelForCommand, CancelFoundGrant
  <2>4. CASE AcquireTurn(h)
    BY <2>1, <2>4, EndAcquireStep DEF AcquireTurn, CancelFoundGrant
  <2>5. CASE NextPending(h)
    BY <2>5, NextPendingStep
  <2>6. CASE HandleAcquire(h) \/ HandleRelease(h) \/ HandleStop(h)
    BY <2>6, HandleAcquireStep, HandleReleaseStep, HandleStopStep
  <2>7. CASE LeasesDrained(h) \/ ShutdownEnds(h)
    BY <2>7, ShutdownStep
  <2> QED  BY <1>6, <2>2, <2>3, <2>4, <2>5, <2>6, <2>7 DEF TaskStep
<1>7. ASSUME NEW k \in ResourceKeys, GhostEnds(k)  PROVE Inv'
  BY <1>7, GhostEndsStep
<1>8. ASSUME NEW k \in Rivals, RivalSession(k)  PROVE Inv'
  BY <1>8, RivalSessionStep
<1>9. ASSUME UNCHANGED vars  PROVE Inv'
  <2> USE <1>9 DEF vars, registryVars, leaseVars, taskVars, serverVars, callVars
  <2>1. TypeOK'
    BY DEF Inv, TypeOK, RegistryTypes, LeaseTypes, TaskTypes, ServerTypes, CallTypes
  <2>2. \A o \in Hosts : HostGood(o)'
    BY DEF Inv, HostGood
  <2>3. \A p \in Callers : CallerGood(p)'
    BY DEF Inv, CallerGood
  <2>4. Exclusive'
    BY DEF Inv, Exclusive
  <2> QED  BY <2>1, <2>2, <2>3, <2>4, InvFrom
<1> QED  BY <1>1, <1>2, <1>3, <1>4, <1>5, <1>6, <1>7, <1>8, <1>9 DEF Next

-----------------------------------------------------------------------------
(* The theorems.                                                            *)

\* The invariant of the leases, the session task, the server's locks and the
\* calls holds for any numbers of hosts, connections, keys and calls.
THEOREM LeaseInvariance == Spec => []Inv
<1>1. Init => Inv
  BY InitGood
<1>2. Inv /\ [Next]_vars => Inv'
  BY NextKeeps
<1> QED  BY <1>1, <1>2, PTL DEF Spec

\* The tables, queues and calls keep their types.
THEOREM LeaseTypeCorrect == Spec => []TypeOK
<1>1. Inv => TypeOK
  BY DEF Inv
<1> QED  BY <1>1, LeaseInvariance, PTL

\* The resource is exclusive: no two calls under live sessions work on one key,
\* through one connection or two, on one host or two, and none works on a key
\* that another host's session has.  A call holds its connection's mutex and its
\* lease is held, a live session has the lock of every held lease, and the
\* server gives a lock to one session; on one host, one lease of a key is held.
THEOREM OneCallPerResource == Spec => []SoleCall
<1>1. Inv => SoleCall
  <2> SUFFICES ASSUME Inv, NEW p \in Callers, Undisturbed(p)
               PROVE  /\ KeyOf[conn[p]] \notin rival
                      /\ \A q \in Callers \ {p} : Undisturbed(q) => KeyOf[conn[p]] # KeyOf[conn[q]]
    BY DEF SoleCall
  <2>1. ASSUME NEW q \in Callers, Undisturbed(q)
        PROVE  /\ HostOf[q] \in Hosts /\ conn[q] \in Connections /\ KeyOf[conn[q]] \in ResourceKeys
               /\ holder[HostOf[q]][conn[q]] = q /\ lease[HostOf[q]][conn[q]].state = "held"
               /\ locks[HostOf[q]][KeyOf[conn[q]]] > 0
    <3>1. phase[q] = "run" /\ q \notin broken /\ HostOf[q] \in alive
      BY <2>1 DEF Undisturbed
    <3>2. CallerGood(q)
      BY DEF Inv
    <3>3. /\ conn[q] \in Connections /\ holder[HostOf[q]][conn[q]] = q
          /\ lease[HostOf[q]][conn[q]].state = "held"
      BY <3>1, <3>2 DEF CallerGood, CallGood, Locking
    <3>4. HostOf[q] \in Hosts /\ KeyOf[conn[q]] \in ResourceKeys
      BY <3>3, LeaseAssumption
    <3>5. HostGood(HostOf[q])
      BY <3>4 DEF Inv
    <3> QED  BY <3>1, <3>3, <3>4, <3>5 DEF HostGood, LocksGood
  <2>2. Exclusive
    BY DEF Inv
  <2>3. KeyOf[conn[p]] \notin rival
    BY <2>1, <2>2 DEF Exclusive
  <2>4. ASSUME NEW q \in Callers \ {p}, Undisturbed(q), KeyOf[conn[p]] = KeyOf[conn[q]]  PROVE FALSE
    <3>1. /\ HostOf[q] \in Hosts /\ conn[q] \in Connections
          /\ holder[HostOf[q]][conn[q]] = q /\ lease[HostOf[q]][conn[q]].state = "held"
          /\ locks[HostOf[q]][KeyOf[conn[q]]] > 0
      BY <2>1, <2>4
    <3>2. HostOf[q] = HostOf[p]
      BY <2>1, <2>2, <2>4, <3>1 DEF Exclusive
    <3>3. HostGood(HostOf[p])
      BY <2>1 DEF Inv
    <3>4. conn[q] = conn[p]
      BY <2>1, <2>4, <3>1, <3>2, <3>3 DEF HostGood, TurnsGood
    <3> QED  BY <2>1, <2>4, <3>1, <3>2, <3>4
  <2> QED  BY <2>3, <2>4
<1> QED  BY <1>1, LeaseInvariance, PTL

\* A result is used only if the host saw no loss of the session during the call:
\* a loss moves the epoch of the lease, which Call::held compares, though the
\* lease may have been acquired again since.
THEOREM UsedResultUnbroken == Spec => ResultUnbroken
<1>1. Inv /\ [Next]_vars => [\A p \in Callers : Return(p, TRUE) => p \notin broken]_vars
  <2> SUFFICES ASSUME Inv, NEW p \in Callers, Return(p, TRUE)  PROVE p \notin broken
    OBVIOUS
  <2>1. phase[p] = "run" /\ Held(p)
    BY DEF Return
  <2>2. CallerGood(p)
    BY DEF Inv
  <2>3. HostOf[p] \in Hosts /\ conn[p] \in Connections /\ TypeOK
    BY <2>1, <2>2, LeaseAssumption DEF CallerGood, CallGood, Inv
  <2>4. lease[HostOf[p]][conn[p]].epoch \in Nat
    BY <2>3, HostForm, LeaseForm
  <2> QED  BY <2>1, <2>2, <2>4 DEF CallerGood, CallGood, Locking, Held
<1> QED  BY <1>1, LeaseInvariance, PTL DEF Spec, ResultUnbroken

\* A call works under the lock from the check of its lease to its return: a release waits for
\* the mutex, a lost session marks the call, and no other step of the session
\* task unlocks a held lease.
THEOREM CallWorksUnderLock == Spec => []WorksUnderLock
<1>1. Inv => WorksUnderLock
  <2> SUFFICES ASSUME Inv, NEW p \in Callers, phase[p] \in Locking \ {"locked"}, p \notin broken, HostOf[p] \in alive
               PROVE  locks[HostOf[p]][KeyOf[conn[p]]] > 0
    BY DEF WorksUnderLock
  <2>1. CallerGood(p) /\ HostOf[p] \in Hosts
    BY LeaseAssumption DEF Inv
  <2>2. conn[p] \in Connections /\ lease[HostOf[p]][conn[p]].state = "held"
    BY <2>1 DEF CallerGood, CallGood, Locking
  <2>3. HostGood(HostOf[p])
    BY <2>1 DEF Inv
  <2> QED  BY <2>2, <2>3 DEF HostGood, LocksGood
<1> QED  BY <1>1, LeaseInvariance, PTL

-----------------------------------------------------------------------------
(* The lock count.                                                          *)

\* The connections that share their resource key with no other one.
Own == {c \in Connections : Sole(KeyOf[c])}

LEMMA OwnForm == Own \subseteq Connections
BY DEF Own

\* The command at i of the channel acquires c.
Acquires(cmds, i, c) == cmds[i] = [op |-> "acquire", conn |-> c]

\* A lease asks for its lock once: its acquire is in the channel, before any
\* release of it, or it has one turn, or its statement runs, or it is held.  A
\* lease that shares its key may get a second turn at the release of another.
AskedOnce(l, need, turns, next, cmds) ==
    /\ \A c \in Connections : l[c].state = "released" => c \notin need
    /\ \A c \in Connections : \A i \in 1 .. Len(cmds) : Acquires(cmds, i, c) =>
           /\ c \notin need /\ l[c].state = "pending"
           /\ \A j \in 1 .. Len(cmds) : Acquires(cmds, j, c) => j = i
           /\ \A j \in 1 .. Len(cmds) : Releases(cmds, j, c) => i < j
    /\ \A c \in Own : l[c].active => \A i \in 1 .. Len(turns) : turns[i] = c =>
           /\ l[c].state # "held" /\ next # c
           /\ \A j \in 1 .. Len(turns) : turns[j] = c => j = i
    /\ \A c \in Own : next = c => l[c].state # "held"

\* The session has the lock of the lease c, or was granted it just now.
Locked(l, next, got, c) == l[c].state = "held" \/ (next = c /\ got)

\* A live session has each lock that no two connections share once, and only for
\* a lease.
Counted(h, l, next, got, live, taken) ==
    h \in live => \A k \in ResourceKeys : Sole(k) =>
        /\ taken[k] <= 1
        /\ taken[k] > 0 <=> \E c \in Connections : KeyOf[c] = k /\ Locked(l, next, got, c)

Single(h) ==
    /\ AskedOnce(lease[h], needed[h], pending[h], acquiring[h], commands[h])
    /\ Counted(h, lease[h], acquiring[h], granted[h], alive, locks[h])

\* A revoke.
LEMMA AskedRevoked ==
  ASSUME NEW l, NEW l2, NEW need, NEW turns, NEW next, NEW cmds, AskedOnce(l, need, turns, next, cmds),
         \A c \in Connections : l2[c].state = l[c].state /\ (l2[c].active => l[c].active)
  PROVE  AskedOnce(l2, need, turns, next, cmds)
BY OwnForm DEF AskedOnce

\* Leases in the same states.
LEMMA CountedSame ==
  ASSUME NEW h, NEW l, NEW l2, NEW next, NEW next2, NEW got, NEW got2, NEW live, NEW live2, NEW taken,
         Counted(h, l, next, got, live, taken), h \in live2 => h \in live,
         \A c \in Connections : Locked(l, next, got, c) <=> Locked(l2, next2, got2, c)
  PROVE  Counted(h, l2, next2, got2, live2, taken)
BY DEF Counted

\* A command that is no acquire enters the channel.
LEMMA AskedOther ==
  ASSUME NEW l, NEW need, NEW turns, NEW next, NEW cmds \in Seq(Commands), NEW x \in Commands, x.op # "acquire",
         AskedOnce(l, need, turns, next, cmds)
  PROVE  AskedOnce(l, need, turns, next, Append(cmds, x))
<1>1. PICK q : q = Append(cmds, x)
  OBVIOUS
<1>2. Len(cmds) \in Nat /\ Len(q) = Len(cmds) + 1 /\ q[Len(cmds) + 1] = x
      /\ \A i \in 1 .. Len(cmds) : q[i] = cmds[i]
  BY <1>1
<1>3. ASSUME NEW i \in 1 .. Len(q), NEW c, Acquires(q, i, c)
      PROVE  i \in 1 .. Len(cmds) /\ Acquires(cmds, i, c)
  <2>1. i # Len(cmds) + 1
    BY <1>2, <1>3 DEF Acquires
  <2> QED  BY <1>2, <1>3, <2>1 DEF Acquires
<1>4. ASSUME NEW c \in Connections, NEW i \in 1 .. Len(q), Acquires(q, i, c)
      PROVE  /\ c \notin need /\ l[c].state = "pending"
             /\ \A j \in 1 .. Len(q) : Acquires(q, j, c) => j = i
             /\ \A j \in 1 .. Len(q) : Releases(q, j, c) => i < j
  <2>1. i \in 1 .. Len(cmds) /\ Acquires(cmds, i, c)
    BY <1>3, <1>4
  <2>2. ASSUME NEW j \in 1 .. Len(q), Releases(q, j, c)  PROVE i < j
    <3>1. CASE j = Len(cmds) + 1
      BY <1>2, <2>1, <3>1
    <3>2. CASE j # Len(cmds) + 1
      <4>1. j \in 1 .. Len(cmds) /\ Releases(cmds, j, c)
        BY <1>2, <2>2, <3>2 DEF Releases
      <4> QED  BY <2>1, <4>1 DEF AskedOnce
    <3> QED  BY <3>1, <3>2
  <2>3. \A j \in 1 .. Len(q) : Acquires(q, j, c) => j = i
    BY <1>3, <2>1 DEF AskedOnce
  <2> QED  BY <2>1, <2>2, <2>3 DEF AskedOnce
<1>5. AskedOnce(l, need, turns, next, q)
  BY <1>4 DEF AskedOnce
<1> QED  BY <1>1, <1>5

\* A new lease asks for its lock.
LEMMA AskedNew ==
  ASSUME NEW l, NEW l2, NEW need, NEW turns \in Seq(Connections \cup {NoConn}), NEW next, NEW cmds \in Seq(Commands), NEW c \in Connections,
         AskedOnce(l, need, turns, next, cmds), l[c].state = "released", l2[c].state = "pending",
         \A d \in Connections : d # c => l2[d] = l[d],
         \A i \in 1 .. Len(cmds) : ~Releases(cmds, i, c),
         NEW q, q = Append(cmds, [op |-> "acquire", conn |-> c]), NEW t, t = Forget(turns, c)
  PROVE  AskedOnce(l2, need, t, next, q)
<1>2. Len(cmds) \in Nat /\ Len(q) = Len(cmds) + 1 /\ q[Len(cmds) + 1] = [op |-> "acquire", conn |-> c]
      /\ \A i \in 1 .. Len(cmds) : q[i] = cmds[i]
  OBVIOUS
<1>4. /\ Len(turns) \in Nat /\ Len(t) = Len(turns)
      /\ \A i \in 1 .. Len(t) : t[i] = IF turns[i] = c THEN NoConn ELSE turns[i]
  BY DEF Forget
<1>5. NoConn \notin Connections
  BY LeaseAssumption
<1> USE OwnForm
<1>6. \A i \in 1 .. Len(q) : \A d \in Connections : Releases(q, i, d) => i \in 1 .. Len(cmds) /\ Releases(cmds, i, d)
  BY <1>2 DEF Releases
<1>7. \A i \in 1 .. Len(cmds) : ~Acquires(cmds, i, c)
  BY DEF AskedOnce
<1>8. ASSUME NEW d \in Connections, NEW i \in 1 .. Len(q), Acquires(q, i, d)
      PROVE  /\ d \notin need /\ l2[d].state = "pending"
             /\ \A j \in 1 .. Len(q) : Acquires(q, j, d) => j = i
             /\ \A j \in 1 .. Len(q) : Releases(q, j, d) => i < j
  <2>1. CASE d = c
    <3>1. \A j \in 1 .. Len(q) : Acquires(q, j, c) => j = Len(cmds) + 1
      BY <1>2, <1>7 DEF Acquires
    <3>2. \A j \in 1 .. Len(q) : ~Releases(q, j, c)
      BY <1>6
    <3>3. c \notin need
      BY DEF AskedOnce
    <3> QED  BY <1>8, <2>1, <3>1, <3>2, <3>3
  <2>2. CASE d # c
    <3>1. \A j \in 1 .. Len(q) : Acquires(q, j, d) => j \in 1 .. Len(cmds) /\ Acquires(cmds, j, d)
      BY <1>2, <2>2 DEF Acquires
    <3>2. i \in 1 .. Len(cmds) /\ Acquires(cmds, i, d)
      BY <1>8, <3>1
    <3>3. /\ d \notin need /\ l[d].state = "pending"
          /\ \A j \in 1 .. Len(cmds) : Acquires(cmds, j, d) => j = i
          /\ \A j \in 1 .. Len(cmds) : Releases(cmds, j, d) => i < j
      BY <3>2 DEF AskedOnce
    <3> QED  BY <1>6, <2>2, <3>1, <3>3
  <2> QED  BY <2>1, <2>2
<1>9. ASSUME NEW d \in Own, l2[d].active, NEW i \in 1 .. Len(t), t[i] = d
      PROVE  /\ l2[d].state # "held" /\ next # d
             /\ \A j \in 1 .. Len(t) : t[j] = d => j = i
  <2>1. d # c /\ turns[i] = d
    BY <1>4, <1>5, <1>9
  <2>2. \A j \in 1 .. Len(t) : t[j] = d => turns[j] = d
    BY <1>4, <1>5
  <2>3. l[d].active /\ l2[d] = l[d]
    BY <1>9, <2>1
  <2> QED  BY <1>4, <2>1, <2>2, <2>3 DEF AskedOnce
<1>10. \A d \in Connections : l2[d].state = "released" => d \notin need
  BY DEF AskedOnce
<1>11. \A d \in Own : next = d => l2[d].state # "held"
  BY DEF AskedOnce
<1>12. AskedOnce(l2, need, t, next, q)
  BY <1>8, <1>9, <1>10, <1>11 DEF AskedOnce
<1> QED  BY <1>12

\* The session is lost, with every turn.
LEMMA AskedLost ==
  ASSUME NEW l, NEW l2, NEW need, NEW turns, NEW next, NEW cmds, AskedOnce(l, need, turns, next, cmds),
         \A c \in Connections :
             /\ l2[c].state = "released" => l[c].state = "released"
             /\ c \notin need => l2[c].state = l[c].state
  PROVE  AskedOnce(l2, need, <<>>, NoConn, cmds)
<1>1. NoConn \notin Connections
  BY LeaseAssumption
<1> QED  BY <1>1, OwnForm DEF AskedOnce

\* A session opens with the turns s.
LEMMA AskedOpened ==
  ASSUME NEW l, NEW need, NEW turns, NEW cmds, NEW s, AskedOnce(l, need, turns, NoConn, cmds),
         \A c \in Connections : l[c].state # "held",
         \A i, j \in 1 .. Len(s) : i # j => s[i] # s[j]
  PROVE  AskedOnce(l, need, s, NoConn, cmds)
<1>1. NoConn \notin Connections
  BY LeaseAssumption
<1> QED  BY <1>1, OwnForm DEF AskedOnce

\* The first turn is taken.
LEMMA AskedTaken ==
  ASSUME NEW l, NEW need, NEW turns \in Seq(Connections \cup {NoConn}), NEW cmds, turns # <<>>,
         AskedOnce(l, need, turns, NoConn, cmds), NEW n,
         n = NoConn \/ (n = Head(turns) /\ n \in Connections /\ l[n].active)
  PROVE  AskedOnce(l, need, Tail(turns), n, cmds)
<1>1. PICK t : t = Tail(turns)
  OBVIOUS
<1>2. /\ Head(turns) = turns[1] /\ 1 \in 1 .. Len(turns) /\ Len(t) \in Nat
      /\ \A i \in 1 .. Len(t) : t[i] = turns[i + 1] /\ (i + 1) \in 1 .. Len(turns) /\ i + 1 # 1
  BY <1>1, TailForm
<1>3. NoConn \notin Connections
  BY LeaseAssumption
<1>4. ASSUME NEW c \in Own, l[c].active, NEW i \in 1 .. Len(t), t[i] = c
      PROVE  /\ l[c].state # "held" /\ n # c
             /\ \A j \in 1 .. Len(t) : t[j] = c => j = i
  <2>1. turns[i + 1] = c /\ (i + 1) \in 1 .. Len(turns) /\ i + 1 # 1
    BY <1>2, <1>4
  <2>2. l[c].state # "held" /\ \A j \in 1 .. Len(turns) : turns[j] = c => j = i + 1
    BY <1>4, <2>1 DEF AskedOnce
  <2>3. ASSUME NEW j \in 1 .. Len(t), t[j] = c  PROVE j = i
    <3>1. j + 1 = i + 1
      BY <1>2, <2>2, <2>3
    <3> QED  BY <1>2, <3>1
  <2>4. n # c
    BY <1>2, <1>3, <2>1, <2>2, OwnForm
  <2> QED  BY <2>2, <2>3, <2>4
<1>5. \A c \in Own : n = c => l[c].state # "held"
  BY <1>2, <1>3, OwnForm DEF AskedOnce
<1>6. AskedOnce(l, need, t, n, cmds)
  BY <1>4, <1>5 DEF AskedOnce
<1> QED  BY <1>1, <1>6

\* The statement of next ends with its lease held.
LEMMA AskedHeld ==
  ASSUME NEW l, NEW l2, NEW need, NEW turns, NEW next \in Connections, NEW cmds,
         AskedOnce(l, need, turns, next, cmds), next \in need, l2[next].state = "held",
         \A c \in Connections : l2[c].active => l[c].active,
         \A c \in Connections \ {next} : l2[c].state = l[c].state
  PROVE  AskedOnce(l2, need, turns, NoConn, cmds)
<1>1. NoConn \notin Connections
  BY LeaseAssumption
<1>2. \A c \in Own : l[c].active => \A i \in 1 .. Len(turns) : turns[i] = c => c # next
  BY DEF AskedOnce
<1>3. \A c \in Own : l2[c].active => \A i \in 1 .. Len(turns) : turns[i] = c =>
           /\ l2[c].state # "held" /\ NoConn # c
           /\ \A j \in 1 .. Len(turns) : turns[j] = c => j = i
  BY <1>1, <1>2, OwnForm DEF AskedOnce
<1>4. \A c \in Connections : l2[c].state = "released" => c \notin need
  BY DEF AskedOnce
<1>5. \A c \in Connections : \A i \in 1 .. Len(cmds) : Acquires(cmds, i, c) => l2[c].state = l[c].state
  BY DEF AskedOnce
<1> QED  BY <1>1, <1>3, <1>4, <1>5, OwnForm DEF AskedOnce

\* The lease c gets a turn, and is the only one to have had none.
LEMMA AskedAppended ==
  ASSUME NEW l, NEW need, NEW turns \in Seq(Connections \cup {NoConn}), NEW cmds, NEW c \in Connections,
         AskedOnce(l, need, turns, NoConn, cmds), c \in Own => l[c].state # "held",
         c \in Own /\ l[c].active => \A i \in 1 .. Len(turns) : turns[i] # c
  PROVE  AskedOnce(l, need, Append(turns, c), NoConn, cmds)
<1>1. PICK t : t = Append(turns, c)
  OBVIOUS
<1>2. /\ Len(turns) \in Nat /\ Len(t) = Len(turns) + 1 /\ t[Len(turns) + 1] = c
      /\ \A i \in 1 .. Len(turns) : t[i] = turns[i]
  BY <1>1
<1>3. NoConn \notin Connections
  BY LeaseAssumption
<1> USE OwnForm
<1>4. ASSUME NEW d \in Own, l[d].active, NEW i \in 1 .. Len(t), t[i] = d
      PROVE  l[d].state # "held" /\ NoConn # d /\ \A j \in 1 .. Len(t) : t[j] = d => j = i
  <2>1. CASE d = c
    <3>1. \A j \in 1 .. Len(t) : t[j] = c => j = Len(turns) + 1
      BY <1>2, <1>4, <2>1
    <3> QED  BY <1>3, <1>4, <2>1, <3>1
  <2>2. CASE d # c
    <3>1. \A j \in 1 .. Len(t) : t[j] = d => j \in 1 .. Len(turns) /\ turns[j] = d
      BY <1>2, <2>2
    <3>2. i \in 1 .. Len(turns) /\ turns[i] = d
      BY <1>4, <3>1
    <3> QED  BY <1>3, <1>4, <3>1, <3>2 DEF AskedOnce
  <2> QED  BY <2>1, <2>2
<1>5. AskedOnce(l, need, t, NoConn, cmds)
  BY <1>4 DEF AskedOnce
<1> QED  BY <1>1, <1>5

\* The statement was cancelled.
LEMMA AskedCancelled ==
  ASSUME NEW l, NEW need, NEW turns, NEW next, NEW cmds, AskedOnce(l, need, turns, next, cmds)
  PROVE  AskedOnce(l, need, turns, NoConn, cmds)
<1>1. NoConn \notin Connections
  BY LeaseAssumption
<1> QED  BY <1>1, OwnForm DEF AskedOnce

\* The first command is handled: an acquire makes its lease needed, a release
\* ends its lease.
LEMMA AskedHandled ==
  ASSUME NEW l, NEW l2, NEW need, NEW need2, NEW turns, NEW cmds \in Seq(Commands), cmds # <<>>,
         AskedOnce(l, need, turns, NoConn, cmds), need2 \in SUBSET Connections,
         \A d \in Connections :
             \/ l2[d] = l[d] /\ (d \in need2 <=> d \in need)
             \/ Acquires(cmds, 1, d) /\ l2[d] = l[d]
             \/ Releases(cmds, 1, d) /\ l2[d] = Released /\ d \notin need2
  PROVE  AskedOnce(l2, need2, turns, NoConn, Tail(cmds))
<1>1. PICK t : t = Tail(cmds)
  OBVIOUS
<1>2. /\ 1 \in 1 .. Len(cmds) /\ Len(t) \in Nat
      /\ \A i \in 1 .. Len(t) : t[i] = cmds[i + 1] /\ (i + 1) \in 1 .. Len(cmds) /\ i + 1 # 1 /\ ~(i + 1 < 1)
  BY <1>1, TailForm
<1>3. NoConn \notin Connections
  BY LeaseAssumption
<1>4. ASSUME NEW c \in Connections, NEW i \in 1 .. Len(t), Acquires(t, i, c)
      PROVE  /\ c \notin need2 /\ l2[c].state = "pending"
             /\ \A j \in 1 .. Len(t) : Acquires(t, j, c) => j = i
             /\ \A j \in 1 .. Len(t) : Releases(t, j, c) => i < j
  <2>1. Acquires(cmds, i + 1, c) /\ (i + 1) \in 1 .. Len(cmds) /\ i + 1 # 1 /\ ~(i + 1 < 1)
    BY <1>2, <1>4 DEF Acquires
  <2>2. /\ c \notin need /\ l[c].state = "pending"
        /\ \A j \in 1 .. Len(cmds) : Acquires(cmds, j, c) => j = i + 1
        /\ \A j \in 1 .. Len(cmds) : Releases(cmds, j, c) => i + 1 < j
    BY <2>1 DEF AskedOnce
  <2>3. ~Acquires(cmds, 1, c) /\ ~Releases(cmds, 1, c)
    BY <1>2, <2>1, <2>2
  <2>4. l2[c] = l[c] /\ c \notin need2
    BY <2>2, <2>3
  <2>5. ASSUME NEW j \in 1 .. Len(t), Acquires(t, j, c)  PROVE j = i
    <3>1. j + 1 = i + 1
      BY <1>2, <2>2, <2>5 DEF Acquires
    <3> QED  BY <1>2, <3>1
  <2>6. ASSUME NEW j \in 1 .. Len(t), Releases(t, j, c)  PROVE i < j
    <3>1. i + 1 < j + 1
      BY <1>2, <2>2, <2>6 DEF Releases
    <3> QED  BY <1>2, <3>1
  <2> QED  BY <2>2, <2>4, <2>5, <2>6
<1>5. \A c \in Connections : l2[c].active => l2[c] = l[c]
  BY DEF Released
<1>6. ASSUME NEW c \in Connections, l2[c].state = "released"  PROVE c \notin need2
  BY <1>2, <1>6 DEF AskedOnce
<1>7. \A c \in Own : l2[c].active => \A i \in 1 .. Len(turns) : turns[i] = c =>
           /\ l2[c].state # "held" /\ NoConn # c
           /\ \A j \in 1 .. Len(turns) : turns[j] = c => j = i
  BY <1>3, <1>5, OwnForm DEF AskedOnce
<1>8. AskedOnce(l2, need2, turns, NoConn, t)
  BY <1>3, <1>4, <1>6, <1>7, OwnForm DEF AskedOnce
<1> QED  BY <1>1, <1>8

\* Leases that share a key get turns.
LEMMA AskedJoined ==
  ASSUME NEW l, NEW need, NEW turns \in Seq(Connections \cup {NoConn}), NEW cmds, NEW s \in Seq(Connections),
         AskedOnce(l, need, turns, NoConn, cmds), \A i \in 1 .. Len(s) : s[i] \notin Own
  PROVE  AskedOnce(l, need, turns \o s, NoConn, cmds)
<1>1. PICK t : t = turns \o s
  OBVIOUS
<1>2. /\ Len(turns) \in Nat /\ Len(s) \in Nat /\ Len(t) = Len(turns) + Len(s)
      /\ \A i \in 1 .. Len(turns) : t[i] = turns[i]
      /\ \A i \in 1 .. Len(t) : i \notin 1 .. Len(turns) =>
             i - Len(turns) \in 1 .. Len(s) /\ t[i] = s[i - Len(turns)]
  BY <1>1
<1>3. \A d \in Own : \A i \in 1 .. Len(t) : t[i] = d => i \in 1 .. Len(turns) /\ turns[i] = d
  BY <1>2
<1>4. \A d \in Own : l[d].active => \A i \in 1 .. Len(t) : t[i] = d =>
           /\ l[d].state # "held" /\ NoConn # d
           /\ \A j \in 1 .. Len(t) : t[j] = d => j = i
  BY <1>3 DEF AskedOnce
<1>5. AskedOnce(l, need, t, NoConn, cmds)
  BY <1>4 DEF AskedOnce
<1> QED  BY <1>1, <1>5

-----------------------------------------------------------------------------
(* The steps, for the lock count.                                           *)

\* The step changes no lease and no lock of the hosts other than h.
OthersAsk(h) ==
    \A o \in Hosts \ {h} :
        /\ lease'[o] = lease[o] /\ commands'[o] = commands[o] /\ needed'[o] = needed[o]
        /\ pending'[o] = pending[o] /\ acquiring'[o] = acquiring[o] /\ granted'[o] = granted[o]
        /\ locks'[o] = locks[o] /\ (o \in alive <=> o \in alive')

LEMMA OthersSingle ==
  ASSUME \A o \in Hosts : Single(o), NEW h \in Hosts, OthersAsk(h), Single(h)'
  PROVE  \A o \in Hosts : Single(o)'
<1> SUFFICES ASSUME NEW o \in Hosts, o # h  PROVE Single(o)'
  OBVIOUS
<1>1. /\ lease'[o] = lease[o] /\ commands'[o] = commands[o] /\ needed'[o] = needed[o]
      /\ pending'[o] = pending[o] /\ acquiring'[o] = acquiring[o] /\ granted'[o] = granted[o]
      /\ locks'[o] = locks[o] /\ (o \in alive <=> o \in alive')
  BY DEF OthersAsk
<1>2. Single(o)
  OBVIOUS
<1>3. Counted(o, lease[o], acquiring[o], granted[o], alive', locks[o])
  BY <1>1, <1>2 DEF Single, Counted
<1> QED  BY <1>1, <1>2, <1>3 DEF Single

\* Steps that change no lease and no lock, or only whether leases are active.
LEMMA SingleRevoked ==
  ASSUME \A o \in Hosts : Single(o), UNCHANGED <<taskVars, alive, locks>>,
         \A o \in Hosts : \A c \in Connections :
             lease'[o][c].state = lease[o][c].state /\ (lease'[o][c].active => lease[o][c].active)
  PROVE  \A o \in Hosts : Single(o)'
<1> SUFFICES ASSUME NEW o \in Hosts  PROVE Single(o)'
  OBVIOUS
<1>1. Single(o)
  OBVIOUS
<1>2. AskedOnce(lease'[o], needed[o], pending[o], acquiring[o], commands[o])
  BY <1>1, AskedRevoked DEF Single
<1>3. \A c \in Connections : Locked(lease[o], acquiring[o], granted[o], c)
                              <=> Locked(lease'[o], acquiring[o], granted[o], c)
  BY DEF Locked
<1>4. Counted(o, lease'[o], acquiring[o], granted[o], alive, locks[o])
  BY <1>1, <1>3, CountedSame DEF Single
<1> QED  BY <1>2, <1>4 DEF Single, taskVars

LEMMA SingleQuiet ==
  ASSUME Inv, \A o \in Hosts : Single(o),
         \/ UNCHANGED vars
         \/ \E c \in Connections : ChangeConnection(c) \/ \E p \in Callers : Start(p, c)
         \/ \E p \in Callers : ReadFact(p) \/ Refuse(p) \/ LockCall(p) \/ HoldingStep(p)
         \/ \E h \in Hosts : \E c \in Connections : DeliverDelete(h, c) \/ DropFact(h, c)
         \/ \E h \in Hosts : WatchBreaks(h) \/ ShutdownBegins(h) \/ ShutdownEnds(h)
         \/ \E k : GhostEnds(k) \/ RivalSession(k)
  PROVE  \A o \in Hosts : Single(o)'
<1>0. TypeOK
  BY DEF Inv
<1>1. ASSUME NEW h \in Hosts, NEW C \in SUBSET Connections, Revoke(h, C), UNCHANGED <<taskVars, alive, locks>>
      PROVE  \A o \in Hosts : Single(o)'
  BY <1>0, <1>1, RevokeForm, SingleRevoked
<1>2. ASSUME UNCHANGED <<lease, taskVars, alive, locks>>  PROVE \A o \in Hosts : Single(o)'
  BY <1>2, SingleRevoked
<1>3. CASE UNCHANGED vars
  BY <1>2, <1>3 DEF vars, leaseVars, serverVars
<1>4. ASSUME NEW c \in Connections, ChangeConnection(c) \/ \E p \in Callers : Start(p, c)
      PROVE  \A o \in Hosts : Single(o)'
  BY <1>2, <1>4 DEF ChangeConnection, Start, leaseVars, serverVars
<1>5. ASSUME NEW p \in Callers, ReadFact(p) \/ Refuse(p) \/ LockCall(p) \/ HoldingStep(p)
      PROVE  \A o \in Hosts : Single(o)'
  <2>1. HostOf[p] \in Hosts /\ (phase[p] # "idle" => {conn[p]} \in SUBSET Connections)
    BY LeaseAssumption DEF Inv, CallerGood, CallGood
  <2>2. \/ UNCHANGED <<lease, taskVars, alive, locks>>
        \/ phase[p] # "idle" /\ Revoke(HostOf[p], {conn[p]}) /\ UNCHANGED <<taskVars, alive, locks>>
    <3>1. CASE ReadFact(p)
      BY <3>1 DEF ReadFact, ReadsInactive, Invalidate, serverVars
    <3>2. CASE CheckRevision(p)
      BY <3>2 DEF CheckRevision, Invalidate, serverVars
    <3>3. CASE Refuse(p) \/ LockCall(p) \/ CheckLease(p) \/ \E used \in BOOLEAN : Return(p, used)
      BY <3>3 DEF Refuse, LockCall, CheckLease, Return, leaseVars, serverVars
    <3>4. CASE Resolve(p)
      BY <3>4 DEF Resolve, ReadsInactive, Invalidate, serverVars
    <3> QED  BY <1>5, <3>1, <3>2, <3>3, <3>4 DEF HoldingStep
  <2> QED  BY <1>1, <1>2, <2>1, <2>2
<1>6. ASSUME NEW h \in Hosts, NEW c \in Connections, DeliverDelete(h, c) \/ DropFact(h, c)
      PROVE  \A o \in Hosts : Single(o)'
  BY <1>1, <1>2, <1>6 DEF DeliverDelete, DropFact, Invalidate, leaseVars, serverVars
<1>7. ASSUME NEW h \in Hosts, WatchBreaks(h) \/ ShutdownBegins(h) \/ ShutdownEnds(h)
      PROVE  \A o \in Hosts : Single(o)'
  BY <1>1, <1>2, <1>7 DEF WatchBreaks, ShutdownBegins, ShutdownEnds, serverVars
<1>8. ASSUME NEW k, GhostEnds(k) \/ RivalSession(k)  PROVE \A o \in Hosts : Single(o)'
  BY <1>2, <1>8 DEF GhostEnds, RivalSession, leaseVars
<1> QED  BY <1>3, <1>4, <1>5, <1>6, <1>7, <1>8

\* A release or a stop enters the channel.
LEMMA SingleSends ==
  ASSUME Inv, \A o \in Hosts : Single(o), NEW h \in Hosts, NEW x \in Commands, x.op # "acquire",
         commands' = [commands EXCEPT ![h] = Append(@, x)],
         UNCHANGED <<lease, needed, pending, acquiring, granted, serverVars>>
  PROVE  \A o \in Hosts : Single(o)'
<1>1. TypeOK /\ commands[h] \in Seq(Commands) /\ Single(h)
  BY HostForm DEF Inv
<1>2. commands'[h] = Append(commands[h], x) /\ \A o \in Hosts \ {h} : commands'[o] = commands[o]
  BY <1>1 DEF TypeOK, TaskTypes
<1>3. AskedOnce(lease[h], needed[h], pending[h], acquiring[h], Append(commands[h], x))
  BY <1>1, AskedOther DEF Single
<1>4. Single(h)'
  BY <1>1, <1>2, <1>3 DEF Single, serverVars
<1>5. OthersAsk(h)
  BY <1>2 DEF OthersAsk, serverVars
<1> QED  BY <1>4, <1>5, OthersSingle

LEMMA SingleEnter ==
  ASSUME Inv, \A o \in Hosts : Single(o), NEW p \in Callers, Enter(p)
  PROVE  \A o \in Hosts : Single(o)'
<1>1. PICK h : h = HostOf[p]
  OBVIOUS
<1>2. PICK c : c = conn[p]
  OBVIOUS
<1>3. TypeOK /\ h \in Hosts /\ HostGood(h) /\ c \in Connections /\ Single(h)
      /\ UNCHANGED <<needed, acquiring, granted, inHand, session, serverVars>>
  BY <1>1, <1>2, LeaseAssumption DEF Inv, Enter, CallerGood, CallGood
<1>4. CASE UNCHANGED <<lease, commands, pending>>
  BY <1>3, <1>4, SingleRevoked DEF taskVars, serverVars
<1>5. CASE /\ lease[h][c].state = "released"
           /\ lease' = [lease EXCEPT ![h][c] = [state |-> "pending", active |-> TRUE, epoch |-> 0]]
           /\ Enqueue(h, "acquire", c)
           /\ pending' = [pending EXCEPT ![h] = Forget(@, c)]
  <2>1. /\ lease'[h][c].state = "pending" /\ (\A d \in Connections : d # c => lease'[h][d] = lease[h][d])
        /\ \A o \in Hosts \ {h} : lease'[o] = lease[o]
    BY <1>3, <1>5 DEF TypeOK, LeaseTypes
  <2>2. PICK q : q = Append(commands[h], [op |-> "acquire", conn |-> c])
    OBVIOUS
  <2>3. PICK t : t = Forget(pending[h], c)
    OBVIOUS
  <2>4. /\ commands'[h] = q /\ pending'[h] = t
        /\ \A o \in Hosts \ {h} : commands'[o] = commands[o] /\ pending'[o] = pending[o]
    BY <1>3, <1>5, <2>2, <2>3 DEF Enqueue, TypeOK, TaskTypes
  <2>5. commands[h] \in Seq(Commands) /\ pending[h] \in Seq(Connections \cup {NoConn})
    BY <1>3, HostForm
  <2>6. \A i \in 1 .. Len(commands[h]) : ~Releases(commands[h], i, c)
    BY <1>3, <1>5 DEF HostGood, RevokedOnce
  <2>7. AskedOnce(lease[h], needed[h], pending[h], acquiring[h], commands[h])
    BY <1>3 DEF Single
  <2>8. AskedOnce(lease'[h], needed[h], t, acquiring[h], q)
    <3>1. PICK l, l2 : l = lease[h] /\ l2 = lease'[h]
      OBVIOUS
    <3>2. /\ c \in Connections /\ l[c].state = "released" /\ l2[c].state = "pending"
          /\ \A d \in Connections : d # c => l2[d] = l[d]
      BY <1>3, <1>5, <2>1, <3>1
    <3>3. AskedOnce(l, needed[h], pending[h], acquiring[h], commands[h])
      BY <2>7, <3>1
    <3>4. AskedOnce(l2, needed[h], t, acquiring[h], q)
      BY <2>2, <2>3, <2>5, <2>6, <3>2, <3>3, AskedNew
    <3> QED  BY <3>1, <3>4
  <2>9. acquiring[h] # c
    <3>1. c \notin needed[h] /\ c # NoConn
      BY <1>3, <1>5, <2>7, LeaseAssumption DEF AskedOnce
    <3> QED  BY <1>3, <3>1 DEF HostGood, TurnsGood
  <2>10. \A d \in Connections : Locked(lease[h], acquiring[h], granted[h], d)
                                 <=> Locked(lease'[h], acquiring[h], granted[h], d)
    BY <1>5, <2>1, <2>9 DEF Locked
  <2>11. Counted(h, lease'[h], acquiring[h], granted[h], alive, locks[h])
    BY <1>3, <2>10, CountedSame DEF Single
  <2>12. Single(h)'
    BY <1>3, <2>4, <2>8, <2>11 DEF Single, serverVars
  <2>13. OthersAsk(h)
    BY <1>3, <2>1, <2>4 DEF OthersAsk, serverVars
  <2> QED  BY <1>3, <2>12, <2>13, OthersSingle
<1> QED  BY <1>1, <1>2, <1>4, <1>5 DEF Enter, State

\* A session that ends holds no lock.
LEMMA SingleEnds ==
  ASSUME Inv, \A o \in Hosts : Single(o), NEW h \in Hosts,
         SessionBreaks(h) \/ ServerKills(h) \/ HandleStop(h)
  PROVE  \A o \in Hosts : Single(o)'
<1>0. TypeOK /\ Single(h) /\ HostGood(h)
  BY DEF Inv
<1>1. alive' = alive \ {h} /\ locks' = [locks EXCEPT ![h] = [k \in ResourceKeys |-> 0]]
  BY DEF SessionBreaks, Breaks, LoseSession, ServerKills, HandleStop
<1>2. \A o \in Hosts \ {h} : locks'[o] = locks[o]
  BY <1>0, <1>1 DEF TypeOK, ServerTypes
<1>3. Counted(h, lease'[h], acquiring'[h], granted'[h], alive', locks'[h])
  BY <1>1 DEF Counted
<1>4. CASE SessionBreaks(h)
  <2>1. PICK table :
         table = [c \in Connections |->
                     IF c \in needed[h] /\ lease[h][c].state # "released"
                     THEN [state |-> "lost", active |-> lease[h][c].active, epoch |-> lease[h][c].epoch + 1]
                     ELSE lease[h][c]]
    OBVIOUS
  <2>2. lease' = [lease EXCEPT ![h] = table]
    BY <1>4, <2>1 DEF SessionBreaks, Breaks, LoseSession, Lost, State, Active
  <2>3. lease'[h] = table /\ \A o \in Hosts \ {h} : lease'[o] = lease[o]
    BY <1>0, <2>2 DEF TypeOK, LeaseTypes
  <2>4. \A c \in Connections : /\ lease'[h][c].state = "released" => lease[h][c].state = "released"
                               /\ c \notin needed[h] => lease'[h][c].state = lease[h][c].state
    BY <2>1, <2>3
  <2>5. /\ pending' = [pending EXCEPT ![h] = <<>>] /\ acquiring' = [acquiring EXCEPT ![h] = NoConn]
        /\ granted' = [granted EXCEPT ![h] = FALSE] /\ needed' = needed /\ commands' = commands
    BY <1>4 DEF SessionBreaks, Breaks, LoseSession
  <2>6. /\ pending'[h] = <<>> /\ acquiring'[h] = NoConn
        /\ \A o \in Hosts \ {h} : /\ pending'[o] = pending[o] /\ acquiring'[o] = acquiring[o]
                                  /\ granted'[o] = granted[o]
    BY <1>0, <2>5 DEF TypeOK, TaskTypes
  <2>7. AskedOnce(lease'[h], needed[h], <<>>, NoConn, commands[h])
    BY <1>0, <2>4, AskedLost DEF Single
  <2>8. Single(h)'
    BY <1>3, <2>5, <2>6, <2>7 DEF Single
  <2>9. OthersAsk(h)
    BY <1>1, <1>2, <2>3, <2>5, <2>6 DEF OthersAsk
  <2> QED  BY <2>8, <2>9, OthersSingle
<1>5. CASE ServerKills(h)
  <2>1. UNCHANGED <<leaseVars, taskVars>>
    BY <1>5 DEF ServerKills
  <2>2. Single(h)'
    BY <1>0, <1>3, <2>1 DEF Single, leaseVars, taskVars
  <2>3. OthersAsk(h)
    BY <1>1, <1>2, <2>1 DEF OthersAsk, leaseVars, taskVars
  <2> QED  BY <2>2, <2>3, OthersSingle
<1>6. CASE HandleStop(h)
  <2>1. Handles(h, "stop") /\ Handled(h) /\ UNCHANGED <<lease, needed, pending, acquiring, granted>>
    BY <1>6 DEF HandleStop
  <2>2. /\ acquiring[h] = NoConn /\ commands[h] # <<>> /\ commands[h] \in Seq(Commands)
        /\ commands'[h] = Tail(commands[h]) /\ (\A o \in Hosts \ {h} : commands'[o] = commands[o])
    BY <1>0, <2>1, HandlesForm
  <2>3. needed[h] \in SUBSET Connections
    BY <1>0, HostForm
  <2>4. AskedOnce(lease[h], needed[h], pending[h], NoConn, commands[h])
    BY <1>0, <2>2 DEF Single
  <2>5. AskedOnce(lease[h], needed[h], pending[h], NoConn, Tail(commands[h]))
    BY <2>2, <2>3, <2>4, AskedHandled
  <2>6. Single(h)'
    BY <1>3, <2>1, <2>2, <2>5 DEF Single
  <2>7. OthersAsk(h)
    BY <1>1, <1>2, <2>1, <2>2 DEF OthersAsk
  <2> QED  BY <2>6, <2>7, OthersSingle
<1> QED  BY <1>4, <1>5, <1>6

LEMMA SingleConnect ==
  ASSUME Inv, \A o \in Hosts : Single(o), NEW h \in Hosts, Connect(h)
  PROVE  \A o \in Hosts : Single(o)'
<1>0. TypeOK /\ Single(h) /\ HostGood(h)
  BY DEF Inv
<1>1. /\ session[h] = "none" /\ alive' = alive \cup {h}
      /\ UNCHANGED <<lease, commands, needed, acquiring, granted, locks>>
  BY DEF Connect
<1>2. PICK s \in SetToSeqs({c \in needed[h] : Active(h, c)}) : pending' = [pending EXCEPT ![h] = s]
  BY DEF Connect
<1>3. /\ needed[h] \in SUBSET Connections /\ granted[h] \in BOOLEAN /\ locks[h] \in [ResourceKeys -> Nat]
  BY <1>0, HostForm
<1>4. \A i, j \in 1 .. Len(s) : i # j => s[i] # s[j]
  <2>1. PICK n : n = Cardinality({c \in needed[h] : Active(h, c)})
    OBVIOUS
  <2>2. n \in Nat
    <3>1. {c \in needed[h] : Active(h, c)} \subseteq Connections
      BY <1>3
    <3> QED  BY <2>1, <3>1, LeaseAssumption, FS_Subset, FS_CardinalityType
  <2>3. s \in [1 .. n -> needed[h]] /\ \A i, j \in 1 .. n : i # j => s[i] # s[j]
    BY <1>2, <2>1 DEF SetToSeqs
  <2>4. Len(s) = n
    <3>1. s \in Seq(needed[h])
      BY <2>2, <2>3
    <3> QED  BY <2>2, <2>3, <3>1
  <2> QED  BY <2>3, <2>4
<1>5. pending'[h] = s /\ \A o \in Hosts \ {h} : pending'[o] = pending[o]
  BY <1>0, <1>2 DEF TypeOK, TaskTypes
<1>6. /\ \A c \in Connections : lease[h][c].state # "held"
      /\ acquiring[h] = NoConn /\ ~granted[h]
      /\ \A k \in ResourceKeys : ~(locks[h][k] > 0)
  BY <1>0, <1>1, <1>3 DEF HostGood, TurnsGood, LocksGood
<1>7. AskedOnce(lease[h], needed[h], s, NoConn, commands[h])
  <2>1. AskedOnce(lease[h], needed[h], pending[h], NoConn, commands[h])
    BY <1>0, <1>6 DEF Single
  <2> QED  BY <1>4, <1>6, <2>1, AskedOpened
<1>8. Counted(h, lease[h], acquiring[h], granted[h], alive', locks[h])
  <2>1. \A c \in Connections : ~Locked(lease[h], acquiring[h], granted[h], c)
    BY <1>6 DEF Locked
  <2>2. \A k \in ResourceKeys : locks[h][k] <= 1
    BY <1>3, <1>6
  <2> QED  BY <1>6, <2>1, <2>2 DEF Counted
<1>9. Single(h)'
  BY <1>1, <1>5, <1>6, <1>7, <1>8 DEF Single
<1>10. OthersAsk(h)
  BY <1>1, <1>5 DEF OthersAsk
<1> QED  BY <1>9, <1>10, OthersSingle

LEMMA SingleNextPending ==
  ASSUME Inv, \A o \in Hosts : Single(o), NEW h \in Hosts, NextPending(h)
  PROVE  \A o \in Hosts : Single(o)'
<1>0. TypeOK /\ Single(h) /\ HostGood(h)
  BY DEF Inv
<1>1. PICK n : n = IF Head(pending[h]) # NoConn /\ Active(h, Head(pending[h]))
                      /\ ~HeldByAnother(h, Head(pending[h])) THEN Head(pending[h]) ELSE NoConn
  OBVIOUS
<1>2. /\ acquiring[h] = NoConn /\ pending[h] # <<>>
      /\ pending' = [pending EXCEPT ![h] = Tail(@)] /\ acquiring' = [acquiring EXCEPT ![h] = n]
      /\ UNCHANGED <<lease, commands, needed, granted, serverVars>>
  BY <1>1 DEF NextPending
<1>3. granted[h] \in BOOLEAN /\ pending[h] \in Seq(Connections \cup {NoConn})
  BY <1>0, HostForm
<1>4. Head(pending[h]) \in Connections \cup {NoConn}
  BY <1>2, <1>3, TailForm
<1>5. n = NoConn \/ (n = Head(pending[h]) /\ n \in Connections /\ lease[h][n].active)
  BY <1>1, <1>4 DEF Active
<1>6. /\ pending'[h] = Tail(pending[h]) /\ acquiring'[h] = n
      /\ \A o \in Hosts \ {h} : pending'[o] = pending[o] /\ acquiring'[o] = acquiring[o]
  BY <1>0, <1>2 DEF TypeOK, TaskTypes
<1>7. AskedOnce(lease[h], needed[h], Tail(pending[h]), n, commands[h])
  <2>1. AskedOnce(lease[h], needed[h], pending[h], NoConn, commands[h])
    BY <1>0, <1>2 DEF Single
  <2> QED  BY <1>2, <1>3, <1>5, <2>1, AskedTaken
<1>8. ~granted[h]
  BY <1>0, <1>2, <1>3 DEF HostGood, TurnsGood
<1>9. Counted(h, lease[h], n, granted[h], alive, locks[h])
  <2>1. \A c \in Connections : Locked(lease[h], acquiring[h], granted[h], c) <=> Locked(lease[h], n, granted[h], c)
    BY <1>8 DEF Locked
  <2> QED  BY <1>0, <2>1, CountedSame DEF Single
<1>10. Single(h)'
  BY <1>2, <1>6, <1>7, <1>9 DEF Single, serverVars
<1>11. OthersAsk(h)
  BY <1>2, <1>6 DEF OthersAsk, serverVars
<1> QED  BY <1>10, <1>11, OthersSingle

LEMMA SingleGrants ==
  ASSUME Inv, \A o \in Hosts : Single(o), NEW h \in Hosts, ServerGrants(h)
  PROVE  \A o \in Hosts : Single(o)'
<1>0. TypeOK /\ Single(h) /\ HostGood(h)
  BY DEF Inv
<1>1. PICK c : c = acquiring[h]
  OBVIOUS
<1>2. PICK k : k = KeyOf[c]
  OBVIOUS
<1>3. /\ c # NoConn /\ ~granted[h] /\ h \in alive
      /\ granted' = [granted EXCEPT ![h] = TRUE] /\ locks' = [locks EXCEPT ![h][k] = @ + 1]
      /\ UNCHANGED <<lease, commands, needed, pending, acquiring, alive>>
  BY <1>1, <1>2 DEF ServerGrants
<1>4. c \in Connections /\ k \in ResourceKeys /\ locks[h] \in [ResourceKeys -> Nat]
  BY <1>0, <1>1, <1>2, <1>3, HostForm, LeaseAssumption
<1>5. /\ locks'[h] = [locks[h] EXCEPT ![k] = @ + 1] /\ granted'[h] = TRUE
      /\ \A o \in Hosts \ {h} : locks'[o] = locks[o] /\ granted'[o] = granted[o]
  BY <1>0, <1>3, <1>4 DEF TypeOK, TaskTypes, ServerTypes
<1>8. Counted(h, lease[h], c, TRUE, alive, locks'[h])
  <2>1. Counted(h, lease[h], c, granted[h], alive, locks[h])
    BY <1>0, <1>1 DEF Single
  <2> SUFFICES ASSUME NEW j \in ResourceKeys, Sole(j)
               PROVE  /\ locks'[h][j] <= 1
                      /\ locks'[h][j] > 0 <=> \E d \in Connections : KeyOf[d] = j /\ Locked(lease[h], c, TRUE, d)
    BY DEF Counted
  <2>2. /\ locks[h][j] <= 1
        /\ locks[h][j] > 0 <=> \E d \in Connections : KeyOf[d] = j /\ Locked(lease[h], c, granted[h], d)
    BY <1>3, <2>1 DEF Counted
  <2>3. CASE j = k
    <3>1. c \in Own /\ \A d \in Connections : KeyOf[d] = j => d = c
      BY <1>2, <1>4, <2>3 DEF Own, Sole
    <3>2. lease[h][c].state # "held"
      BY <1>0, <1>1, <3>1 DEF Single, AskedOnce
    <3>3. \A d \in Connections : KeyOf[d] = j => ~Locked(lease[h], c, granted[h], d)
      BY <1>3, <3>1, <3>2 DEF Locked
    <3>4. ~(locks[h][j] > 0)
      BY <2>2, <3>3
    <3>5. locks'[h][j] = 1
      BY <1>4, <1>5, <2>3, <3>4
    <3>6. Locked(lease[h], c, TRUE, c) /\ KeyOf[c] = j
      BY <1>2, <2>3 DEF Locked
    <3>7. \E d \in Connections : KeyOf[d] = j /\ Locked(lease[h], c, TRUE, d)
      BY <1>4, <3>6, Zenon
    <3>8. locks'[h][j] <= 1 /\ locks'[h][j] > 0
      BY <3>5
    <3> QED  BY <3>7, <3>8
  <2>4. CASE j # k
    <3>1. locks'[h][j] = locks[h][j]
      BY <1>4, <1>5, <2>4
    <3>2. \A d \in Connections : KeyOf[d] = j =>
             (Locked(lease[h], c, TRUE, d) <=> Locked(lease[h], c, granted[h], d))
      BY <1>2, <2>4 DEF Locked
    <3> QED  BY <2>2, <3>1, <3>2
  <2> QED  BY <2>3, <2>4
<1>9. Single(h)'
  <2>1. Counted(h, lease[h], c, granted'[h], alive, locks'[h])
    BY <1>5, <1>8
  <2> QED  BY <1>0, <1>1, <1>3, <2>1 DEF Single
<1>10. OthersAsk(h)
  BY <1>3, <1>5 DEF OthersAsk
<1> QED  BY <1>9, <1>10, OthersSingle

LEMMA SingleEndAcquire ==
  ASSUME Inv, \A o \in Hosts : Single(o), NEW h \in Hosts, NEW command \in BOOLEAN, acquiring[h] # NoConn,
         EndAcquire(h, granted[h], command)
  PROVE  \A o \in Hosts : Single(o)'
<1>0. TypeOK /\ Single(h) /\ HostGood(h)
  BY DEF Inv
<1>1. PICK c : c = acquiring[h]
  OBVIOUS
<1>2. /\ acquiring' = [acquiring EXCEPT ![h] = NoConn] /\ granted' = [granted EXCEPT ![h] = FALSE]
      /\ UNCHANGED <<commands, needed, serverVars>>
  BY DEF EndAcquire
<1>3. /\ c \in Connections /\ granted[h] \in BOOLEAN /\ pending[h] \in Seq(Connections \cup {NoConn})
      /\ c # NoConn
  BY <1>0, <1>1, HostForm
<1>4. /\ acquiring'[h] = NoConn /\ granted'[h] = FALSE
      /\ \A o \in Hosts \ {h} : acquiring'[o] = acquiring[o] /\ granted'[o] = granted[o]
  BY <1>0, <1>2 DEF TypeOK, TaskTypes
<1>5. c \in needed[h]
  BY <1>0, <1>1, <1>3 DEF HostGood, TurnsGood
<1>6. /\ AskedOnce(lease[h], needed[h], pending[h], c, commands[h])
      /\ Counted(h, lease[h], c, granted[h], alive, locks[h])
  BY <1>0, <1>1 DEF Single
<1>7. CASE granted[h]
  <2>1. lease' = [lease EXCEPT ![h][c].state = "held"] /\ pending' = pending
    BY <1>1, <1>7 DEF EndAcquire, SetState
  <2>2. /\ lease'[h] = [lease[h] EXCEPT ![c].state = "held"] /\ lease[h] \in LeaseTable
        /\ \A o \in Hosts \ {h} : lease'[o] = lease[o]
    BY <1>0, <2>1 DEF TypeOK, LeaseTypes, LeaseTable
  <2>3. /\ lease'[h][c].state = "held"
        /\ \A d \in Connections : lease'[h][d].active = lease[h][d].active
        /\ \A d \in Connections \ {c} : lease'[h][d].state = lease[h][d].state
    BY <1>3, <2>2 DEF LeaseTable, Leases
  <2>4. AskedOnce(lease'[h], needed[h], pending[h], NoConn, commands[h])
    BY <1>3, <1>5, <1>6, <2>3, AskedHeld
  <2>5. \A d \in Connections : Locked(lease[h], c, granted[h], d) <=> Locked(lease'[h], NoConn, FALSE, d)
    BY <1>7, <2>3 DEF Locked
  <2>6. Counted(h, lease'[h], NoConn, FALSE, alive, locks[h])
    BY <1>6, <2>5, CountedSame
  <2>7. Single(h)'
    BY <1>2, <1>4, <2>1, <2>4, <2>6 DEF Single, serverVars
  <2>8. OthersAsk(h)
    BY <1>2, <1>4, <2>1, <2>2 DEF OthersAsk, serverVars
  <2> QED  BY <2>7, <2>8, OthersSingle
<1>8. CASE ~granted[h]
  <2>1. PICK t : t = IF Active(h, c) THEN Append(pending[h], c) ELSE pending[h]
    OBVIOUS
  <2>2. lease' = lease /\ pending' = [pending EXCEPT ![h] = t]
    BY <1>1, <1>8, <2>1 DEF EndAcquire
  <2>3. pending'[h] = t /\ \A o \in Hosts \ {h} : pending'[o] = pending[o]
    BY <1>0, <2>2 DEF TypeOK, TaskTypes
  <2>4. AskedOnce(lease[h], needed[h], pending[h], NoConn, commands[h])
    BY <1>6, AskedCancelled
  <2>5. c \in Own => /\ lease[h][c].state # "held"
                     /\ lease[h][c].active => \A i \in 1 .. Len(pending[h]) : pending[h][i] # c
    BY <1>3, <1>6 DEF AskedOnce
  <2>6. AskedOnce(lease[h], needed[h], Append(pending[h], c), NoConn, commands[h])
    BY <1>3, <2>4, <2>5, AskedAppended
  <2>7. AskedOnce(lease[h], needed[h], t, NoConn, commands[h])
    BY <2>1, <2>4, <2>6
  <2>8. \A d \in Connections : Locked(lease[h], c, granted[h], d) <=> Locked(lease[h], NoConn, FALSE, d)
    BY <1>8 DEF Locked
  <2>9. Counted(h, lease[h], NoConn, FALSE, alive, locks[h])
    BY <1>6, <2>8, CountedSame
  <2>10. Single(h)'
    BY <1>2, <1>4, <2>2, <2>3, <2>7, <2>9 DEF Single, serverVars
  <2>11. OthersAsk(h)
    BY <1>2, <1>4, <2>2, <2>3 DEF OthersAsk, serverVars
  <2> QED  BY <2>10, <2>11, OthersSingle
<1> QED  BY <1>7, <1>8

LEMMA SingleHandleAcquire ==
  ASSUME Inv, \A o \in Hosts : Single(o), NEW h \in Hosts, HandleAcquire(h)
  PROVE  \A o \in Hosts : Single(o)'
<1>0. TypeOK /\ Single(h) /\ HostGood(h)
  BY DEF Inv
<1>1. PICK c : c = Head(commands[h]).conn
  OBVIOUS
<1>2. PICK t : t = IF session[h] = "open" THEN Append(pending[h], c) ELSE pending[h]
  OBVIOUS
<1>3. /\ Handles(h, "acquire") /\ Handled(h)
      /\ needed' = [needed EXCEPT ![h] = @ \cup {c}] /\ pending' = [pending EXCEPT ![h] = t]
      /\ UNCHANGED <<lease, acquiring, granted, serverVars>>
  BY <1>1, <1>2 DEF HandleAcquire
<1>4. /\ acquiring[h] = NoConn /\ commands[h] # <<>> /\ commands[h] \in Seq(Commands)
      /\ Head(commands[h]) = commands[h][1] /\ commands[h][1] \in Commands /\ commands[h][1].op = "acquire"
      /\ commands'[h] = Tail(commands[h]) /\ (\A o \in Hosts \ {h} : commands'[o] = commands[o])
  BY <1>0, <1>3, HandlesForm
<1>5. c \in Connections /\ Acquires(commands[h], 1, c) /\ 1 \in 1 .. Len(commands[h])
  BY <1>1, <1>4, CommandForm, TailForm DEF Acquires, Commands
<1>6. pending[h] \in Seq(Connections \cup {NoConn}) /\ needed[h] \in SUBSET Connections
  BY <1>0, HostForm
<1>7. /\ pending'[h] = t /\ needed'[h] = needed[h] \cup {c}
      /\ \A o \in Hosts \ {h} : pending'[o] = pending[o] /\ needed'[o] = needed[o]
  BY <1>0, <1>3 DEF TypeOK, TaskTypes
<1>8. AskedOnce(lease[h], needed[h], pending[h], NoConn, commands[h])
  BY <1>0, <1>4 DEF Single
<1>9. c \notin needed[h] /\ lease[h][c].state = "pending"
  BY <1>5, <1>8 DEF AskedOnce
<1>10. lease[h][c].active => \A i \in 1 .. Len(pending[h]) : pending[h][i] # c
  BY <1>0, <1>5, <1>9 DEF HostGood, TurnsGood
<1>11. PICK need2 : need2 = needed[h] \cup {c}
  OBVIOUS
<1>12. AskedOnce(lease[h], need2, pending[h], NoConn, Tail(commands[h]))
  <2>1. /\ need2 \in SUBSET Connections
        /\ \A d \in Connections : \/ lease[h][d] = lease[h][d] /\ (d \in need2 <=> d \in needed[h])
                                  \/ Acquires(commands[h], 1, d) /\ lease[h][d] = lease[h][d]
    BY <1>5, <1>6, <1>11
  <2> QED  BY <1>4, <1>8, <2>1, AskedHandled
<1>13. AskedOnce(lease[h], need2, t, NoConn, Tail(commands[h]))
  <2>1. AskedOnce(lease[h], need2, Append(pending[h], c), NoConn, Tail(commands[h]))
    BY <1>5, <1>6, <1>9, <1>10, <1>12, AskedAppended
  <2> QED  BY <1>2, <1>12, <2>1
<1>14. Single(h)'
  BY <1>0, <1>3, <1>4, <1>7, <1>11, <1>13 DEF Single, serverVars
<1>15. OthersAsk(h)
  BY <1>3, <1>4, <1>7 DEF OthersAsk, serverVars
<1> QED  BY <1>14, <1>15, OthersSingle

LEMMA SingleHandleRelease ==
  ASSUME Inv, \A o \in Hosts : Single(o), NEW h \in Hosts, HandleRelease(h)
  PROVE  \A o \in Hosts : Single(o)'
<1>0. TypeOK /\ Single(h) /\ HostGood(h)
  BY DEF Inv
<1>1. PICK c : c = Head(commands[h]).conn
  OBVIOUS
<1>2. /\ Handles(h, "release") /\ Handled(h)
      /\ locks' = IF Unlocks(h, c) THEN [locks EXCEPT ![h][KeyOf[c]] = @ - 1] ELSE locks
      /\ needed' = [needed EXCEPT ![h] = @ \ {c}]
      /\ lease' = [lease EXCEPT ![h][c] = Released]
      /\ UNCHANGED <<acquiring, granted, alive>>
  BY <1>1 DEF HandleRelease
<1>3. PICK s \in SetToSeqs(Waiting(h, c)) :
          pending' = [pending EXCEPT ![h] = IF session[h] = "open" THEN @ \o s ELSE @]
  BY <1>1 DEF HandleRelease
<1>4. /\ acquiring[h] = NoConn /\ ~granted[h] /\ commands[h] # <<>> /\ commands[h] \in Seq(Commands)
      /\ Head(commands[h]) = commands[h][1] /\ commands[h][1] \in Commands /\ commands[h][1].op = "release"
      /\ commands'[h] = Tail(commands[h]) /\ (\A o \in Hosts \ {h} : commands'[o] = commands[o])
  BY <1>0, <1>2, HandlesForm
<1>5. c \in Connections /\ KeyOf[c] \in ResourceKeys /\ Releases(commands[h], 1, c)
  BY <1>1, <1>4, CommandForm, LeaseAssumption DEF Releases, Commands
<1>6. /\ pending[h] \in Seq(Connections \cup {NoConn}) /\ needed[h] \in SUBSET Connections
      /\ locks[h] \in [ResourceKeys -> Nat] /\ lease[h] \in LeaseTable
  BY <1>0, HostForm
<1>7. PICK t : t = IF session[h] = "open" THEN pending[h] \o s ELSE pending[h]
  OBVIOUS
<1>14. pending'[h] = t /\ \A o \in Hosts \ {h} : pending'[o] = pending[o]
  BY <1>0, <1>3, <1>7 DEF TypeOK, TaskTypes
<1>15. s \in Seq(Connections) /\ \A i \in 1 .. Len(s) : s[i] \notin Own
  <2>1. Waiting(h, c) \subseteq Connections /\ \A d \in Waiting(h, c) : KeyOf[d] = KeyOf[c] /\ d # c
    BY <1>6 DEF Waiting
  <2>2. s \in Seq(Connections) /\ \A i \in 1 .. Len(s) : s[i] \in Waiting(h, c)
    BY <2>1, TurnsOfSet
  <2> QED  BY <1>5, <2>1, <2>2 DEF Own, Sole
<1>8. /\ needed'[h] = needed[h] \ {c} /\ \A o \in Hosts \ {h} : needed'[o] = needed[o]
  BY <1>0, <1>2 DEF TypeOK, TaskTypes
<1>9. /\ \A d \in Connections : lease'[h][d] = IF d = c THEN Released ELSE lease[h][d]
      /\ \A o \in Hosts \ {h} : lease'[o] = lease[o]
  BY <1>0, <1>2 DEF TypeOK, LeaseTypes
<1>10. AskedOnce(lease'[h], needed'[h], t, NoConn, Tail(commands[h]))
  <2>1. AskedOnce(lease[h], needed[h], pending[h], NoConn, commands[h])
    BY <1>0, <1>4 DEF Single
  <2>2. /\ needed'[h] \in SUBSET Connections
        /\ \A d \in Connections :
              \/ lease'[h][d] = lease[h][d] /\ (d \in needed'[h] <=> d \in needed[h])
              \/ Releases(commands[h], 1, d) /\ lease'[h][d] = Released /\ d \notin needed'[h]
    BY <1>5, <1>6, <1>8, <1>9
  <2>3. AskedOnce(lease'[h], needed'[h], pending[h], NoConn, Tail(commands[h]))
    BY <1>4, <2>1, <2>2, AskedHandled
  <2>4. AskedOnce(lease'[h], needed'[h], pending[h] \o s, NoConn, Tail(commands[h]))
    BY <1>6, <1>15, <2>3, AskedJoined
  <2> QED  BY <1>7, <2>3, <2>4
<1>11. Counted(h, lease'[h], NoConn, granted[h], alive, locks'[h])
       /\ \A o \in Hosts \ {h} : locks'[o] = locks[o]
  <2>1. Counted(h, lease[h], NoConn, granted[h], alive, locks[h])
    BY <1>0, <1>4 DEF Single
  <2>2. /\ ~Locked(lease'[h], NoConn, granted[h], c)
        /\ \A d \in Connections \ {c} : Locked(lease'[h], NoConn, granted[h], d)
                                         <=> Locked(lease[h], NoConn, granted[h], d)
    BY <1>4, <1>5, <1>9 DEF Locked, Released
  <2>4. CASE Unlocks(h, c)
    <3>1. lease[h][c].state = "held"
      BY <2>4 DEF Unlocks, State
    <3>2. /\ locks'[h] = [locks[h] EXCEPT ![KeyOf[c]] = @ - 1] /\ \A o \in Hosts \ {h} : locks'[o] = locks[o]
      BY <1>0, <1>2, <2>4 DEF TypeOK, ServerTypes
    <3> SUFFICES ASSUME h \in alive, NEW k \in ResourceKeys, Sole(k)
                 PROVE  /\ locks'[h][k] <= 1
                        /\ locks'[h][k] > 0 <=> \E d \in Connections : KeyOf[d] = k
                                                     /\ Locked(lease'[h], NoConn, granted[h], d)
      BY <3>2 DEF Counted
    <3>3. /\ locks[h][k] <= 1
          /\ locks[h][k] > 0 <=> \E d \in Connections : KeyOf[d] = k /\ Locked(lease[h], NoConn, granted[h], d)
      BY <2>1 DEF Counted
    <3>4. CASE k = KeyOf[c]
      <4>1. locks'[h][k] = locks[h][k] - 1 /\ locks[h][k] \in Nat
        BY <1>5, <1>6, <3>2, <3>4
      <4>2. locks'[h][k] <= 1 /\ ~(locks'[h][k] > 0)
        BY <3>3, <4>1
      <4>3. ~\E d \in Connections : KeyOf[d] = k /\ Locked(lease'[h], NoConn, granted[h], d)
        BY <1>5, <2>2, <3>4 DEF Sole
      <4> QED  BY <4>2, <4>3
    <3>5. CASE k # KeyOf[c]
      <4>1. locks'[h][k] = locks[h][k]
        BY <1>6, <3>2, <3>5
      <4>2. \A d \in Connections : KeyOf[d] = k =>
               (Locked(lease'[h], NoConn, granted[h], d) <=> Locked(lease[h], NoConn, granted[h], d))
        BY <2>2, <3>5
      <4> QED  BY <3>3, <4>1, <4>2
    <3> QED  BY <3>4, <3>5
  <2>5. CASE ~Unlocks(h, c)
    <3>1. locks' = locks
      BY <1>2, <2>5
    <3>2. h \in alive => session[h] = "open"
      BY <1>0 DEF HostGood, LocksGood
    <3>3. h \in alive => ~Locked(lease[h], NoConn, granted[h], c)
      BY <1>4, <2>5, <3>2 DEF Locked, Unlocks, State
    <3>4. CASE h \notin alive
      BY <3>1, <3>4 DEF Counted
    <3>5. CASE h \in alive
      <4>1. \A d \in Connections : Locked(lease[h], NoConn, granted[h], d)
                                    <=> Locked(lease'[h], NoConn, granted[h], d)
        BY <2>2, <3>3, <3>5
      <4>2. Counted(h, lease'[h], NoConn, granted[h], alive, locks[h])
        BY <2>1, <4>1, CountedSame
      <4> QED  BY <3>1, <4>2
    <3> QED  BY <3>4, <3>5
  <2> QED  BY <2>4, <2>5
<1>12. Single(h)'
  BY <1>2, <1>4, <1>10, <1>11, <1>14 DEF Single
<1>13. OthersAsk(h)
  BY <1>2, <1>4, <1>8, <1>9, <1>11, <1>14 DEF OthersAsk
<1> QED  BY <1>12, <1>13, OthersSingle

LEMMA SingleStep ==
  ASSUME Inv, \A o \in Hosts : Single(o), [Next]_vars
  PROVE  \A o \in Hosts : Single(o)'
<1>1. ASSUME NEW c \in Connections, ChangeConnection(c) \/ \E p \in Callers : Start(p, c)
      PROVE  \A o \in Hosts : Single(o)'
  BY <1>1, SingleQuiet
<1>2. ASSUME NEW p \in Callers, CallStep(p)  PROVE \A o \in Hosts : Single(o)'
  <2>1. CASE Enter(p)
    BY <2>1, SingleEnter
  <2>2. CASE ReadFact(p) \/ Refuse(p) \/ LockCall(p) \/ HoldingStep(p)
    BY <2>2, SingleQuiet
  <2> QED  BY <1>2, <2>1, <2>2 DEF CallStep
<1>3. ASSUME NEW h \in Hosts, NEW c \in Connections, DeliverDelete(h, c) \/ DropFact(h, c) \/ RevokeSends(h, c)
      PROVE  \A o \in Hosts : Single(o)'
  <2>1. CASE DeliverDelete(h, c) \/ DropFact(h, c)
    BY <2>1, SingleQuiet
  <2>2. CASE RevokeSends(h, c)
    <3>1. PICK x : x = [op |-> "release", conn |-> c]
      OBVIOUS
    <3>2. x \in Commands /\ x.op # "acquire"
      BY <3>1 DEF Commands
    <3>3. /\ commands' = [commands EXCEPT ![h] = Append(@, x)]
          /\ UNCHANGED <<lease, needed, pending, acquiring, granted, serverVars>>
      BY <2>2, <3>1 DEF RevokeSends, Enqueue
    <3> QED  BY <3>2, <3>3, SingleSends
  <2> QED  BY <1>3, <2>1, <2>2
<1>4. ASSUME NEW h \in Hosts, WatchBreaks(h) \/ Connect(h) \/ SessionBreaks(h) \/ ServerKills(h)
                              \/ ServerGrants(h) \/ ShutdownBegins(h)
      PROVE  \A o \in Hosts : Single(o)'
  <2>1. CASE WatchBreaks(h) \/ ShutdownBegins(h)
    BY <2>1, SingleQuiet
  <2>2. CASE Connect(h)
    BY <2>2, SingleConnect
  <2>3. CASE SessionBreaks(h) \/ ServerKills(h)
    BY <2>3, SingleEnds
  <2>4. CASE ServerGrants(h)
    BY <2>4, SingleGrants
  <2> QED  BY <1>4, <2>1, <2>2, <2>3, <2>4
<1>5. ASSUME NEW h \in Hosts, TaskStep(h)  PROVE \A o \in Hosts : Single(o)'
  <2>1. granted[h] \in BOOLEAN /\ (granted[h] => acquiring[h] # NoConn)
    <3>1. TypeOK /\ HostGood(h)
      BY DEF Inv
    <3> QED  BY <3>1, HostForm DEF HostGood, TurnsGood
  <2>2. CASE Acquired(h)
    <3>1. granted[h] = TRUE /\ EndAcquire(h, TRUE, FALSE)
      BY <2>1, <2>2 DEF Acquired
    <3>2. EndAcquire(h, granted[h], FALSE)
      BY <3>1
    <3> QED  BY <2>1, <3>1, <3>2, SingleEndAcquire
  <2>3. CASE CancelForCommand(h) \/ AcquireTurn(h)
    BY <2>3, SingleEndAcquire DEF CancelForCommand, AcquireTurn, CancelFoundGrant
  <2>4. CASE NextPending(h)
    BY <2>4, SingleNextPending
  <2>5. CASE HandleAcquire(h)
    BY <2>5, SingleHandleAcquire
  <2>6. CASE HandleRelease(h)
    BY <2>6, SingleHandleRelease
  <2>7. CASE HandleStop(h)
    BY <2>7, SingleEnds
  <2>8. CASE LeasesDrained(h)
    <3>1. PICK x : x = [op |-> "stop", conn |-> NoConn]
      OBVIOUS
    <3>2. x \in Commands /\ x.op # "acquire"
      BY <3>1 DEF Commands
    <3>3. /\ commands' = [commands EXCEPT ![h] = Append(@, x)]
          /\ UNCHANGED <<lease, needed, pending, acquiring, granted, serverVars>>
      BY <2>8, <3>1 DEF LeasesDrained, Enqueue
    <3> QED  BY <3>2, <3>3, SingleSends
  <2>9. CASE ShutdownEnds(h)
    BY <2>9, SingleQuiet
  <2> QED  BY <1>5, <2>2, <2>3, <2>4, <2>5, <2>6, <2>7, <2>8, <2>9 DEF TaskStep
<1>6. ASSUME NEW k, GhostEnds(k) \/ RivalSession(k)  PROVE \A o \in Hosts : Single(o)'
  BY <1>6, SingleQuiet
<1>7. ASSUME UNCHANGED vars  PROVE \A o \in Hosts : Single(o)'
  BY <1>7, SingleQuiet
<1> QED  BY <1>1, <1>2, <1>3, <1>4, <1>5, <1>6, <1>7 DEF Next

LEMMA SingleInit == Init => \A h \in Hosts : Single(h)
<1> SUFFICES ASSUME Init, NEW h \in Hosts  PROVE Single(h)
  OBVIOUS
<1>1. /\ needed[h] = {} /\ commands[h] = <<>> /\ pending[h] = <<>> /\ acquiring[h] = NoConn /\ alive = {}
      /\ \A c \in Connections : lease[h][c].state # "held"
  BY DEF Init, Released
<1>2. AskedOnce(lease[h], {}, <<>>, NoConn, <<>>)
  BY <1>1, OwnForm DEF AskedOnce
<1>3. Counted(h, lease[h], acquiring[h], granted[h], alive, locks[h])
  BY <1>1 DEF Counted
<1> QED  BY <1>1, <1>2, <1>3 DEF Single

\* The lock count of a live session follows its leases: it has the lock of every
\* lease that it took, and a lease that shares its key with no other asks for its
\* lock once, so the lock is taken once and its release frees it.
THEOREM LockCountFollowsLease == Spec => []LockCounted
<1>1. Init => Inv /\ \A h \in Hosts : Single(h)
  BY InitGood, SingleInit
<1>2. (Inv /\ \A h \in Hosts : Single(h)) /\ [Next]_vars => (Inv /\ \A h \in Hosts : Single(h))'
  <2> SUFFICES ASSUME Inv, \A h \in Hosts : Single(h), [Next]_vars
               PROVE  Inv' /\ \A h \in Hosts : Single(h)'
    OBVIOUS
  <2> QED  BY NextKeeps, SingleStep
<1>3. Inv /\ (\A h \in Hosts : Single(h)) => LockCounted
  <2> SUFFICES ASSUME Inv, \A h \in Hosts : Single(h), NEW h \in alive, NEW k \in ResourceKeys
               PROVE  /\ Taken(h, k) # {} => locks[h][k] > 0
                      /\ Sole(k) => locks[h][k] = Cardinality(Taken(h, k))
    BY DEF LockCounted
  <2>1. h \in Hosts /\ locks[h][k] \in Nat
    BY HostForm DEF Inv, TypeOK, ServerTypes
  <2>2. HostGood(h)
    BY <2>1 DEF Inv
  <2>3. PICK S : S = Taken(h, k)
    OBVIOUS
  <2>4. \A c : c \in S <=> c \in Connections /\ KeyOf[c] = k /\ Locked(lease[h], acquiring[h], granted[h], c)
    BY <2>3 DEF Taken, Locked, State
  <2>5. S # {} => locks[h][k] > 0
    BY <2>2, <2>4 DEF HostGood, LocksGood, Locked
  <2>6. ASSUME Sole(k)  PROVE locks[h][k] = Cardinality(S)
    <3>1. /\ locks[h][k] <= 1
          /\ locks[h][k] > 0 <=> \E c \in Connections : KeyOf[c] = k /\ Locked(lease[h], acquiring[h], granted[h], c)
      BY <2>1, <2>6 DEF Single, Counted
    <3>2. CASE S = {}
      <4>1. locks[h][k] = 0
        BY <2>1, <2>4, <3>1, <3>2
      <4> QED  BY <3>2, <4>1, FS_EmptySet
    <3>3. CASE S # {}
      <4>1. PICK c : c \in S
        BY <3>3
      <4>2. S = {c}
        BY <2>4, <2>6, <4>1 DEF Sole
      <4>3. Cardinality(S) = 1
        BY <4>2, FS_Singleton
      <4>4. locks[h][k] = 1
        BY <2>1, <2>5, <3>1, <3>3
      <4> QED  BY <4>3, <4>4
    <3> QED  BY <3>2, <3>3
  <2> QED  BY <2>3, <2>5, <2>6
<1> QED  BY <1>1, <1>2, <1>3, PTL DEF Spec
===============================================================================
