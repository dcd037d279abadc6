------------------------------ MODULE AuthMemory ------------------------------
(***************************************************************************)
(* The memory in which the hosts of one tenant keep the auth facts of a    *)
(* principal: crates/platform/runtime/src/auth_cache.rs over the replica   *)
(* crates/platform/runtime/src/kv_memory.rs, and the drops of the writers, *)
(* crates/identity/platform/src/auth_changes.rs and kv_memory.rs.          *)
(*                                                                         *)
(* Postgres owns the facts.  One principal of one tenant is modelled: its  *)
(* grants and its user row are at the version that counts the committed    *)
(* changes, and one bearer token of it is active until it is revoked.  A   *)
(* request that misses takes the revision of the key (its ticket), reads   *)
(* Postgres and puts the answer in the bucket if the key still has that    *)
(* revision.  A writer deletes the key after its commit, which leaves a    *)
(* marker with a revision of its own; a watch brings every put and every   *)
(* marker to every host.  The token answer stays in its host and falls to  *)
(* the marker of the identity key.                                         *)
(*                                                                         *)
(* Time is left out: the TTL expires an entry of the bucket or of a        *)
(* replica at any moment, except that a request ends before a marker       *)
(* written during it expires (a read has five seconds, a put has one, the  *)
(* TTL is sixty).                                                          *)
(***************************************************************************)
EXTENDS Naturals, Sequences

CONSTANTS
    Hosts,
    Requests,       \* the requests that read a fact
    HostOf,         \* the host that serves each request
    ReadsOf,        \* the facts that each request may read
    Kinds,          \* the kinds of change: "principal", "tenant"
    Present,        \* the versions at which the user row exists
    MaxChanges,     \* bound on the committed changes and the revocation
    MaxRevision,    \* bound on the stream sequence of the bucket
    MaxBreaks       \* bound on the lost connections of a watch

ASSUME HostOfAssumption == HostOf \in [Requests -> Hosts]
ASSUME ReadsOfAssumption ==
    ReadsOf \in [Requests -> SUBSET {"grants", "provisioned", "token"}]
ASSUME KindsAssumption == Kinds \subseteq {"principal", "tenant"}
ASSUME BoundsAssumption ==
    {MaxChanges, MaxRevision, MaxBreaks} \subseteq Nat
ASSUME PresentAssumption == Present \subseteq 0 .. MaxChanges

Versions == 0 .. MaxChanges

\* No version: a half of an answer that nobody has read.
None == MaxChanges + 1

(***************************************************************************)
(* A value of the key (Answer::Principal): the version of the grants and   *)
(* the version at which the user row was seen.  Deleted is the marker of a *)
(* delete, and what a replica holds after one.                             *)
(***************************************************************************)
Answers == [grants : Versions \cup {None}, provisioned : Versions \cup {None}]
Deleted == [grants |-> None, provisioned |-> None]

VARIABLES
    changes,        \* the committed changes: kind and state of the drop
    revoked,        \* the drop of the token's revocation, "no" before it
    sequence,       \* the last stream sequence of the bucket
    bucket,         \* the entry of the principal's key; revision 0: none
    identity,       \* the revision of the identity key; 0: none
    watch,          \* per host: "open", "unset", "closed" or "watching"
    queue,          \* per host: entries its watch has not applied
    markers,        \* per host: identity markers its watch has not applied
    entry,          \* per host: the replica of the principal's key
    token,          \* per host: whether it keeps the token answer
    seenIdentity,   \* per host: Tokens.identity_revision
    request,        \* per request: where its read stands
    breaks,         \* the lost connections so far
    missed          \* per host: an unseen reconnect lost messages

facts == <<changes, revoked>>
kv == <<sequence, bucket, identity>>
deliveries == <<queue, markers>>
replica == <<entry, token, seenIdentity>>
faults == <<breaks, missed>>
vars == <<changes, revoked, sequence, bucket, identity, watch, queue, markers,
          entry, token, seenIdentity, request, breaks, missed>>

NoEntry == [revision |-> 0, answer |-> Deleted]
Unkept == [revision |-> 0, answer |-> Deleted, live |-> FALSE]
Idle == [phase |-> "idle", reads |-> "grants", ticket |-> 0, since |-> 0,
         answer |-> Deleted, revision |-> 0]

Fact == Len(changes)
Revocations == IF revoked = "no" THEN 0 ELSE 1

(***************************************************************************)
(* A host starts without the bucket and with an empty memory.              *)
(***************************************************************************)
Init ==
    /\ changes = <<>>
    /\ revoked = "no"
    /\ sequence = 0
    /\ bucket = NoEntry
    /\ identity = 0
    /\ watch = [h \in Hosts |-> "closed"]
    /\ queue = [h \in Hosts |-> <<>>]
    /\ markers = [h \in Hosts |-> <<>>]
    /\ entry = [h \in Hosts |-> Unkept]
    /\ token = [h \in Hosts |-> FALSE]
    /\ seenIdentity = [h \in Hosts |-> 0]
    /\ request = [r \in Requests |-> Idle]
    /\ breaks = 0
    /\ missed = [h \in Hosts |-> FALSE]

-----------------------------------------------------------------------------
(***************************************************************************)
(* The bucket.  It keeps one value per key (history 1) and pushes each new *)
(* one to the watches that have a consumer.                                *)
(***************************************************************************)
Consumes(h) == watch[h] \in {"open", "watching"}

Pushed(deliver, message) ==
    [h \in Hosts |->
        IF Consumes(h) THEN Append(deliver[h], message) ELSE deliver[h]]

Write(answer) ==
    /\ sequence < MaxRevision
    /\ sequence' = sequence + 1
    /\ bucket' = [revision |-> sequence + 1, answer |-> answer]
    /\ queue' = Pushed(queue, bucket')
    /\ UNCHANGED <<identity, markers>>

-----------------------------------------------------------------------------
(***************************************************************************)
(* The writers.  A transaction commits a change of the user row or of the  *)
(* user roles of the principal ("principal") or of a role, a permission or *)
(* the environment status ("tenant"); its caller publishes the drop after  *)
(* the commit.                                                             *)
(***************************************************************************)
CommitChange(kind) ==
    /\ Fact < MaxChanges - Revocations
    /\ changes' = Append(changes, [kind |-> kind, drop |-> "pending"])
    /\ UNCHANGED <<revoked, kv, watch, deliveries, replica, request, faults>>

SetDrop(c, drop) == changes' = [changes EXCEPT ![c].drop = drop]

\* Deletion::Key: one marker, whether or not the key exists.
DropKey(c) ==
    /\ changes[c] = [kind |-> "principal", drop |-> "pending"]
    /\ SetDrop(c, "done")
    /\ Write(Deleted)
    /\ UNCHANGED <<revoked, watch, replica, request, faults>>

(***************************************************************************)
(* Deletion::Under lists the keys that exist, markers included, and then   *)
(* deletes each of them.                                                   *)
(***************************************************************************)
DropLists(c) ==
    /\ changes[c] = [kind |-> "tenant", drop |-> "pending"]
    /\ SetDrop(c, IF bucket.revision = 0 THEN "unmarked" ELSE "listed")
    /\ UNCHANGED <<revoked, kv, watch, deliveries, replica, request, faults>>

DropListed(c) ==
    /\ changes[c].drop = "listed"
    /\ SetDrop(c, "done")
    /\ Write(Deleted)
    /\ UNCHANGED <<revoked, watch, replica, request, faults>>

\* The writer has no NATS, dies, or fails to open, to list or to delete.
DropLost(c) ==
    /\ changes[c].drop \in {"pending", "listed"}
    /\ SetDrop(c, "lost")
    /\ UNCHANGED <<revoked, kv, watch, deliveries, replica, request, faults>>

\* A PAT revoke, a logout, a reset, a membership revoke or a disable.
Revoke ==
    /\ revoked = "no"
    /\ Fact < MaxChanges
    /\ revoked' = "pending"
    /\ UNCHANGED <<changes, kv, watch, deliveries, replica, request, faults>>

DropIdentity ==
    /\ revoked = "pending"
    /\ sequence < MaxRevision
    /\ revoked' = "done"
    /\ sequence' = sequence + 1
    /\ identity' = sequence + 1
    /\ markers' = Pushed(markers, sequence + 1)
    /\ UNCHANGED <<changes, bucket, watch, queue, replica, request, faults>>

DropIdentityLost ==
    /\ revoked = "pending"
    /\ revoked' = "lost"
    /\ UNCHANGED <<changes, kv, watch, deliveries, replica, request, faults>>

-----------------------------------------------------------------------------
(***************************************************************************)
(* The replica of a host.                                                  *)
(***************************************************************************)
HasBucket(h) == watch[h] = "open"

\* KvMemory::ticket, and the ticket that KvMemory::answer returns.
Ticket(h) == IF entry[h].live THEN entry[h].revision ELSE 0

\* KvMemory::replaced
Replaced(h, ticket) ==
    IF entry[h].live /\ entry[h].revision = ticket
    THEN entry[h].answer
    ELSE Deleted

\* A replica that keeps what it is given, whatever it holds.
KeepEntryAnyRevision(h, revision, answer) ==
    IF HasBucket(h)
    THEN [revision |-> revision, answer |-> answer, live |-> TRUE]
    ELSE entry[h]

(***************************************************************************)
(* KvMemory::keep_entry: nothing without the bucket, and nothing older     *)
(* than what the replica holds.                                            *)
(***************************************************************************)
KeepEntry(h, revision, answer) ==
    IF HasBucket(h) /\ revision >= entry[h].revision
    THEN [revision |-> revision, answer |-> answer, live |-> TRUE]
    ELSE entry[h]

\* The age of the entry passes the TTL: nothing reads its answer any more.
ReplicaExpires(h) ==
    /\ entry[h].live
    /\ entry' = [entry EXCEPT ![h].live = FALSE, ![h].answer = Deleted]
    /\ UNCHANGED <<facts, kv, watch, deliveries, token, seenIdentity, request,
                   faults>>

TokenExpires(h) ==
    /\ token[h]
    /\ token' = [token EXCEPT ![h] = FALSE]
    /\ UNCHANGED <<facts, kv, watch, deliveries, entry, seenIdentity, request,
                   faults>>

(***************************************************************************)
(* max_age of the bucket.  A request that began before the entry was       *)
(* written has ended by then.                                              *)
(***************************************************************************)
BeganSince(revision) ==
    \A r \in Requests :
        request[r].phase = "idle" \/ request[r].since >= revision

BucketExpires ==
    /\ bucket.revision # 0
    /\ BeganSince(bucket.revision)
    /\ bucket' = NoEntry
    /\ UNCHANGED <<facts, sequence, identity, watch, deliveries, replica, request,
                   faults>>

IdentityExpires ==
    /\ identity # 0
    /\ BeganSince(identity)
    /\ identity' = 0
    /\ UNCHANGED <<facts, sequence, bucket, watch, deliveries, replica, request,
                   faults>>

-----------------------------------------------------------------------------
(***************************************************************************)
(* A request that reads the grants (principal_grants), the user row        *)
(* (require_provisioned_principal) or the token (route_authentication.rs). *)
(* AuthCache::grants answers only from grants of a user row that exists.   *)
(***************************************************************************)
Hit(h, what) ==
    CASE what = "grants" -> entry[h].live /\ entry[h].answer.grants \in Present
      [] what = "provisioned" ->
             entry[h].live /\ entry[h].answer.provisioned # None
      [] what = "token" -> token[h]

Miss(r, what) ==
    LET h == HostOf[r] IN
    /\ request[r].phase = "idle"
    /\ ~Hit(h, what)
    /\ request' = [request EXCEPT ![r] =
           [Idle EXCEPT !.phase = "miss", !.reads = what, !.since = sequence,
                        !.ticket = IF what = "token" THEN seenIdentity[h]
                                                     ELSE Ticket(h)]]
    /\ UNCHANGED <<facts, kv, watch, deliveries, replica, faults>>

\* The read of an absent user row or of a revoked token refuses the request.
Refused(what) ==
    \/ what = "provisioned" /\ Fact \notin Present
    \/ what = "token" /\ revoked # "no"

Query(r) ==
    /\ request[r].phase = "miss"
    /\ request' = [request EXCEPT ![r] =
           IF Refused(@.reads)
           THEN Idle
           ELSE [@ EXCEPT !.phase = "read", !.answer.grants =
                     IF request[r].reads = "token" THEN None ELSE Fact]]
    /\ UNCHANGED <<facts, kv, watch, deliveries, replica, faults>>

(***************************************************************************)
(* The answer that keep_grants and keep_provisioned put: what was read and *)
(* the other half of the answer that it replaces.                          *)
(***************************************************************************)
Kept(r) ==
    LET read == request[r].answer.grants
        before == Replaced(HostOf[r], request[r].ticket)
    IN IF request[r].reads = "grants"
       THEN [grants |-> read,
             provisioned |->
                 IF read \in Present THEN read ELSE before.provisioned]
       ELSE [grants |-> before.grants, provisioned |-> read]

\* keep_grants and keep_provisioned up to the request to the bucket.
Keep(r) ==
    /\ request[r].phase = "read"
    /\ request[r].reads # "token"
    /\ request' = [request EXCEPT ![r] =
           IF HasBucket(HostOf[r])
           THEN [@ EXCEPT !.phase = "put", !.answer = Kept(r)]
           ELSE Idle]
    /\ UNCHANGED <<facts, kv, watch, deliveries, replica, faults>>

\* The bucket has the revision of the ticket and takes the put.
UpdateAccepts(r) ==
    /\ request[r].phase = "put"
    /\ bucket.revision = request[r].ticket
    /\ Write(request[r].answer)
    /\ request' = [request EXCEPT ![r].phase = "accepted",
                                  ![r].revision = sequence + 1]
    /\ UNCHANGED <<facts, watch, replica, faults>>

\* WrongLastRevision, another error, or the timeout before the bucket's turn.
UpdateFails(r) ==
    /\ request[r].phase = "put"
    /\ request' = [request EXCEPT ![r] = Idle]
    /\ UNCHANGED <<facts, kv, watch, deliveries, replica, faults>>

\* The answer of the bucket reaches the host.
PutReturns(r) ==
    LET h == HostOf[r] IN
    /\ request[r].phase = "accepted"
    /\ entry' = [entry EXCEPT ![h] =
           KeepEntry(h, request[r].revision, request[r].answer)]
    /\ request' = [request EXCEPT ![r] = Idle]
    /\ UNCHANGED <<facts, kv, watch, deliveries, token, seenIdentity,
                   faults>>

\* The answer of the bucket comes after PUT_TIMEOUT.
PutTimesOut(r) ==
    /\ request[r].phase = "accepted"
    /\ request' = [request EXCEPT ![r] = Idle]
    /\ UNCHANGED <<facts, kv, watch, deliveries, replica, faults>>

\* A host that keeps the token answer of a read whatever changed during it.
TokenStandsAlways(r) == HasBucket(HostOf[r])

\* No identity key changed during the read, as far as the host has seen.
TokenStands(r) ==
    /\ HasBucket(HostOf[r])
    /\ seenIdentity[HostOf[r]] = request[r].ticket

\* AuthCache::keep_token
KeepToken(r) ==
    /\ request[r].phase = "read"
    /\ request[r].reads = "token"
    /\ token' = [token EXCEPT ![HostOf[r]] = @ \/ TokenStands(r)]
    /\ request' = [request EXCEPT ![r] = Idle]
    /\ UNCHANGED <<facts, kv, watch, deliveries, entry, seenIdentity, faults>>

-----------------------------------------------------------------------------
(***************************************************************************)
(* The watch of a host.  Each consumer starts with the last value of its   *)
(* keys; the memory is cleared and given the bucket after that.            *)
(***************************************************************************)
WatchStarts(h) ==
    /\ watch[h] = "closed"
    /\ watch' = [watch EXCEPT ![h] = "watching"]
    /\ queue' = [queue EXCEPT ![h] =
           IF bucket.revision = 0 THEN <<>> ELSE <<bucket>>]
    /\ markers' = [markers EXCEPT ![h] =
           IF identity = 0 THEN <<>> ELSE <<identity>>]
    /\ UNCHANGED <<facts, kv, replica, request, faults>>

Cleared(h) ==
    /\ entry' = [entry EXCEPT ![h] = Unkept]
    /\ token' = [token EXCEPT ![h] = FALSE]

WatchOpens(h) ==
    /\ watch[h] = "watching"
    /\ watch' = [watch EXCEPT ![h] = "open"]
    /\ Cleared(h)
    /\ UNCHANGED <<facts, kv, deliveries, seenIdentity, request, faults>>

\* AuthCache::apply of an entry of the tenant.
Apply(h) ==
    /\ watch[h] = "open"
    /\ queue[h] # <<>>
    /\ entry' = [entry EXCEPT ![h] =
           KeepEntry(h, Head(queue[h]).revision, Head(queue[h]).answer)]
    /\ queue' = [queue EXCEPT ![h] = Tail(@)]
    /\ UNCHANGED <<facts, kv, watch, markers, token, seenIdentity, request, faults>>

\* AuthCache::apply of an identity marker.
ApplyIdentity(h) ==
    /\ watch[h] = "open"
    /\ markers[h] # <<>>
    /\ seenIdentity' = [seenIdentity EXCEPT ![h] =
           IF Head(markers[h]) > @ THEN Head(markers[h]) ELSE @]
    /\ token' = [token EXCEPT ![h] = FALSE]
    /\ markers' = [markers EXCEPT ![h] = Tail(@)]
    /\ UNCHANGED <<facts, kv, watch, queue, entry, request, faults>>

(***************************************************************************)
(* The stream ends, or a tick finds the connection lost: the watch returns *)
(* and spawn_watch takes the bucket away, then clears the memory.          *)
(***************************************************************************)
WatchBreaks(h) ==
    /\ watch[h] = "open"
    /\ breaks < MaxBreaks
    /\ breaks' = breaks + 1
    /\ watch' = [watch EXCEPT ![h] = "unset"]
    /\ queue' = [queue EXCEPT ![h] = <<>>]
    /\ markers' = [markers EXCEPT ![h] = <<>>]
    /\ UNCHANGED <<facts, kv, replica, request, missed>>

WatchClears(h) ==
    /\ watch[h] = "unset"
    /\ watch' = [watch EXCEPT ![h] = "closed"]
    /\ Cleared(h)
    /\ missed' = [missed EXCEPT ![h] = FALSE]
    /\ UNCHANGED <<facts, kv, deliveries, seenIdentity, request, breaks>>

(***************************************************************************)
(* The client loses its connection and has it back before the next tick.   *)
(* The consumer acknowledges nothing, so what was on its way is gone.      *)
(***************************************************************************)
LinkBlips(h) ==
    /\ watch[h] = "open"
    /\ breaks < MaxBreaks
    /\ breaks' = breaks + 1
    /\ queue[h] \o markers[h] # <<>>
    /\ queue' = [queue EXCEPT ![h] = <<>>]
    /\ markers' = [markers EXCEPT ![h] = <<>>]
    /\ missed' = [missed EXCEPT ![h] = TRUE]
    /\ UNCHANGED <<facts, kv, watch, replica, request>>

-----------------------------------------------------------------------------
Writers ==
    \/ \E kind \in Kinds : CommitChange(kind)
    \/ \E c \in 1 .. Fact :
           DropKey(c) \/ DropLists(c) \/ DropListed(c) \/ DropLost(c)
    \/ Revoke
    \/ DropIdentity
    \/ DropIdentityLost

Reads ==
    \E r \in Requests :
        \/ \E what \in ReadsOf[r] : Miss(r, what)
        \/ Query(r) \/ Keep(r) \/ KeepToken(r)
        \/ UpdateAccepts(r) \/ UpdateFails(r)
        \/ PutReturns(r) \/ PutTimesOut(r)

Watches ==
    \E h \in Hosts :
        \/ WatchStarts(h) \/ WatchOpens(h)
        \/ Apply(h) \/ ApplyIdentity(h)
        \/ WatchBreaks(h) \/ WatchClears(h) \/ LinkBlips(h)

Expires ==
    \/ BucketExpires
    \/ IdentityExpires
    \/ \E h \in Hosts : ReplicaExpires(h) \/ TokenExpires(h)

Next == Writers \/ Reads \/ Watches \/ Expires

Spec == Init /\ [][Next]_vars

-----------------------------------------------------------------------------
Drops == {"pending", "listed", "done", "lost", "unmarked"}
Revisions == 0 .. MaxRevision
Changes == [kind : Kinds, drop : Drops]
Messages == [revision : Revisions, answer : Answers]
Entries == [revision : Revisions, answer : Answers, live : BOOLEAN]
RequestStates ==
    [phase : {"idle", "miss", "read", "put", "accepted"},
     reads : {"grants", "provisioned", "token"}, ticket : Revisions,
     since : Revisions, answer : Answers, revision : Revisions]

FactTypes ==
    /\ changes \in Seq(Changes) /\ Fact \in Versions
    /\ revoked \in {"no", "pending", "done", "lost"}
BucketTypes ==
    /\ sequence \in Revisions /\ bucket \in Messages /\ identity \in Revisions
WatchTypes ==
    /\ watch \in [Hosts -> {"open", "unset", "closed", "watching"}]
    /\ queue \in [Hosts -> Seq(Messages)] /\ markers \in [Hosts -> Seq(Revisions)]
    /\ breaks \in 0 .. MaxBreaks /\ missed \in [Hosts -> BOOLEAN]
ReplicaTypes ==
    /\ entry \in [Hosts -> Entries] /\ token \in [Hosts -> BOOLEAN]
    /\ seenIdentity \in [Hosts -> Revisions]

\* The types of the variables (auth_cache.rs, kv_memory.rs).
TypeOK ==
    /\ FactTypes /\ BucketTypes /\ WatchTypes /\ ReplicaTypes
    /\ request \in [Requests -> RequestStates]

\* Messages to h were lost: the clear is due, or nobody saw it.
Unheard(h) == watch[h] = "unset" \/ missed[h]

(***************************************************************************)
(* Why the host h may still answer from an answer that change c outdates:  *)
(* the drop of c is outstanding, or a message with a later revision than   *)
(* the answer is on its way to h, or it was lost on that way.              *)
(***************************************************************************)
Underway(h, c, excused) ==
    \/ changes[c].drop \in {"pending", "listed"} \cup excused
    \/ \E i \in 1 .. Len(queue[h]) : queue[h][i].revision > entry[h].revision
    \/ Unheard(h)

Fresh(h, v, excused) ==
    (entry[h].live /\ v # None) => \A c \in v + 1 .. Fact : Underway(h, c, excused)

AnswersFresh(excused) ==
    \A h \in Hosts : /\ Fresh(h, entry[h].answer.grants, excused)
                     /\ Fresh(h, entry[h].answer.provisioned, excused)

(***************************************************************************)
(* The drop of a change of the principal ends every older answer: whatever *)
(* requests read before the commit and put after it, and however the       *)
(* watches break, the grants and the user row a host answers from are      *)
(* older than a change only while its drop or its marker is on its way, or *)
(* when one was lost, or when a tenant-wide drop found no key to mark      *)
(* (KvMemory::put with the ticket, keep_entry, the watch).                 *)
(***************************************************************************)
GrantsFresh == AnswersFresh({"lost", "unmarked"})

(***************************************************************************)
(* A host answers a revoked token from its memory only while the drop or   *)
(* its marker is on its way or was lost (AuthCache::keep_token and apply). *)
(***************************************************************************)
TokensFresh ==
    \A h \in Hosts :
        token[h] => \/ revoked # "done"
                    \/ markers[h] # <<>>
                    \/ Unheard(h)

(***************************************************************************)
(* What the comments of the memory say of every drop: one that was not     *)
(* lost refuses the put of a read that began before it, so an answer is    *)
(* older than a change only while the drop is on its way or was lost.      *)
(***************************************************************************)
DeleteRefusesPut == AnswersFresh({"lost"})
=============================================================================
