--------------------------- MODULE AuthMemoryProofs ---------------------------
(***************************************************************************)
(* Proofs about AuthMemory, for every number of hosts, requests, changes,  *)
(* revisions and broken watches: no host answers from grants, a user row   *)
(* or a token that a published drop ended, once the marker has reached it. *)
(*                                                                         *)
(* The invariant is one predicate per host and one per request, of values: *)
(* a step of one host or request then leaves those of the others alone.    *)
(***************************************************************************)
EXTENDS AuthMemory, SequenceTheorems, TLAPS

-----------------------------------------------------------------------------
(* The inductive invariant of the answers.                                  *)

\* A change of ch whose drop was published outdates the version v.
Outdated(ch, v) ==
    v # None /\ \E c \in 1 .. Len(ch) : v < c /\ ch[c].drop = "done"
Stale(ch, answer) ==
    Outdated(ch, answer.grants) \/ Outdated(ch, answer.provisioned)

\* One revision is one answer: b is what the bucket holds.
Same(b, revision, answer) == b.revision = revision => b.answer = answer

\* A message of q has a later revision than n.
Coming(q, n) == \E i \in 1 .. Len(q) : q[i].revision > n

\* The bucket holds nothing that a published drop outdates.
BucketGood(ch, seq, b) == b.revision <= seq /\ ~Stale(ch, b.answer)

\* The messages on their way to a host: an outdated one has a later one behind
\* it.
QueueGood(ch, seq, b, q) ==
    /\ \A i \in 1 .. Len(q) :
           /\ 1 <= q[i].revision /\ q[i].revision <= seq
           /\ Same(b, q[i].revision, q[i].answer)
    /\ \A i \in 1 .. Len(q) : Stale(ch, q[i].answer) =>
           \E j \in (i + 1) .. Len(q) : q[j].revision > q[i].revision

\* The replica e of a host in state w: an outdated answer has a message coming,
\* and the host has seen what the bucket holds, or will, or lost a message.
EntryGood(ch, seq, b, w, q, e, lost) ==
    /\ e.revision <= seq
    /\ e.live => 1 <= e.revision /\ Same(b, e.revision, e.answer)
    /\ w \in {"closed", "watching"} => e = Unkept
    /\ w \in {"closed", "unset"} => q = <<>>
    /\ (e.live /\ Stale(ch, e.answer)) => Coming(q, e.revision) \/ w = "unset" \/ lost
    /\ w \in {"open", "watching"} =>
           \/ b.revision <= e.revision
           \/ \E i \in 1 .. Len(q) : b.revision <= q[i].revision
           \/ lost

\* A request q: the bucket refuses the put of an outdated answer, now and
\* later, and has replaced one that it accepted.
RequestGood(ch, seq, b, q) ==
    /\ q.ticket <= q.since /\ q.since <= seq /\ q.revision <= seq
    /\ q.phase = "miss" => q.answer = Deleted
    /\ (q.phase \in {"read", "put"} /\ Stale(ch, q.answer)) =>
           \/ q.since < b.revision
           \/ q.ticket # 0 /\ b.revision # q.ticket
    /\ q.phase = "accepted" =>
           /\ q.since < q.revision /\ Same(b, q.revision, q.answer)
           /\ Stale(ch, q.answer) => q.revision < b.revision

AnswerInv ==
    /\ BucketGood(changes, sequence, bucket)
    /\ \A h \in Hosts :
           /\ QueueGood(changes, sequence, bucket, queue[h])
           /\ EntryGood(changes, sequence, bucket, watch[h], queue[h], entry[h], missed[h])
    /\ \A r \in Requests : RequestGood(changes, sequence, bucket, request[r])

-----------------------------------------------------------------------------
(* The inductive invariant of the tokens.                                   *)

\* A host in state w: it keeps no token answer without the bucket, it has seen
\* the marker of the identity key, or will, or lost a message, and while it
\* keeps the answer the marker of the revocation has not reached it.
TokenGood(rev, seq, id, w, m, kept, seen, lost) ==
    /\ seen <= seq /\ \A i \in 1 .. Len(m) : m[i] <= seq
    /\ w \in {"closed", "watching"} => ~kept
    /\ w \in {"open", "watching"} =>
           id <= seen \/ (\E i \in 1 .. Len(m) : m[i] = id) \/ lost
    /\ kept => rev # "done" \/ m # <<>> \/ w = "unset" \/ lost

\* A read of the token that began before the revocation holds the marker in
\* the bucket.
ReadGood(rev, seq, id, q) ==
    /\ q.ticket <= q.since /\ q.since <= seq
    /\ (q.phase = "read" /\ q.reads = "token" /\ rev = "done") => q.since < id

TokenInv ==
    /\ identity <= sequence
    /\ \A h \in Hosts :
           TokenGood(revoked, sequence, identity, watch[h], markers[h], token[h],
                     seenIdentity[h], missed[h])
    /\ \A r \in Requests : ReadGood(revoked, sequence, identity, request[r])

Inv == TypeOK /\ AnswerInv /\ TokenInv
-----------------------------------------------------------------------------
(* Values.                                                                  *)

LEMMA RevisionsAreNumbers == Revisions \subseteq Nat /\ None \in Nat /\ MaxRevision \in Nat
BY BoundsAssumption DEF Revisions, None

LEMMA MessageForm ==
  ASSUME NEW b \in Messages
  PROVE  b.revision \in Nat /\ b.answer \in Answers
BY RevisionsAreNumbers DEF Messages

LEMMA QueueForm ==
  ASSUME NEW q \in Seq(Messages)
  PROVE  Len(q) \in Nat /\ \A i \in 1 .. Len(q) : q[i] \in Messages /\ q[i].revision \in Nat
<1>1. Len(q) \in Nat /\ \A i \in 1 .. Len(q) : q[i] \in Messages
  OBVIOUS
<1> QED  BY <1>1, MessageForm

LEMMA EntryForm ==
  ASSUME NEW e \in Entries
  PROVE  e.revision \in Nat /\ e.live \in BOOLEAN /\ e.answer \in Answers
BY RevisionsAreNumbers DEF Entries

LEMMA RequestForm ==
  ASSUME NEW q \in RequestStates
  PROVE  /\ q.ticket \in Nat /\ q.since \in Nat /\ q.revision \in Nat /\ q.answer \in Answers
         /\ q.phase \in {"idle", "miss", "read", "put", "accepted"}
BY RevisionsAreNumbers DEF RequestStates

LEMMA AnswerForms == Deleted \in Answers /\ NoEntry \in Messages /\ Unkept \in Entries
                     /\ Idle \in RequestStates
<1>1. Deleted \in Answers
  BY DEF Deleted, Answers
<1>2. 0 \in Revisions
  BY RevisionsAreNumbers DEF Revisions
<1>3. NoEntry \in Messages /\ Unkept \in Entries
  BY <1>1, <1>2 DEF NoEntry, Messages, Unkept, Entries
<1>4. Idle \in RequestStates
  BY <1>1, <1>2 DEF Idle, RequestStates
<1> QED  BY <1>1, <1>3, <1>4

LEMMA DeletedIsFresh ==
  ASSUME NEW ch
  PROVE  ~Stale(ch, Deleted)
BY DEF Stale, Outdated, Deleted

-----------------------------------------------------------------------------
(* What the predicates keep, as values change.                              *)

\* A new value in the bucket is pushed to every host that consumes.
LEMMA QueueWrites ==
  ASSUME NEW ch, NEW ch2, NEW seq \in Nat, NEW b, NEW b2 \in Messages, NEW q \in Seq(Messages),
         QueueGood(ch, seq, b, q), b2.revision = seq + 1, ~Stale(ch2, b2.answer)
  PROVE  QueueGood(ch2, seq + 1, b2, Append(q, b2))
<1>1. Len(q) \in Nat /\ \A i \in 1 .. Len(q) : q[i].revision \in Nat
  BY QueueForm
<1>2. PICK q2 : q2 = Append(q, b2)
  OBVIOUS
<1>3. Len(q2) = Len(q) + 1 /\ q2[Len(q) + 1] = b2 /\ \A i \in 1 .. Len(q) : q2[i] = q[i]
  BY <1>2
<1>4. \A i \in 1 .. Len(q) : 1 <= q[i].revision /\ q[i].revision <= seq
  BY DEF QueueGood
<1>5. ASSUME NEW i \in 1 .. Len(q2)
      PROVE  /\ 1 <= q2[i].revision /\ q2[i].revision <= seq + 1
             /\ Same(b2, q2[i].revision, q2[i].answer)
             /\ Stale(ch2, q2[i].answer) =>
                    \E j \in (i + 1) .. Len(q2) : q2[j].revision > q2[i].revision
  <2>1. CASE i \in 1 .. Len(q)
    <3>1. q2[i].revision \in Nat /\ 1 <= q2[i].revision /\ q2[i].revision <= seq
      BY <1>1, <1>3, <1>4, <2>1
    <3>2. Same(b2, q2[i].revision, q2[i].answer)
      BY <3>1 DEF Same
    <3>3. (Len(q) + 1) \in (i + 1) .. Len(q2) /\ q2[Len(q) + 1].revision > q2[i].revision
      BY <1>1, <1>3, <2>1, <3>1
    <3> QED  BY <3>1, <3>2, <3>3
  <2>2. CASE i = Len(q) + 1
    BY <1>3, <2>2 DEF Same
  <2> QED  BY <1>1, <1>3, <2>1, <2>2
<1> QED  BY <1>2, <1>5 DEF QueueGood

LEMMA EntryWrites ==
  ASSUME NEW ch, NEW ch2, NEW seq \in Nat, NEW b, NEW b2 \in Messages, NEW w, NEW q \in Seq(Messages),
         NEW e \in Entries, NEW lost, EntryGood(ch, seq, b, w, q, e, lost),
         b2.revision = seq + 1, w \in {"open", "watching"}
  PROVE  EntryGood(ch2, seq + 1, b2, w, Append(q, b2), e, lost)
<1>1. e.revision \in Nat /\ Len(q) \in Nat
  BY EntryForm, QueueForm
<1>2. PICK q2 : q2 = Append(q, b2)
  OBVIOUS
<1>3. Len(q2) = Len(q) + 1 /\ q2[Len(q) + 1] = b2
  BY <1>2
<1>4. e.revision <= seq
  BY DEF EntryGood
<1>5. Coming(q2, e.revision) /\ \E i \in 1 .. Len(q2) : b2.revision <= q2[i].revision
  <2>1. (Len(q) + 1) \in 1 .. Len(q2) /\ q2[Len(q) + 1].revision > e.revision
    BY <1>1, <1>3, <1>4
  <2> QED  BY <1>3, <2>1 DEF Coming
<1>6. Same(b2, e.revision, e.answer)
  BY <1>1, <1>4 DEF Same
<1>7. EntryGood(ch2, seq + 1, b2, w, q2, e, lost)
  BY <1>1, <1>4, <1>5, <1>6 DEF EntryGood
<1> QED  BY <1>2, <1>7

\* A host that does not consume misses it.
LEMMA EntryMisses ==
  ASSUME NEW ch, NEW ch2, NEW seq \in Nat, NEW b, NEW b2, NEW w, NEW q,
         NEW e \in Entries, NEW lost, EntryGood(ch, seq, b, w, q, e, lost),
         b2.revision = seq + 1, w \in {"closed", "unset"}
  PROVE  /\ EntryGood(ch2, seq + 1, b2, w, q, e, lost)
         /\ QueueGood(ch2, seq + 1, b2, q)
<1>1. e.revision \in Nat /\ e.revision <= seq /\ q = <<>>
  BY EntryForm DEF EntryGood
<1>2. Same(b2, e.revision, e.answer)
  BY <1>1 DEF Same
<1>3. e = Unkept => ~e.live
  BY DEF Unkept
<1>4. EntryGood(ch2, seq + 1, b2, w, q, e, lost)
  BY <1>1, <1>2, <1>3 DEF EntryGood
<1>5. QueueGood(ch2, seq + 1, b2, q)
  BY <1>1 DEF QueueGood
<1> QED  BY <1>4, <1>5

LEMMA RequestWrites ==
  ASSUME NEW ch, NEW ch2, NEW seq \in Nat, NEW b, NEW b2, NEW q \in RequestStates,
         RequestGood(ch, seq, b, q), b2.revision = seq + 1
  PROVE  RequestGood(ch2, seq + 1, b2, q)
<1>1. q.ticket \in Nat /\ q.since \in Nat /\ q.revision \in Nat
  BY RequestForm
<1>2. q.ticket <= q.since /\ q.since <= seq /\ q.revision <= seq
  BY DEF RequestGood
<1>3. Same(b2, q.revision, q.answer) /\ q.revision < b2.revision /\ q.since < b2.revision
  BY <1>1, <1>2 DEF Same
<1>4. q.since <= seq + 1 /\ q.revision <= seq + 1
  BY <1>1, <1>2
<1> QED  BY <1>2, <1>3, <1>4 DEF RequestGood

\* The entry of the bucket expires: no request that began before it is left.
LEMMA BucketForgets ==
  ASSUME NEW ch, NEW seq \in Nat, NEW b \in Messages, NEW q \in Seq(Messages), NEW e \in Entries,
         NEW w, NEW lost, QueueGood(ch, seq, b, q), EntryGood(ch, seq, b, w, q, e, lost)
  PROVE  QueueGood(ch, seq, NoEntry, q) /\ EntryGood(ch, seq, NoEntry, w, q, e, lost)
<1>1. e.revision \in Nat
  BY EntryForm
<1>2. e.live => Same(NoEntry, e.revision, e.answer)
  BY <1>1 DEF EntryGood, Same, NoEntry
<1>3. \A i \in 1 .. Len(q) : Same(NoEntry, q[i].revision, q[i].answer)
  BY QueueForm DEF QueueGood, Same, NoEntry
<1>4. NoEntry.revision <= e.revision
  BY <1>1 DEF NoEntry
<1>5. QueueGood(ch, seq, NoEntry, q)
  BY <1>3 DEF QueueGood
<1>6. EntryGood(ch, seq, NoEntry, w, q, e, lost)
  BY <1>2, <1>4 DEF EntryGood
<1> QED  BY <1>5, <1>6

LEMMA RequestForgets ==
  ASSUME NEW ch, NEW seq \in Nat, NEW b \in Messages, NEW q \in RequestStates,
         RequestGood(ch, seq, b, q), q.phase = "idle" \/ q.since >= b.revision
  PROVE  RequestGood(ch, seq, NoEntry, q)
<1>1. q.ticket \in Nat /\ q.since \in Nat /\ q.revision \in Nat /\ b.revision \in Nat
  BY RequestForm, MessageForm
<1>2. (q.phase \in {"read", "put"} /\ Stale(ch, q.answer)) => q.ticket # 0 /\ NoEntry.revision # q.ticket
  <2>1. (q.phase \in {"read", "put"} /\ Stale(ch, q.answer)) => q.ticket # 0
    BY <1>1 DEF RequestGood
  <2> QED  BY <2>1 DEF NoEntry
<1>3. q.phase = "accepted" =>
          /\ q.since < q.revision /\ Same(NoEntry, q.revision, q.answer) /\ ~Stale(ch, q.answer)
  <2>1. ASSUME q.phase = "accepted"  PROVE q.since < q.revision /\ ~Stale(ch, q.answer)
    <3>1. q.since < q.revision /\ (Stale(ch, q.answer) => q.revision < b.revision)
      BY <2>1 DEF RequestGood
    <3>2. q.since >= b.revision
      BY <2>1
    <3> QED  BY <1>1, <3>1, <3>2
  <2>2. q.since < q.revision => Same(NoEntry, q.revision, q.answer)
    BY <1>1 DEF Same, NoEntry
  <2> QED  BY <2>1, <2>2
<1> QED  BY <1>2, <1>3 DEF RequestGood

LEMMA IdleIsGood ==
  ASSUME NEW ch, NEW seq \in Nat, NEW b
  PROVE  RequestGood(ch, seq, b, Idle)
BY DEF RequestGood, Idle


\* A host without the bucket whose memory was cleared.
LEMMA UnkeptIsGood ==
  ASSUME NEW ch, NEW seq \in Nat, NEW b, NEW lost
  PROVE  QueueGood(ch, seq, b, <<>>) /\ EntryGood(ch, seq, b, "closed", <<>>, Unkept, lost)
BY DEF QueueGood, EntryGood, Unkept

\* A change that is not yet published outdates nothing more.
LEMMA FewerStale ==
  ASSUME NEW ch, NEW ch2, \A a : Stale(ch2, a) => Stale(ch, a), NEW seq, NEW b
  PROVE  /\ BucketGood(ch, seq, b) => BucketGood(ch2, seq, b)
         /\ \A q : QueueGood(ch, seq, b, q) => QueueGood(ch2, seq, b, q)
         /\ \A w, q, e, lost : EntryGood(ch, seq, b, w, q, e, lost) => EntryGood(ch2, seq, b, w, q, e, lost)
         /\ \A q : RequestGood(ch, seq, b, q) => RequestGood(ch2, seq, b, q)
<1>1. BucketGood(ch, seq, b) => BucketGood(ch2, seq, b)
  BY DEF BucketGood
<1>2. ASSUME NEW q, QueueGood(ch, seq, b, q)  PROVE QueueGood(ch2, seq, b, q)
  BY <1>2 DEF QueueGood
<1>3. ASSUME NEW w, NEW q, NEW e, NEW lost, EntryGood(ch, seq, b, w, q, e, lost)
      PROVE  EntryGood(ch2, seq, b, w, q, e, lost)
  BY <1>3 DEF EntryGood
<1>4. ASSUME NEW q, RequestGood(ch, seq, b, q)  PROVE RequestGood(ch2, seq, b, q)
  BY <1>4 DEF RequestGood
<1> QED  BY <1>1, <1>2, <1>3, <1>4

-----------------------------------------------------------------------------
(* The steps of the watch of a host, on the values of the host.             *)

LEMMA EntryStarts ==
  ASSUME NEW ch, NEW seq \in Nat, NEW b \in Messages, NEW q, NEW e, NEW lost, NEW q2,
         BucketGood(ch, seq, b), EntryGood(ch, seq, b, "closed", q, e, lost),
         q2 = IF b.revision = 0 THEN <<>> ELSE <<b>>
  PROVE  QueueGood(ch, seq, b, q2) /\ EntryGood(ch, seq, b, "watching", q2, e, lost)
<1>1. b.revision \in Nat /\ b.revision <= seq /\ ~Stale(ch, b.answer)
  BY MessageForm DEF BucketGood
<1>2. e = Unkept /\ ~Unkept.live /\ Unkept.revision = 0
  BY DEF EntryGood, Unkept
<1>3. CASE b.revision = 0
  <2>1. q2 = <<>>
    BY <1>3
  <2> QED  BY <1>1, <1>2, <1>3, <2>1 DEF QueueGood, EntryGood
<1>4. CASE b.revision # 0
  <2>1. Len(q2) = 1 /\ q2[1] = b
    BY <1>4
  <2>2. QueueGood(ch, seq, b, q2)
    BY <1>1, <1>4, <2>1 DEF QueueGood, Same
  <2>3. \E i \in 1 .. Len(q2) : b.revision <= q2[i].revision
    BY <1>1, <2>1
  <2> QED  BY <1>1, <1>2, <2>2, <2>3 DEF EntryGood
<1> QED  BY <1>3, <1>4

LEMMA EntryOpens ==
  ASSUME NEW ch, NEW seq \in Nat, NEW b, NEW q, NEW e, NEW lost,
         EntryGood(ch, seq, b, "watching", q, e, lost)
  PROVE  EntryGood(ch, seq, b, "open", q, Unkept, lost)
<1>1. e = Unkept /\ ~Unkept.live /\ Unkept.revision = 0
  BY DEF EntryGood, Unkept
<1> QED  BY <1>1 DEF EntryGood

LEMMA EntryBreaks ==
  ASSUME NEW ch, NEW seq \in Nat, NEW b, NEW q, NEW e, NEW lost,
         EntryGood(ch, seq, b, "open", q, e, lost)
  PROVE  /\ QueueGood(ch, seq, b, <<>>)
         /\ EntryGood(ch, seq, b, "unset", <<>>, e, lost)
         /\ EntryGood(ch, seq, b, "open", <<>>, e, TRUE)
<1>1. QueueGood(ch, seq, b, <<>>)
  BY DEF QueueGood
<1> QED  BY <1>1 DEF EntryGood

LEMMA EntryExpires ==
  ASSUME NEW ch, NEW seq \in Nat, NEW b, NEW w, NEW q, NEW e \in Entries, NEW lost, NEW e2,
         EntryGood(ch, seq, b, w, q, e, lost), e.live,
         e2 = [e EXCEPT !.live = FALSE, !.answer = Deleted]
  PROVE  EntryGood(ch, seq, b, w, q, e2, lost)
<1>1. e2.revision = e.revision /\ ~e2.live
  BY DEF Entries
<1>2. e # Unkept
  BY DEF Unkept
<1> QED  BY <1>1, <1>2 DEF EntryGood

\* KvMemory::keep_entry of the first message that waits.
LEMMA EntryApplies ==
  ASSUME NEW ch, NEW seq \in Nat, NEW b \in Messages, NEW q \in Seq(Messages), NEW e \in Entries,
         NEW lost, NEW e2, q # <<>>,
         QueueGood(ch, seq, b, q), EntryGood(ch, seq, b, "open", q, e, lost),
         e2 = IF Head(q).revision >= e.revision
              THEN [revision |-> Head(q).revision, answer |-> Head(q).answer, live |-> TRUE]
              ELSE e
  PROVE  QueueGood(ch, seq, b, Tail(q)) /\ EntryGood(ch, seq, b, "open", Tail(q), e2, lost)
<1>1. Len(q) \in Nat /\ \A i \in 1 .. Len(q) : q[i].revision \in Nat
  BY QueueForm
<1>2. e.revision \in Nat /\ b.revision \in Nat
  BY EntryForm, MessageForm
<1>3. PICK t : t = Tail(q)
  OBVIOUS
<1>4. /\ 1 \in 1 .. Len(q) /\ Head(q) = q[1] /\ Len(t) = Len(q) - 1
      /\ \A i \in 1 .. Len(t) : t[i] = q[i + 1] /\ (i + 1) \in 1 .. Len(q)
  BY <1>3, q # <<>>
<1>5. ASSUME NEW i \in 2 .. Len(q)
      PROVE  (i - 1) \in 1 .. Len(t) /\ t[i - 1] = q[i]
  BY <1>1, <1>4
<1>6. QueueGood(ch, seq, b, t)
  <2>1. ASSUME NEW i \in 1 .. Len(t)
        PROVE  /\ 1 <= t[i].revision /\ t[i].revision <= seq
               /\ Same(b, t[i].revision, t[i].answer)
    BY <1>4 DEF QueueGood
  <2>2. ASSUME NEW i \in 1 .. Len(t), Stale(ch, t[i].answer)
        PROVE  \E j \in (i + 1) .. Len(t) : t[j].revision > t[i].revision
    <3>1. t[i] = q[i + 1] /\ (i + 1) \in 1 .. Len(q)
      BY <1>4
    <3>2. PICK j \in (i + 1 + 1) .. Len(q) : q[j].revision > q[i + 1].revision
      BY <2>2, <3>1 DEF QueueGood
    <3>3. j \in 2 .. Len(q) /\ (j - 1) \in (i + 1) .. Len(t) /\ t[j - 1] = q[j]
      BY <1>1, <1>4, <1>5, <3>2
    <3> QED  BY <3>1, <3>2, <3>3
  <2> QED  BY <2>1, <2>2 DEF QueueGood
<1>7. CASE Head(q).revision >= e.revision
  <2>1. e2.revision = q[1].revision /\ e2.answer = q[1].answer /\ e2.live
    BY <1>4, <1>7
  <2>2. 1 <= e2.revision /\ e2.revision <= seq /\ Same(b, e2.revision, e2.answer)
    BY <1>4, <2>1 DEF QueueGood
  <2>3. ASSUME Stale(ch, e2.answer)  PROVE Coming(t, e2.revision)
    <3>1. PICK j \in (1 + 1) .. Len(q) : q[j].revision > q[1].revision
      BY <1>4, <2>1, <2>3 DEF QueueGood
    <3>2. (j - 1) \in 1 .. Len(t) /\ t[j - 1] = q[j]
      BY <1>1, <1>5, <3>1
    <3> QED  BY <2>1, <3>1, <3>2 DEF Coming
  <2>4. \/ b.revision <= e2.revision
        \/ \E i \in 1 .. Len(t) : b.revision <= t[i].revision
        \/ lost
    <3>1. CASE b.revision <= e.revision
      BY <1>1, <1>2, <1>4, <1>7, <2>1, <3>1
    <3>2. CASE \E i \in 1 .. Len(q) : b.revision <= q[i].revision
      <4>1. PICK i \in 1 .. Len(q) : b.revision <= q[i].revision
        BY <3>2
      <4>2. CASE i = 1
        BY <2>1, <4>1, <4>2
      <4>3. CASE i # 1
        <5>1. (i - 1) \in 1 .. Len(t) /\ t[i - 1] = q[i]
          BY <1>1, <1>5, <4>3
        <5> QED  BY <4>1, <5>1
      <4> QED  BY <4>2, <4>3
    <3> QED  BY <3>1, <3>2 DEF EntryGood
  <2>5. EntryGood(ch, seq, b, "open", t, e2, lost)
    BY <2>2, <2>3, <2>4 DEF EntryGood
  <2> QED  BY <1>3, <1>6, <2>5
<1>8. CASE ~(Head(q).revision >= e.revision)
  <2>1. e2 = e /\ q[1].revision < e.revision
    BY <1>1, <1>2, <1>4, <1>8
  <2>2. ASSUME Coming(q, e.revision)  PROVE Coming(t, e.revision)
    <3>1. PICK i \in 1 .. Len(q) : q[i].revision > e.revision
      BY <2>2 DEF Coming
    <3>2. i # 1
      BY <1>1, <1>2, <2>1, <3>1
    <3>3. (i - 1) \in 1 .. Len(t) /\ t[i - 1] = q[i]
      BY <1>1, <1>5, <3>2
    <3> QED  BY <3>1, <3>3 DEF Coming
  <2>3. \/ b.revision <= e.revision
        \/ \E i \in 1 .. Len(t) : b.revision <= t[i].revision
        \/ lost
    <3>1. CASE \E i \in 1 .. Len(q) : b.revision <= q[i].revision
      <4>1. PICK i \in 1 .. Len(q) : b.revision <= q[i].revision
        BY <3>1
      <4>2. CASE i = 1
        BY <1>1, <1>2, <2>1, <4>1, <4>2
      <4>3. CASE i # 1
        <5>1. (i - 1) \in 1 .. Len(t) /\ t[i - 1] = q[i]
          BY <1>1, <1>5, <4>3
        <5> QED  BY <4>1, <5>1
      <4> QED  BY <4>2, <4>3
    <3> QED  BY <3>1 DEF EntryGood
  <2>4. EntryGood(ch, seq, b, "open", t, e, lost)
    BY <2>2, <2>3 DEF EntryGood
  <2> QED  BY <1>3, <1>6, <2>1, <2>4
<1> QED  BY <1>7, <1>8

\* KvMemory::keep_entry of a put that the bucket accepted.
LEMMA EntryPuts ==
  ASSUME NEW ch, NEW seq \in Nat, NEW b \in Messages, NEW w, NEW q \in Seq(Messages), NEW e \in Entries,
         NEW lost, NEW e2, NEW rq \in RequestStates,
         EntryGood(ch, seq, b, w, q, e, lost), RequestGood(ch, seq, b, rq), rq.phase = "accepted",
         e2 = IF w = "open" /\ rq.revision >= e.revision
              THEN [revision |-> rq.revision, answer |-> rq.answer, live |-> TRUE]
              ELSE e
  PROVE  EntryGood(ch, seq, b, w, q, e2, lost)
<1>1. CASE w = "open" /\ rq.revision >= e.revision
  <2>1. e2.revision = rq.revision /\ e2.answer = rq.answer /\ e2.live
    BY <1>1
  <2>2. /\ rq.revision \in Nat /\ rq.since \in Nat /\ e.revision \in Nat /\ b.revision \in Nat
        /\ \A i \in 1 .. Len(q) : q[i].revision \in Nat
    BY RequestForm, EntryForm, MessageForm, QueueForm
  <2>3. /\ rq.since < rq.revision /\ rq.revision <= seq /\ Same(b, rq.revision, rq.answer)
        /\ Stale(ch, rq.answer) => rq.revision < b.revision
    BY DEF RequestGood
  <2>4. b.revision <= e.revision \/ (\E i \in 1 .. Len(q) : b.revision <= q[i].revision) \/ lost
    BY <1>1 DEF EntryGood
  <2>5. ASSUME Stale(ch, rq.answer)  PROVE Coming(q, rq.revision) \/ lost
    <3>1. rq.revision < b.revision
      BY <2>3, <2>5
    <3>2. ~(b.revision <= e.revision)
      BY <1>1, <2>2, <3>1
    <3>3. (\E i \in 1 .. Len(q) : b.revision <= q[i].revision) => Coming(q, rq.revision)
      BY <2>2, <3>1 DEF Coming
    <3> QED  BY <2>4, <3>2, <3>3
  <2>6. b.revision <= rq.revision \/ (\E i \in 1 .. Len(q) : b.revision <= q[i].revision) \/ lost
    BY <1>1, <2>2, <2>4
  <2>7. 1 <= rq.revision
    BY <2>2, <2>3
  <2> QED  BY <1>1, <2>1, <2>3, <2>5, <2>6, <2>7 DEF EntryGood
<1>2. CASE ~(w = "open" /\ rq.revision >= e.revision)
  BY <1>2
<1> QED  BY <1>1, <1>2

-----------------------------------------------------------------------------
(* The steps of a request, on its values.                                   *)

LEMMA RequestMisses ==
  ASSUME NEW ch, NEW seq \in Nat, NEW b, NEW what, NEW t, t <= seq, NEW rq,
         rq = [Idle EXCEPT !.phase = "miss", !.reads = what, !.since = seq, !.ticket = t]
  PROVE  RequestGood(ch, seq, b, rq)
<1>1. /\ rq.phase = "miss" /\ rq.since = seq /\ rq.ticket = t
      /\ rq.answer = Deleted /\ rq.revision = 0
  BY DEF Idle
<1> QED  BY <1>1 DEF RequestGood

\* What a query has read is not outdated.
LEMMA RequestQueries ==
  ASSUME NEW ch, NEW seq \in Nat, NEW b, NEW rq \in RequestStates, NEW v, NEW rq2,
         Len(ch) \in Nat, v \in {None, Len(ch)}, RequestGood(ch, seq, b, rq), rq.phase = "miss",
         rq2 = [rq EXCEPT !.phase = "read", !.answer.grants = v]
  PROVE  RequestGood(ch, seq, b, rq2)
<1>1. rq.answer = Deleted
  BY DEF RequestGood
<1>2. /\ rq2.phase = "read" /\ rq2.since = rq.since /\ rq2.ticket = rq.ticket
      /\ rq2.revision = rq.revision /\ rq2.answer = [rq.answer EXCEPT !.grants = v]
  BY DEF RequestStates
<1>3. rq2.answer.grants = v /\ rq2.answer.provisioned = None
  BY <1>1, <1>2 DEF Deleted
<1>4. ~Outdated(ch, v) /\ ~Outdated(ch, None)
  BY DEF Outdated
<1>5. ~Stale(ch, rq2.answer)
  BY <1>3, <1>4 DEF Stale
<1> QED  BY <1>2, <1>5 DEF RequestGood

\* The other half of the answer comes from what the put replaces.
LEMMA RequestKeeps ==
  ASSUME NEW ch, NEW seq \in Nat, NEW b \in Messages, NEW rq \in RequestStates, NEW rq2, NEW a,
         NEW w, NEW q, NEW e \in Entries, NEW lost, NEW before,
         BucketGood(ch, seq, b), RequestGood(ch, seq, b, rq), EntryGood(ch, seq, b, w, q, e, lost),
         rq.phase = "read", rq2 = [rq EXCEPT !.phase = "put", !.answer = a],
         before = IF e.live /\ e.revision = rq.ticket THEN e.answer ELSE Deleted,
         a.grants \in {rq.answer.grants, before.grants},
         a.provisioned \in {rq.answer.grants, before.provisioned}
  PROVE  RequestGood(ch, seq, b, rq2)
<1>1. /\ rq2.phase = "put" /\ rq2.since = rq.since /\ rq2.ticket = rq.ticket
      /\ rq2.revision = rq.revision /\ rq2.answer = a
  BY DEF RequestStates
<1>2. ASSUME Stale(ch, a)
      PROVE  rq.since < b.revision \/ (rq.ticket # 0 /\ b.revision # rq.ticket)
  <2>1. Stale(ch, rq.answer) \/ Stale(ch, before)
    BY <1>2 DEF Stale
  <2>2. CASE Stale(ch, rq.answer)
    BY <2>2 DEF RequestGood
  <2>3. CASE Stale(ch, before)
    <3>1. e.live /\ e.revision = rq.ticket /\ before = e.answer
      BY <2>3, DeletedIsFresh
    <3>2. 1 <= e.revision /\ Same(b, e.revision, e.answer) /\ ~Stale(ch, b.answer)
      BY <3>1 DEF EntryGood, BucketGood
    <3>3. b.revision # rq.ticket
      BY <2>3, <3>1, <3>2 DEF Same
    <3> QED  BY <3>1, <3>2, <3>3
  <2> QED  BY <2>1, <2>2, <2>3
<1> QED  BY <1>1, <1>2 DEF RequestGood

\* The bucket takes no outdated answer.
LEMMA RequestAccepted ==
  ASSUME NEW ch, NEW seq \in Nat, NEW b \in Messages, NEW b2, NEW rq \in RequestStates, NEW rq2,
         RequestGood(ch, seq, b, rq), rq.phase = "put", b.revision = rq.ticket,
         b2 = [revision |-> seq + 1, answer |-> rq.answer],
         rq2 = [rq EXCEPT !.phase = "accepted", !.revision = seq + 1]
  PROVE  ~Stale(ch, rq.answer) /\ RequestGood(ch, seq + 1, b2, rq2)
<1>1. rq.ticket \in Nat /\ rq.since \in Nat /\ b.revision \in Nat
  BY RequestForm, MessageForm
<1>2. rq.ticket <= rq.since /\ rq.since <= seq
  BY DEF RequestGood
<1>3. ~Stale(ch, rq.answer)
  BY <1>1, <1>2 DEF RequestGood
<1>4. /\ rq2.phase = "accepted" /\ rq2.since = rq.since /\ rq2.ticket = rq.ticket
      /\ rq2.revision = seq + 1 /\ rq2.answer = rq.answer
  BY DEF RequestStates
<1>5. Same(b2, rq2.revision, rq2.answer) /\ ~Stale(ch, rq2.answer)
  BY <1>3, <1>4 DEF Same
<1> QED  BY <1>1, <1>2, <1>3, <1>4, <1>5 DEF RequestGood

-----------------------------------------------------------------------------
(* The steps on the values of the token.                                    *)

LEMMA MarkersForm ==
  ASSUME NEW m \in Seq(Revisions)
  PROVE  Len(m) \in Nat /\ \A i \in 1 .. Len(m) : m[i] \in Nat
<1>1. Len(m) \in Nat /\ \A i \in 1 .. Len(m) : m[i] \in Revisions
  OBVIOUS
<1> QED  BY <1>1, RevisionsAreNumbers

\* Before the drop of the revocation nothing is owed; later revisions change
\* nothing.
LEMMA TokenWaits ==
  ASSUME NEW rev, NEW rev2, NEW seq \in Nat, NEW id, NEW w, NEW m \in Seq(Revisions), NEW kept,
         NEW seen \in Nat, NEW lost, TokenGood(rev, seq, id, w, m, kept, seen, lost),
         rev2 = rev \/ rev2 # "done"
  PROVE  TokenGood(rev2, seq, id, w, m, kept, seen, lost) /\ TokenGood(rev, seq + 1, id, w, m, kept, seen, lost)
<1>1. seen <= seq + 1 /\ \A i \in 1 .. Len(m) : m[i] <= seq + 1
  BY MarkersForm DEF TokenGood
<1> QED  BY <1>1 DEF TokenGood

LEMMA ReadWaits ==
  ASSUME NEW rev, NEW rev2, NEW seq \in Nat, NEW id, NEW q \in RequestStates, ReadGood(rev, seq, id, q),
         rev2 = rev \/ rev2 # "done"
  PROVE  ReadGood(rev2, seq, id, q) /\ ReadGood(rev, seq + 1, id, q) /\ ReadGood("done", seq + 1, seq + 1, q)
<1>1. q.since \in Nat
  BY RequestForm
<1> QED  BY <1>1 DEF ReadGood

\* The marker of the revocation is pushed to every host that consumes.
LEMMA TokenDrops ==
  ASSUME NEW rev, NEW seq \in Nat, NEW id, NEW w, NEW m \in Seq(Revisions), NEW kept, NEW seen \in Nat,
         NEW lost, NEW m2, TokenGood(rev, seq, id, w, m, kept, seen, lost),
         w \in {"open", "unset", "closed", "watching"},
         m2 = IF w \in {"open", "watching"} THEN Append(m, seq + 1) ELSE m
  PROVE  TokenGood("done", seq + 1, seq + 1, w, m2, kept, seen, lost)
<1>1. seen <= seq + 1 /\ \A i \in 1 .. Len(m) : m[i] <= seq + 1
  BY MarkersForm DEF TokenGood
<1>2. CASE w \in {"open", "watching"}
  <2>1. Len(m) \in Nat
    BY MarkersForm
  <2>2. Len(m2) = Len(m) + 1 /\ m2[Len(m) + 1] = seq + 1 /\ \A i \in 1 .. Len(m) : m2[i] = m[i]
    BY <1>2
  <2>3. m2 # <<>> /\ \A i \in 1 .. Len(m2) : m2[i] <= seq + 1
    BY <1>1, <2>1, <2>2
  <2>4. \E i \in 1 .. Len(m2) : m2[i] = seq + 1
    BY <2>1, <2>2
  <2> QED  BY <1>1, <1>2, <2>3, <2>4 DEF TokenGood
<1>3. CASE w \in {"unset", "closed"}
  BY <1>1, <1>3 DEF TokenGood
<1> QED  BY <1>2, <1>3

LEMMA TokenForgets ==
  ASSUME NEW rev, NEW seq, NEW id, NEW w, NEW m, NEW kept, NEW seen \in Nat, NEW lost,
         TokenGood(rev, seq, id, w, m, kept, seen, lost)
  PROVE  TokenGood(rev, seq, 0, w, m, kept, seen, lost) /\ TokenGood(rev, seq, id, w, m, FALSE, seen, lost)
BY DEF TokenGood

LEMMA TokenStarts ==
  ASSUME NEW rev, NEW seq \in Nat, NEW id \in Nat, NEW m, NEW kept, NEW seen \in Nat, NEW lost, NEW m2,
         TokenGood(rev, seq, id, "closed", m, kept, seen, lost), id <= seq,
         m2 = IF id = 0 THEN <<>> ELSE <<id>>
  PROVE  TokenGood(rev, seq, id, "watching", m2, kept, seen, lost)
<1>1. CASE id = 0
  BY <1>1 DEF TokenGood
<1>2. CASE id # 0
  <2>1. Len(m2) = 1 /\ m2[1] = id
    BY <1>2
  <2> QED  BY <2>1 DEF TokenGood
<1> QED  BY <1>1, <1>2

LEMMA TokenWatches ==
  ASSUME NEW rev, NEW seq, NEW id, NEW m, NEW kept, NEW seen, NEW lost
  PROVE  /\ TokenGood(rev, seq, id, "watching", m, kept, seen, lost) =>
                TokenGood(rev, seq, id, "open", m, FALSE, seen, lost)
         /\ TokenGood(rev, seq, id, "open", m, kept, seen, lost) =>
                /\ TokenGood(rev, seq, id, "unset", <<>>, kept, seen, lost)
                /\ TokenGood(rev, seq, id, "open", <<>>, kept, seen, TRUE)
         /\ TokenGood(rev, seq, id, "unset", m, kept, seen, lost) =>
                TokenGood(rev, seq, id, "closed", m, FALSE, seen, FALSE)
BY DEF TokenGood

LEMMA TokenApplies ==
  ASSUME NEW rev, NEW seq \in Nat, NEW id \in Nat, NEW m \in Seq(Revisions), NEW kept, NEW seen \in Nat,
         NEW lost, NEW seen2, TokenGood(rev, seq, id, "open", m, kept, seen, lost), m # <<>>,
         seen2 = IF Head(m) > seen THEN Head(m) ELSE seen
  PROVE  TokenGood(rev, seq, id, "open", Tail(m), FALSE, seen2, lost)
<1>1. Len(m) \in Nat /\ \A i \in 1 .. Len(m) : m[i] \in Nat
  BY MarkersForm
<1>2. PICK t : t = Tail(m)
  OBVIOUS
<1>3. /\ 1 \in 1 .. Len(m) /\ Head(m) = m[1] /\ Len(t) = Len(m) - 1
      /\ \A i \in 1 .. Len(t) : t[i] = m[i + 1] /\ (i + 1) \in 1 .. Len(m)
  BY <1>2, m # <<>>
<1>4. seen <= seq /\ \A i \in 1 .. Len(m) : m[i] <= seq
  BY DEF TokenGood
<1>5. seen2 \in Nat /\ seen2 <= seq /\ seen <= seen2 /\ m[1] <= seen2
  BY <1>1, <1>3, <1>4
<1>6. \A i \in 1 .. Len(t) : t[i] <= seq
  BY <1>3, <1>4
<1>7. id <= seen2 \/ (\E i \in 1 .. Len(t) : t[i] = id) \/ lost
  <2>1. CASE id <= seen
    BY <1>5, <2>1
  <2>2. CASE \E i \in 1 .. Len(m) : m[i] = id
    <3>1. PICK i \in 1 .. Len(m) : m[i] = id
      BY <2>2
    <3>2. CASE i = 1
      BY <1>5, <3>1, <3>2
    <3>3. CASE i # 1
      <4>1. (i - 1) \in 1 .. Len(t) /\ t[i - 1] = m[i]
        BY <1>1, <1>3, <3>3
      <4> QED  BY <3>1, <4>1
    <3> QED  BY <3>2, <3>3
  <2> QED  BY <2>1, <2>2 DEF TokenGood
<1>8. TokenGood(rev, seq, id, "open", t, FALSE, seen2, lost)
  BY <1>5, <1>6, <1>7 DEF TokenGood
<1> QED  BY <1>2, <1>8

\* AuthCache::keep_token of a read.
LEMMA TokenKeeps ==
  ASSUME NEW rev, NEW seq \in Nat, NEW id \in Nat, NEW w, NEW m, NEW kept \in BOOLEAN, NEW seen \in Nat, NEW lost,
         NEW kept2, NEW rq \in RequestStates, TokenGood(rev, seq, id, w, m, kept, seen, lost),
         ReadGood(rev, seq, id, rq), rq.phase = "read", rq.reads = "token",
         kept2 = (kept \/ (w = "open" /\ seen = rq.ticket))
  PROVE  TokenGood(rev, seq, id, w, m, kept2, seen, lost)
<1>1. CASE w = "open" /\ seen = rq.ticket /\ rev = "done"
  <2>1. rq.since < id /\ rq.ticket <= rq.since /\ rq.since \in Nat /\ rq.ticket \in Nat
    BY <1>1, RequestForm DEF ReadGood
  <2>2. ~(id <= seen)
    BY <1>1, <2>1
  <2>3. m # <<>> \/ lost
    BY <1>1, <2>2 DEF TokenGood
  <2> QED  BY <1>1, <2>3 DEF TokenGood
<1>2. CASE w = "open" /\ seen = rq.ticket /\ rev # "done"
  BY <1>2 DEF TokenGood
<1>3. CASE ~(w = "open" /\ seen = rq.ticket)
  <2>1. kept2 = kept
    BY <1>3
  <2> QED  BY <2>1
<1> QED  BY <1>1, <1>2, <1>3

-----------------------------------------------------------------------------
(* What the invariant says of one host and of one request.                  *)

LEMMA StateForms ==
  ASSUME TypeOK
  PROVE  /\ changes \in Seq(Changes) /\ Len(changes) \in Nat /\ sequence \in Nat
         /\ bucket \in Messages /\ identity \in Nat /\ BucketTypes /\ FactTypes
         /\ \A h \in Hosts :
                /\ watch[h] \in {"open", "unset", "closed", "watching"}
                /\ queue[h] \in Seq(Messages) /\ markers[h] \in Seq(Revisions)
                /\ entry[h] \in Entries /\ token[h] \in BOOLEAN /\ seenIdentity[h] \in Nat
         /\ \A r \in Requests : request[r] \in RequestStates /\ HostOf[r] \in Hosts
<1>1. FactTypes /\ BucketTypes /\ WatchTypes /\ ReplicaTypes /\ request \in [Requests -> RequestStates]
  BY DEF TypeOK
<1>2. changes \in Seq(Changes) /\ Len(changes) \in Nat
  BY <1>1 DEF FactTypes
<1>3. sequence \in Nat /\ bucket \in Messages /\ identity \in Nat
  BY <1>1, RevisionsAreNumbers DEF BucketTypes
<1>4. ASSUME NEW h \in Hosts
      PROVE  /\ watch[h] \in {"open", "unset", "closed", "watching"}
             /\ queue[h] \in Seq(Messages) /\ markers[h] \in Seq(Revisions)
  BY <1>1 DEF WatchTypes
<1>5. ASSUME NEW h \in Hosts
      PROVE  entry[h] \in Entries /\ token[h] \in BOOLEAN /\ seenIdentity[h] \in Nat
  BY <1>1, RevisionsAreNumbers DEF ReplicaTypes
<1>6. ASSUME NEW r \in Requests  PROVE request[r] \in RequestStates /\ HostOf[r] \in Hosts
  BY <1>1, HostOfAssumption
<1> QED  BY <1>1, <1>2, <1>3, <1>4, <1>5, <1>6

LEMMA HostForms ==
  ASSUME AnswerInv, TokenInv, NEW h \in Hosts
  PROVE  /\ QueueGood(changes, sequence, bucket, queue[h])
         /\ EntryGood(changes, sequence, bucket, watch[h], queue[h], entry[h], missed[h])
         /\ TokenGood(revoked, sequence, identity, watch[h], markers[h], token[h],
                      seenIdentity[h], missed[h])
BY DEF AnswerInv, TokenInv

LEMMA RequestForms ==
  ASSUME AnswerInv, TokenInv, NEW r \in Requests
  PROVE  /\ RequestGood(changes, sequence, bucket, request[r])
         /\ ReadGood(revoked, sequence, identity, request[r])
BY DEF AnswerInv, TokenInv

LEMMA IdleReads ==
  ASSUME NEW rev, NEW seq \in Nat, NEW id
  PROVE  ReadGood(rev, seq, id, Idle)
BY DEF ReadGood, Idle

-----------------------------------------------------------------------------
(* The four kinds of step.                                                  *)

\* A step of one host, and of requests.
LEMMA HostStep ==
  ASSUME Inv, NEW h \in Hosts, UNCHANGED <<facts, kv>>, WatchTypes', ReplicaTypes',
         request' \in [Requests -> RequestStates],
         \A g \in Hosts : g # h =>
             /\ watch'[g] = watch[g] /\ queue'[g] = queue[g] /\ markers'[g] = markers[g]
             /\ entry'[g] = entry[g] /\ token'[g] = token[g] /\ missed'[g] = missed[g]
             /\ seenIdentity'[g] = seenIdentity[g],
         QueueGood(changes, sequence, bucket, queue'[h]),
         EntryGood(changes, sequence, bucket, watch'[h], queue'[h], entry'[h], missed'[h]),
         TokenGood(revoked, sequence, identity, watch'[h], markers'[h], token'[h],
                   seenIdentity'[h], missed'[h]),
         \A r \in Requests : request'[r] \in {request[r], Idle}
  PROVE  Inv'
<1> USE DEF facts, kv
<1>1. TypeOK /\ AnswerInv /\ TokenInv
  BY DEF Inv
<1>2. TypeOK'
  BY <1>1 DEF TypeOK, FactTypes, BucketTypes, Fact
<1>3. sequence \in Nat
  BY <1>1, StateForms
<1>4. ASSUME NEW g \in Hosts
      PROVE  /\ QueueGood(changes, sequence, bucket, queue'[g])
             /\ EntryGood(changes, sequence, bucket, watch'[g], queue'[g], entry'[g], missed'[g])
             /\ TokenGood(revoked, sequence, identity, watch'[g], markers'[g], token'[g],
                          seenIdentity'[g], missed'[g])
  <2>1. CASE g = h
    BY <2>1
  <2>2. CASE g # h
    BY <1>1, <2>2, HostForms
  <2> QED  BY <2>1, <2>2
<1>5. ASSUME NEW r \in Requests
      PROVE  /\ RequestGood(changes, sequence, bucket, request'[r])
             /\ ReadGood(revoked, sequence, identity, request'[r])
  BY <1>1, <1>3, RequestForms, IdleIsGood, IdleReads
<1>6. AnswerInv'
  BY <1>1, <1>4, <1>5 DEF AnswerInv
<1>7. TokenInv'
  BY <1>1, <1>4, <1>5 DEF TokenInv
<1> QED  BY <1>2, <1>6, <1>7 DEF Inv

\* A step of one request.
LEMMA RequestStep ==
  ASSUME Inv, NEW r \in Requests, NEW rq \in RequestStates, request' = [request EXCEPT ![r] = rq],
         UNCHANGED <<facts, kv, watch, deliveries, replica, faults>>,
         RequestGood(changes, sequence, bucket, rq), ReadGood(revoked, sequence, identity, rq)
  PROVE  Inv'
<1> USE DEF facts, kv, deliveries, replica, faults
<1>1. TypeOK /\ AnswerInv /\ TokenInv
  BY DEF Inv
<1>2. request' \in [Requests -> RequestStates]
  BY <1>1 DEF TypeOK
<1>3. TypeOK'
  BY <1>1, <1>2 DEF TypeOK, FactTypes, BucketTypes, WatchTypes, ReplicaTypes, Fact
<1>4. ASSUME NEW p \in Requests
      PROVE  /\ RequestGood(changes, sequence, bucket, request'[p])
             /\ ReadGood(revoked, sequence, identity, request'[p])
  <2>1. request'[p] = IF p = r THEN rq ELSE request[p]
    BY <1>1 DEF TypeOK
  <2> QED  BY <1>1, <2>1, RequestForms
<1>5. AnswerInv'
  BY <1>1, <1>4 DEF AnswerInv
<1>6. TokenInv'
  BY <1>1, <1>4 DEF TokenInv
<1> QED  BY <1>3, <1>5, <1>6 DEF Inv

\* A write of the principal's key.
LEMMA WriteStep ==
  ASSUME Inv, NEW answer \in Answers, Write(answer), ~Stale(changes', answer), FactTypes',
         UNCHANGED <<revoked, watch, replica, faults>>, request' \in [Requests -> RequestStates],
         \A r \in Requests :
             \/ request'[r] = request[r]
             \/ /\ RequestGood(changes', sequence + 1, bucket', request'[r])
                /\ ReadGood(revoked, sequence + 1, identity, request'[r])
  PROVE  Inv'
<1> USE DEF replica, faults
<1>1. TypeOK /\ AnswerInv /\ TokenInv
  BY DEF Inv
<1>2. /\ sequence \in Nat /\ identity \in Nat /\ bucket \in Messages
      /\ \A h \in Hosts :
             /\ watch[h] \in {"open", "unset", "closed", "watching"} /\ entry[h] \in Entries
             /\ queue[h] \in Seq(Messages) /\ markers[h] \in Seq(Revisions)
             /\ seenIdentity[h] \in Nat
      /\ \A r \in Requests : request[r] \in RequestStates
  BY <1>1, StateForms
<1>3. sequence + 1 \in Revisions /\ identity \in Revisions
  BY <1>1, <1>2, RevisionsAreNumbers DEF Write, Revisions, TypeOK, BucketTypes
<1>4. /\ sequence' = sequence + 1 /\ bucket' = [revision |-> sequence + 1, answer |-> answer]
      /\ identity' = identity /\ markers' = markers
  BY DEF Write
<1>5. bucket' \in Messages /\ bucket'.revision = sequence + 1 /\ bucket'.answer = answer
  BY <1>3, <1>4 DEF Messages
<1>6. ASSUME NEW h \in Hosts
      PROVE  queue'[h] = IF watch[h] \in {"open", "watching"} THEN Append(queue[h], bucket') ELSE queue[h]
  BY DEF Write, Pushed, Consumes
<1>7. queue' \in [Hosts -> Seq(Messages)]
  <2>1. ASSUME NEW h \in Hosts  PROVE Append(queue[h], bucket') \in Seq(Messages)
    BY <1>2, <1>5
  <2> QED  BY <1>2, <2>1 DEF Write, Pushed
<1>8. BucketTypes' /\ WatchTypes' /\ ReplicaTypes'
  <2>1. BucketTypes'
    BY <1>3, <1>4, <1>5 DEF BucketTypes
  <2>2. WatchTypes'
    BY <1>1, <1>4, <1>7 DEF TypeOK, WatchTypes
  <2>3. ReplicaTypes'
    BY <1>1 DEF TypeOK, ReplicaTypes
  <2> QED  BY <2>1, <2>2, <2>3
<1>9. ASSUME NEW h \in Hosts
      PROVE  /\ QueueGood(changes', sequence + 1, bucket', queue'[h])
             /\ EntryGood(changes', sequence + 1, bucket', watch[h], queue'[h], entry[h], missed[h])
             /\ TokenGood(revoked, sequence + 1, identity, watch[h], markers[h], token[h],
                          seenIdentity[h], missed[h])
  <2>1. /\ QueueGood(changes, sequence, bucket, queue[h])
        /\ EntryGood(changes, sequence, bucket, watch[h], queue[h], entry[h], missed[h])
        /\ TokenGood(revoked, sequence, identity, watch[h], markers[h], token[h],
                     seenIdentity[h], missed[h])
    BY <1>1, HostForms
  <2>2. TokenGood(revoked, sequence + 1, identity, watch[h], markers[h], token[h],
                  seenIdentity[h], missed[h])
    BY <1>2, <2>1, TokenWaits
  <2>3. CASE watch[h] \in {"open", "watching"}
    <3>1. queue'[h] = Append(queue[h], bucket')
      BY <1>6, <2>3
    <3>2. QueueGood(changes', sequence + 1, bucket', Append(queue[h], bucket'))
      BY <1>2, <1>5, <2>1, QueueWrites
    <3>3. EntryGood(changes', sequence + 1, bucket', watch[h], Append(queue[h], bucket'), entry[h], missed[h])
      BY <1>2, <1>5, <2>1, <2>3, EntryWrites
    <3> QED  BY <2>2, <3>1, <3>2, <3>3
  <2>4. CASE watch[h] \in {"unset", "closed"}
    <3>1. queue'[h] = queue[h]
      BY <1>6, <2>4
    <3>2. /\ EntryGood(changes', sequence + 1, bucket', watch[h], queue[h], entry[h], missed[h])
          /\ QueueGood(changes', sequence + 1, bucket', queue[h])
      BY <1>2, <1>5, <2>1, <2>4, EntryMisses
    <3> QED  BY <2>2, <3>1, <3>2
  <2> QED  BY <1>2, <2>3, <2>4
<1>10. ASSUME NEW r \in Requests
       PROVE  /\ RequestGood(changes', sequence + 1, bucket', request'[r])
              /\ ReadGood(revoked, sequence + 1, identity, request'[r])
  <2>1. CASE request'[r] = request[r]
    <3>1. RequestGood(changes, sequence, bucket, request[r]) /\ ReadGood(revoked, sequence, identity, request[r])
      BY <1>1, RequestForms
    <3>2. RequestGood(changes', sequence + 1, bucket', request[r])
      BY <1>2, <1>5, <3>1, RequestWrites
    <3>3. ReadGood(revoked, sequence + 1, identity, request[r])
      BY <1>2, <3>1, ReadWaits
    <3> QED  BY <2>1, <3>2, <3>3
  <2> QED  BY <2>1
<1>11. BucketGood(changes', sequence + 1, bucket')
  BY <1>2, <1>5 DEF BucketGood
<1>12. AnswerInv'
  BY <1>4, <1>9, <1>10, <1>11 DEF AnswerInv
<1>13. identity <= sequence + 1
  BY <1>1, <1>2 DEF TokenInv
<1>14. TokenInv'
  BY <1>4, <1>9, <1>10, <1>13 DEF TokenInv
<1>15. TypeOK'
  BY <1>8 DEF TypeOK
<1> QED  BY <1>12, <1>14, <1>15 DEF Inv

\* A change that publishes no drop.
LEMMA FactStep ==
  ASSUME Inv, FactTypes', \A a : Stale(changes', a) => Stale(changes, a),
         revoked' = revoked \/ revoked' # "done",
         UNCHANGED <<kv, watch, deliveries, replica, request, faults>>
  PROVE  Inv'
<1> USE DEF kv, deliveries, replica, faults
<1>1. TypeOK /\ AnswerInv /\ TokenInv
  BY DEF Inv
<1>2. TypeOK'
  BY <1>1 DEF TypeOK, BucketTypes, WatchTypes, ReplicaTypes
<1>3. AnswerInv'
  <2>1. BucketGood(changes', sequence, bucket)
    BY <1>1, FewerStale DEF AnswerInv
  <2>2. ASSUME NEW h \in Hosts
        PROVE  /\ QueueGood(changes', sequence, bucket, queue[h])
               /\ EntryGood(changes', sequence, bucket, watch[h], queue[h], entry[h], missed[h])
    BY <1>1, HostForms, FewerStale
  <2>3. ASSUME NEW r \in Requests  PROVE RequestGood(changes', sequence, bucket, request[r])
    BY <1>1, RequestForms, FewerStale
  <2> QED  BY <2>1, <2>2, <2>3 DEF AnswerInv
<1>4. TokenInv'
  <2>1. ASSUME NEW h \in Hosts
        PROVE  TokenGood(revoked', sequence, identity, watch[h], markers[h], token[h],
                         seenIdentity[h], missed[h])
    BY <1>1, HostForms, StateForms, TokenWaits
  <2>2. ASSUME NEW r \in Requests  PROVE ReadGood(revoked', sequence, identity, request[r])
    BY <1>1, RequestForms, StateForms, ReadWaits
  <2> QED  BY <1>1, <2>1, <2>2 DEF TokenInv
<1> QED  BY <1>2, <1>3, <1>4 DEF Inv

-----------------------------------------------------------------------------
(* The writers.                                                             *)

\* A drop of change c that comes to state d.
LEMMA DropForms ==
  ASSUME TypeOK, NEW c \in 1 .. Fact, NEW d \in Drops, SetDrop(c, d)
  PROVE  /\ changes' \in Seq(Changes) /\ Len(changes') = Len(changes)
         /\ changes'[c].drop = d /\ \A k \in 1 .. Len(changes) : k # c => changes'[k] = changes[k]
<1>1. changes \in Seq(Changes) /\ Len(changes) \in Nat /\ c \in 1 .. Len(changes)
  BY StateForms DEF Fact
<1>2. changes[c] \in Changes
  BY <1>1
<1>3. PICK x : x = [changes[c] EXCEPT !.drop = d]
  OBVIOUS
<1>4. x \in Changes /\ x.drop = d
  BY <1>2, <1>3 DEF Changes
<1>5. changes' = [changes EXCEPT ![c] = x]
  BY <1>3 DEF SetDrop
<1> QED  BY <1>1, <1>4, <1>5

LEMMA CommitChangeKeeps ==
  ASSUME Inv, NEW kind \in Kinds, CommitChange(kind)
  PROVE  Inv'
<1>1. changes \in Seq(Changes) /\ Len(changes) \in Nat /\ FactTypes
  BY StateForms DEF Inv
<1>2. PICK x : x = [kind |-> kind, drop |-> "pending"]
  OBVIOUS
<1>3. x \in Changes /\ x.drop = "pending"
  BY <1>2 DEF Changes, Drops
<1>4. changes' = Append(changes, x)
  BY <1>2 DEF CommitChange
<1>5. /\ changes' \in Seq(Changes) /\ Len(changes') = Len(changes) + 1
      /\ changes'[Len(changes) + 1] = x /\ \A k \in 1 .. Len(changes) : changes'[k] = changes[k]
  BY <1>1, <1>3, <1>4
<1>6. Len(changes) < MaxChanges
  BY <1>1, BoundsAssumption DEF CommitChange, Fact, Revocations
<1>7. FactTypes'
  <2>1. Fact' \in Versions
    BY <1>1, <1>5, <1>6, BoundsAssumption DEF Fact, Versions
  <2> QED  BY <1>1, <1>5, <2>1 DEF FactTypes, CommitChange
<1>8. \A v : Outdated(changes', v) => Outdated(changes, v)
  BY <1>1, <1>3, <1>5 DEF Outdated
<1>9. \A a : Stale(changes', a) => Stale(changes, a)
  BY <1>8 DEF Stale
<1> QED  BY <1>7, <1>9, FactStep DEF CommitChange

LEMMA UnpublishedKeeps ==
  ASSUME Inv, NEW c \in 1 .. Fact, DropLists(c) \/ DropLost(c)
  PROVE  Inv'
<1>1. changes \in Seq(Changes) /\ Len(changes) \in Nat /\ FactTypes
  BY StateForms DEF Inv
<1>2. PICK d \in {"unmarked", "listed", "lost"} : SetDrop(c, d)
  BY DEF DropLists, DropLost
<1>3. /\ changes' \in Seq(Changes) /\ Len(changes') = Len(changes)
      /\ changes'[c].drop = d /\ \A k \in 1 .. Len(changes) : k # c => changes'[k] = changes[k]
  BY <1>2, DropForms DEF Inv, Drops
<1>4. FactTypes'
  BY <1>1, <1>3 DEF FactTypes, Fact, DropLists, DropLost
<1>5. \A v : Outdated(changes', v) => Outdated(changes, v)
  BY <1>2, <1>3 DEF Outdated
<1>6. \A a : Stale(changes', a) => Stale(changes, a)
  BY <1>5 DEF Stale
<1> QED  BY <1>4, <1>6, FactStep DEF DropLists, DropLost

LEMMA PublishedKeeps ==
  ASSUME Inv, NEW c \in 1 .. Fact, DropKey(c) \/ DropListed(c)
  PROVE  Inv'
<1>1. FactTypes /\ request \in [Requests -> RequestStates]
  BY StateForms DEF Inv, TypeOK
<1>2. /\ SetDrop(c, "done") /\ Write(Deleted)
      /\ UNCHANGED <<revoked, watch, replica, request, faults>>
  BY DEF DropKey, DropListed
<1>3. changes' \in Seq(Changes) /\ Len(changes') = Len(changes)
  BY <1>2, DropForms DEF Inv, Drops
<1>4. FactTypes'
  BY <1>1, <1>2, <1>3 DEF FactTypes, Fact
<1>5. ~Stale(changes', Deleted) /\ Deleted \in Answers
  BY DeletedIsFresh, AnswerForms
<1> QED  BY <1>1, <1>2, <1>4, <1>5, WriteStep

LEMMA RevokeKeeps ==
  ASSUME Inv, Revoke \/ DropIdentityLost
  PROVE  Inv'
<1>1. FactTypes
  BY StateForms DEF Inv
<1>2. changes' = changes /\ revoked' \in {"pending", "lost"}
  BY DEF Revoke, DropIdentityLost
<1>3. FactTypes'
  BY <1>1, <1>2 DEF FactTypes, Fact
<1>4. UNCHANGED <<kv, watch, deliveries, replica, request, faults>>
  BY DEF Revoke, DropIdentityLost
<1> QED  BY <1>2, <1>3, <1>4, FactStep

LEMMA DropIdentityKeeps ==
  ASSUME Inv, DropIdentity
  PROVE  Inv'
<1> USE DEF replica, faults
<1>1. TypeOK /\ AnswerInv /\ TokenInv
  BY DEF Inv
<1>2. /\ sequence \in Nat /\ bucket \in Messages
      /\ \A h \in Hosts :
             /\ watch[h] \in {"open", "unset", "closed", "watching"} /\ entry[h] \in Entries
             /\ markers[h] \in Seq(Revisions) /\ seenIdentity[h] \in Nat
      /\ \A r \in Requests : request[r] \in RequestStates
  BY <1>1, StateForms
<1>3. sequence + 1 \in Revisions
  BY <1>2, RevisionsAreNumbers DEF DropIdentity, Revisions
<1>4. /\ revoked' = "done" /\ sequence' = sequence + 1 /\ identity' = sequence + 1
      /\ UNCHANGED <<changes, bucket, watch, queue, entry, token, seenIdentity, request, breaks, missed>>
  BY DEF DropIdentity
<1>5. ASSUME NEW h \in Hosts
      PROVE  markers'[h] = IF watch[h] \in {"open", "watching"}
                           THEN Append(markers[h], sequence + 1) ELSE markers[h]
  BY DEF DropIdentity, Pushed, Consumes
<1>6. markers' \in [Hosts -> Seq(Revisions)]
  <2>1. ASSUME NEW h \in Hosts  PROVE Append(markers[h], sequence + 1) \in Seq(Revisions)
    BY <1>2, <1>3
  <2> QED  BY <1>2, <2>1 DEF DropIdentity, Pushed
<1>7. TypeOK'
  <2>1. BucketTypes'
    BY <1>1, <1>3, <1>4 DEF TypeOK, BucketTypes
  <2>2. WatchTypes'
    BY <1>1, <1>4, <1>6 DEF TypeOK, WatchTypes
  <2> QED  BY <1>1, <1>4, <2>1, <2>2 DEF TypeOK, FactTypes, Fact, ReplicaTypes
<1>8. AnswerInv'
  <2>1. BucketGood(changes, sequence + 1, bucket)
    BY <1>1, <1>2, MessageForm DEF AnswerInv, BucketGood
  <2>2. ASSUME NEW h \in Hosts
        PROVE  /\ QueueGood(changes, sequence + 1, bucket, queue[h])
               /\ EntryGood(changes, sequence + 1, bucket, watch[h], queue[h], entry[h], missed[h])
    <3>1. /\ QueueGood(changes, sequence, bucket, queue[h])
          /\ EntryGood(changes, sequence, bucket, watch[h], queue[h], entry[h], missed[h])
      BY <1>1, HostForms
    <3>2. queue[h] \in Seq(Messages)
      BY <1>1, StateForms
    <3>3. QueueGood(changes, sequence + 1, bucket, queue[h])
      <4>1. \A i \in 1 .. Len(queue[h]) : queue[h][i].revision \in Nat
        BY <3>2, QueueForm
      <4>2. \A i \in 1 .. Len(queue[h]) : queue[h][i].revision <= sequence + 1
        BY <1>2, <3>1, <4>1 DEF QueueGood
      <4> QED  BY <3>1, <4>2 DEF QueueGood
    <3>4. entry[h].revision <= sequence + 1
      BY <1>2, <3>1, EntryForm DEF EntryGood
    <3>5. EntryGood(changes, sequence + 1, bucket, watch[h], queue[h], entry[h], missed[h])
      BY <3>1, <3>4 DEF EntryGood
    <3> QED  BY <3>3, <3>5
  <2>3. ASSUME NEW r \in Requests  PROVE RequestGood(changes, sequence + 1, bucket, request[r])
    <3>1. RequestGood(changes, sequence, bucket, request[r])
      BY <1>1, RequestForms
    <3>2. request[r].since \in Nat /\ request[r].revision \in Nat
      BY <1>2, RequestForm
    <3>3. request[r].since <= sequence + 1 /\ request[r].revision <= sequence + 1
      BY <1>2, <3>1, <3>2 DEF RequestGood
    <3> QED  BY <3>1, <3>3 DEF RequestGood
  <2> QED  BY <1>4, <2>1, <2>2, <2>3 DEF AnswerInv
<1>9. TokenInv'
  <2>1. ASSUME NEW h \in Hosts
        PROVE  TokenGood("done", sequence + 1, sequence + 1, watch[h], markers'[h], token[h],
                         seenIdentity[h], missed[h])
    <3>1. TokenGood(revoked, sequence, identity, watch[h], markers[h], token[h],
                    seenIdentity[h], missed[h])
      BY <1>1, HostForms
    <3> QED  BY <1>2, <1>5, <3>1, TokenDrops
  <2>2. ASSUME NEW r \in Requests  PROVE ReadGood("done", sequence + 1, sequence + 1, request[r])
    <3>1. ReadGood(revoked, sequence, identity, request[r])
      BY <1>1, RequestForms
    <3> QED  BY <1>2, <3>1, ReadWaits
  <2>3. sequence + 1 <= sequence + 1
    BY <1>2
  <2> QED  BY <1>4, <2>1, <2>2, <2>3 DEF TokenInv
<1> QED  BY <1>7, <1>8, <1>9 DEF Inv

-----------------------------------------------------------------------------
(* The time to live.                                                        *)

LEMMA BucketExpiresKeeps ==
  ASSUME Inv, BucketExpires
  PROVE  Inv'
<1> USE DEF facts, deliveries, replica, faults
<1>1. TypeOK /\ AnswerInv /\ TokenInv
  BY DEF Inv
<1>2. bucket' = NoEntry /\ UNCHANGED <<facts, sequence, identity, watch, deliveries, replica, request, faults>>
  BY DEF BucketExpires
<1>3. TypeOK'
  <2>1. BucketTypes'
    BY <1>1, <1>2, AnswerForms DEF TypeOK, BucketTypes
  <2> QED  BY <1>1, <1>2, <2>1 DEF TypeOK, FactTypes, Fact, WatchTypes, ReplicaTypes
<1>4. AnswerInv'
  <2>1. BucketGood(changes, sequence, NoEntry)
    <3>1. NoEntry.revision = 0 /\ NoEntry.answer = Deleted /\ sequence \in Nat
      BY <1>1, StateForms DEF NoEntry
    <3> QED  BY <3>1, DeletedIsFresh DEF BucketGood
  <2>2. ASSUME NEW h \in Hosts
        PROVE  /\ QueueGood(changes, sequence, NoEntry, queue[h])
               /\ EntryGood(changes, sequence, NoEntry, watch[h], queue[h], entry[h], missed[h])
    BY <1>1, HostForms, StateForms, BucketForgets
  <2>3. ASSUME NEW r \in Requests  PROVE RequestGood(changes, sequence, NoEntry, request[r])
    <3>1. request[r].phase = "idle" \/ request[r].since >= bucket.revision
      BY DEF BucketExpires, BeganSince
    <3> QED  BY <1>1, <3>1, RequestForms, StateForms, RequestForgets
  <2> QED  BY <1>2, <2>1, <2>2, <2>3 DEF AnswerInv
<1>5. TokenInv'
  BY <1>1, <1>2 DEF TokenInv
<1> QED  BY <1>3, <1>4, <1>5 DEF Inv

LEMMA IdentityExpiresKeeps ==
  ASSUME Inv, IdentityExpires
  PROVE  Inv'
<1> USE DEF facts, deliveries, replica, faults
<1>1. TypeOK /\ AnswerInv /\ TokenInv
  BY DEF Inv
<1>2. identity' = 0 /\ UNCHANGED <<facts, sequence, bucket, watch, deliveries, replica, request, faults>>
  BY DEF IdentityExpires
<1>3. TypeOK'
  <2>1. BucketTypes'
    BY <1>1, <1>2, RevisionsAreNumbers DEF TypeOK, BucketTypes, Revisions
  <2> QED  BY <1>1, <1>2, <2>1 DEF TypeOK, FactTypes, Fact, WatchTypes, ReplicaTypes
<1>4. AnswerInv'
  BY <1>1, <1>2 DEF AnswerInv
<1>5. TokenInv'
  <2>1. ASSUME NEW h \in Hosts
        PROVE  TokenGood(revoked, sequence, 0, watch[h], markers[h], token[h], seenIdentity[h], missed[h])
    BY <1>1, HostForms, StateForms, TokenForgets
  <2>2. ASSUME NEW r \in Requests  PROVE ReadGood(revoked, sequence, 0, request[r])
    <3>1. request[r].phase = "idle" \/ request[r].since >= identity
      BY DEF IdentityExpires, BeganSince
    <3>2. request[r].since \in Nat /\ identity \in Nat
      BY <1>1, StateForms, RequestForm
    <3>3. ReadGood(revoked, sequence, identity, request[r])
      BY <1>1, RequestForms
    <3> QED  BY <3>1, <3>2, <3>3 DEF ReadGood
  <2>3. 0 <= sequence
    BY <1>1, StateForms
  <2> QED  BY <1>2, <2>1, <2>2, <2>3 DEF TokenInv
<1> QED  BY <1>3, <1>4, <1>5 DEF Inv

-----------------------------------------------------------------------------
(* The watch of a host.                                                     *)

LEMMA WatchStartsKeeps ==
  ASSUME Inv, NEW h \in Hosts, WatchStarts(h)
  PROVE  Inv'
<1> USE DEF facts, kv, deliveries, replica, faults
<1>1. TypeOK /\ AnswerInv /\ TokenInv /\ WatchTypes /\ ReplicaTypes
  BY DEF Inv, TypeOK
<1>2. /\ sequence \in Nat /\ bucket \in Messages /\ identity \in Nat /\ seenIdentity[h] \in Nat
      /\ queue[h] \in Seq(Messages) /\ markers[h] \in Seq(Revisions) /\ entry[h] \in Entries
  BY <1>1, StateForms
<1>3. /\ QueueGood(changes, sequence, bucket, queue[h])
      /\ EntryGood(changes, sequence, bucket, watch[h], queue[h], entry[h], missed[h])
      /\ TokenGood(revoked, sequence, identity, watch[h], markers[h], token[h],
                   seenIdentity[h], missed[h])
  BY <1>1, HostForms
<1>4. /\ watch[h] = "closed" /\ watch'[h] = "watching" /\ entry'[h] = entry[h] /\ token'[h] = token[h]
      /\ queue'[h] = (IF bucket.revision = 0 THEN <<>> ELSE <<bucket>>) /\ missed'[h] = missed[h]
      /\ markers'[h] = (IF identity = 0 THEN <<>> ELSE <<identity>>) /\ seenIdentity'[h] = seenIdentity[h]
  BY <1>1 DEF WatchStarts, Cleared, WatchTypes, ReplicaTypes
<1>5. \A g \in Hosts : g # h =>
          /\ watch'[g] = watch[g] /\ queue'[g] = queue[g] /\ markers'[g] = markers[g]
          /\ entry'[g] = entry[g] /\ token'[g] = token[g] /\ missed'[g] = missed[g]
          /\ seenIdentity'[g] = seenIdentity[g]
  BY <1>1 DEF WatchStarts, Cleared, WatchTypes, ReplicaTypes
<1>6. WatchTypes'
  <2>1. (IF bucket.revision = 0 THEN <<>> ELSE <<bucket>>) \in Seq(Messages)
    BY <1>2
  <2>2. (IF identity = 0 THEN <<>> ELSE <<identity>>) \in Seq(Revisions)
    BY <1>1 DEF TypeOK, BucketTypes
  <2> QED  BY <1>1, <2>1, <2>2 DEF WatchStarts, WatchTypes
<1>7. ReplicaTypes'
  BY <1>1 DEF WatchStarts, ReplicaTypes
<1>8. /\ QueueGood(changes, sequence, bucket, queue'[h])
      /\ EntryGood(changes, sequence, bucket, watch'[h], queue'[h], entry'[h], missed'[h])
  <2>1. BucketGood(changes, sequence, bucket)
    BY <1>1 DEF AnswerInv
  <2>2. EntryGood(changes, sequence, bucket, "closed", queue[h], entry[h], missed[h])
    BY <1>3, <1>4
  <2>3. /\ QueueGood(changes, sequence, bucket, queue'[h])
        /\ EntryGood(changes, sequence, bucket, "watching", queue'[h], entry[h], missed[h])
    BY <1>2, <1>4, <2>1, <2>2, EntryStarts
  <2> QED  BY <1>4, <2>3
<1>9. TokenGood(revoked, sequence, identity, watch'[h], markers'[h], token'[h],
                seenIdentity'[h], missed'[h])
  <2>1. TokenGood(revoked, sequence, identity, "closed", markers[h], token[h], seenIdentity[h], missed[h])
    BY <1>3, <1>4
  <2>2. identity <= sequence
    BY <1>1 DEF TokenInv
  <2>3. TokenGood(revoked, sequence, identity, "watching", markers'[h], token[h], seenIdentity[h], missed[h])
    BY <1>2, <1>4, <2>1, <2>2, TokenStarts
  <2> QED  BY <1>4, <2>3
<1>10. UNCHANGED <<facts, kv, request>> /\ request' \in [Requests -> RequestStates]
  BY <1>1 DEF WatchStarts, TypeOK
<1> QED  BY <1>5, <1>6, <1>7, <1>8, <1>9, <1>10, HostStep

LEMMA WatchOpensKeeps ==
  ASSUME Inv, NEW h \in Hosts, WatchOpens(h)
  PROVE  Inv'
<1> USE DEF facts, kv, deliveries, replica, faults
<1>1. TypeOK /\ AnswerInv /\ TokenInv /\ WatchTypes /\ ReplicaTypes
  BY DEF Inv, TypeOK
<1>2. /\ sequence \in Nat /\ bucket \in Messages /\ identity \in Nat /\ seenIdentity[h] \in Nat
      /\ queue[h] \in Seq(Messages) /\ markers[h] \in Seq(Revisions) /\ entry[h] \in Entries
  BY <1>1, StateForms
<1>3. /\ QueueGood(changes, sequence, bucket, queue[h])
      /\ EntryGood(changes, sequence, bucket, watch[h], queue[h], entry[h], missed[h])
      /\ TokenGood(revoked, sequence, identity, watch[h], markers[h], token[h],
                   seenIdentity[h], missed[h])
  BY <1>1, HostForms
<1>4. /\ watch[h] = "watching" /\ watch'[h] = "open" /\ entry'[h] = Unkept /\ token'[h] = FALSE
      /\ queue'[h] = queue[h] /\ markers'[h] = markers[h] /\ missed'[h] = missed[h]
      /\ seenIdentity'[h] = seenIdentity[h]
  BY <1>1 DEF WatchOpens, Cleared, WatchTypes, ReplicaTypes
<1>5. \A g \in Hosts : g # h =>
          /\ watch'[g] = watch[g] /\ queue'[g] = queue[g] /\ markers'[g] = markers[g]
          /\ entry'[g] = entry[g] /\ token'[g] = token[g] /\ missed'[g] = missed[g]
          /\ seenIdentity'[g] = seenIdentity[g]
  BY <1>1 DEF WatchOpens, Cleared, WatchTypes, ReplicaTypes
<1>6. WatchTypes'
  BY <1>1 DEF WatchOpens, WatchTypes
<1>7. ReplicaTypes'
  BY <1>1, AnswerForms DEF WatchOpens, Cleared, ReplicaTypes
<1>8. /\ QueueGood(changes, sequence, bucket, queue'[h])
      /\ EntryGood(changes, sequence, bucket, watch'[h], queue'[h], entry'[h], missed'[h])
  <2>1. EntryGood(changes, sequence, bucket, "watching", queue[h], entry[h], missed[h])
    BY <1>3, <1>4
  <2>2. EntryGood(changes, sequence, bucket, "open", queue[h], Unkept, missed[h])
    BY <1>2, <2>1, EntryOpens
  <2> QED  BY <1>3, <1>4, <2>2
<1>9. TokenGood(revoked, sequence, identity, watch'[h], markers'[h], token'[h],
                seenIdentity'[h], missed'[h])
  <2>1. TokenGood(revoked, sequence, identity, "watching", markers[h], token[h], seenIdentity[h], missed[h])
    BY <1>3, <1>4
  <2> QED  BY <1>4, <2>1, TokenWatches
<1>10. UNCHANGED <<facts, kv, request>> /\ request' \in [Requests -> RequestStates]
  BY <1>1 DEF WatchOpens, TypeOK
<1> QED  BY <1>5, <1>6, <1>7, <1>8, <1>9, <1>10, HostStep

LEMMA WatchBreaksKeeps ==
  ASSUME Inv, NEW h \in Hosts, WatchBreaks(h)
  PROVE  Inv'
<1> USE DEF facts, kv, deliveries, replica, faults
<1>1. TypeOK /\ AnswerInv /\ TokenInv /\ WatchTypes /\ ReplicaTypes
  BY DEF Inv, TypeOK
<1>2. /\ sequence \in Nat /\ bucket \in Messages /\ identity \in Nat /\ seenIdentity[h] \in Nat
      /\ queue[h] \in Seq(Messages) /\ markers[h] \in Seq(Revisions) /\ entry[h] \in Entries
  BY <1>1, StateForms
<1>3. /\ QueueGood(changes, sequence, bucket, queue[h])
      /\ EntryGood(changes, sequence, bucket, watch[h], queue[h], entry[h], missed[h])
      /\ TokenGood(revoked, sequence, identity, watch[h], markers[h], token[h],
                   seenIdentity[h], missed[h])
  BY <1>1, HostForms
<1>4. /\ watch[h] = "open" /\ watch'[h] = "unset" /\ entry'[h] = entry[h] /\ token'[h] = token[h]
      /\ queue'[h] = <<>> /\ markers'[h] = <<>> /\ missed'[h] = missed[h]
      /\ seenIdentity'[h] = seenIdentity[h]
  BY <1>1 DEF WatchBreaks, Cleared, WatchTypes, ReplicaTypes
<1>5. \A g \in Hosts : g # h =>
          /\ watch'[g] = watch[g] /\ queue'[g] = queue[g] /\ markers'[g] = markers[g]
          /\ entry'[g] = entry[g] /\ token'[g] = token[g] /\ missed'[g] = missed[g]
          /\ seenIdentity'[g] = seenIdentity[g]
  BY <1>1 DEF WatchBreaks, Cleared, WatchTypes, ReplicaTypes
<1>6. WatchTypes'
  <2>1. breaks' \in 0 .. MaxBreaks
    BY <1>1, BoundsAssumption DEF WatchBreaks, WatchTypes
  <2>2. <<>> \in Seq(Messages) /\ <<>> \in Seq(Revisions)
    OBVIOUS
  <2> QED  BY <1>1, <2>1, <2>2 DEF WatchBreaks, WatchTypes
<1>7. ReplicaTypes'
  BY <1>1 DEF WatchBreaks, ReplicaTypes
<1>8. /\ QueueGood(changes, sequence, bucket, queue'[h])
      /\ EntryGood(changes, sequence, bucket, watch'[h], queue'[h], entry'[h], missed'[h])
  <2>1. EntryGood(changes, sequence, bucket, "open", queue[h], entry[h], missed[h])
    BY <1>3, <1>4
  <2> QED  BY <1>2, <1>4, <2>1, EntryBreaks
<1>9. TokenGood(revoked, sequence, identity, watch'[h], markers'[h], token'[h],
                seenIdentity'[h], missed'[h])
  <2>1. TokenGood(revoked, sequence, identity, "open", markers[h], token[h], seenIdentity[h], missed[h])
    BY <1>3, <1>4
  <2> QED  BY <1>4, <2>1, TokenWatches
<1>10. UNCHANGED <<facts, kv, request>> /\ request' \in [Requests -> RequestStates]
  BY <1>1 DEF WatchBreaks, TypeOK
<1> QED  BY <1>5, <1>6, <1>7, <1>8, <1>9, <1>10, HostStep

LEMMA WatchClearsKeeps ==
  ASSUME Inv, NEW h \in Hosts, WatchClears(h)
  PROVE  Inv'
<1> USE DEF facts, kv, deliveries, replica, faults
<1>1. TypeOK /\ AnswerInv /\ TokenInv /\ WatchTypes /\ ReplicaTypes
  BY DEF Inv, TypeOK
<1>2. /\ sequence \in Nat /\ bucket \in Messages /\ identity \in Nat /\ seenIdentity[h] \in Nat
      /\ queue[h] \in Seq(Messages) /\ markers[h] \in Seq(Revisions) /\ entry[h] \in Entries
  BY <1>1, StateForms
<1>3. /\ QueueGood(changes, sequence, bucket, queue[h])
      /\ EntryGood(changes, sequence, bucket, watch[h], queue[h], entry[h], missed[h])
      /\ TokenGood(revoked, sequence, identity, watch[h], markers[h], token[h],
                   seenIdentity[h], missed[h])
  BY <1>1, HostForms
<1>4. /\ watch[h] = "unset" /\ watch'[h] = "closed" /\ entry'[h] = Unkept /\ token'[h] = FALSE
      /\ queue'[h] = queue[h] /\ markers'[h] = markers[h] /\ missed'[h] = FALSE
      /\ seenIdentity'[h] = seenIdentity[h]
  BY <1>1 DEF WatchClears, Cleared, WatchTypes, ReplicaTypes
<1>5. \A g \in Hosts : g # h =>
          /\ watch'[g] = watch[g] /\ queue'[g] = queue[g] /\ markers'[g] = markers[g]
          /\ entry'[g] = entry[g] /\ token'[g] = token[g] /\ missed'[g] = missed[g]
          /\ seenIdentity'[g] = seenIdentity[g]
  BY <1>1 DEF WatchClears, Cleared, WatchTypes, ReplicaTypes
<1>6. WatchTypes'
  BY <1>1 DEF WatchClears, WatchTypes
<1>7. ReplicaTypes'
  BY <1>1, AnswerForms DEF WatchClears, Cleared, ReplicaTypes
<1>8. /\ QueueGood(changes, sequence, bucket, queue'[h])
      /\ EntryGood(changes, sequence, bucket, watch'[h], queue'[h], entry'[h], missed'[h])
  <2>1. queue'[h] = <<>>
    BY <1>3, <1>4 DEF EntryGood
  <2>2. /\ QueueGood(changes, sequence, bucket, <<>>)
        /\ EntryGood(changes, sequence, bucket, "closed", <<>>, Unkept, FALSE)
    BY <1>2, UnkeptIsGood
  <2> QED  BY <1>4, <2>1, <2>2
<1>9. TokenGood(revoked, sequence, identity, watch'[h], markers'[h], token'[h],
                seenIdentity'[h], missed'[h])
  <2>1. TokenGood(revoked, sequence, identity, "unset", markers[h], token[h], seenIdentity[h], missed[h])
    BY <1>3, <1>4
  <2> QED  BY <1>4, <2>1, TokenWatches
<1>10. UNCHANGED <<facts, kv, request>> /\ request' \in [Requests -> RequestStates]
  BY <1>1 DEF WatchClears, TypeOK
<1> QED  BY <1>5, <1>6, <1>7, <1>8, <1>9, <1>10, HostStep

LEMMA LinkBlipsKeeps ==
  ASSUME Inv, NEW h \in Hosts, LinkBlips(h)
  PROVE  Inv'
<1> USE DEF facts, kv, deliveries, replica, faults
<1>1. TypeOK /\ AnswerInv /\ TokenInv /\ WatchTypes /\ ReplicaTypes
  BY DEF Inv, TypeOK
<1>2. /\ sequence \in Nat /\ bucket \in Messages /\ identity \in Nat /\ seenIdentity[h] \in Nat
      /\ queue[h] \in Seq(Messages) /\ markers[h] \in Seq(Revisions) /\ entry[h] \in Entries
  BY <1>1, StateForms
<1>3. /\ QueueGood(changes, sequence, bucket, queue[h])
      /\ EntryGood(changes, sequence, bucket, watch[h], queue[h], entry[h], missed[h])
      /\ TokenGood(revoked, sequence, identity, watch[h], markers[h], token[h],
                   seenIdentity[h], missed[h])
  BY <1>1, HostForms
<1>4. /\ watch[h] = "open" /\ watch'[h] = "open" /\ entry'[h] = entry[h] /\ token'[h] = token[h]
      /\ queue'[h] = <<>> /\ markers'[h] = <<>> /\ missed'[h] = TRUE
      /\ seenIdentity'[h] = seenIdentity[h]
  BY <1>1 DEF LinkBlips, Cleared, WatchTypes, ReplicaTypes
<1>5. \A g \in Hosts : g # h =>
          /\ watch'[g] = watch[g] /\ queue'[g] = queue[g] /\ markers'[g] = markers[g]
          /\ entry'[g] = entry[g] /\ token'[g] = token[g] /\ missed'[g] = missed[g]
          /\ seenIdentity'[g] = seenIdentity[g]
  BY <1>1 DEF LinkBlips, Cleared, WatchTypes, ReplicaTypes
<1>6. WatchTypes'
  <2>1. breaks' \in 0 .. MaxBreaks
    BY <1>1, BoundsAssumption DEF LinkBlips, WatchTypes
  <2>2. <<>> \in Seq(Messages) /\ <<>> \in Seq(Revisions)
    OBVIOUS
  <2> QED  BY <1>1, <2>1, <2>2 DEF LinkBlips, WatchTypes
<1>7. ReplicaTypes'
  BY <1>1 DEF LinkBlips, ReplicaTypes
<1>8. /\ QueueGood(changes, sequence, bucket, queue'[h])
      /\ EntryGood(changes, sequence, bucket, watch'[h], queue'[h], entry'[h], missed'[h])
  <2>1. EntryGood(changes, sequence, bucket, "open", queue[h], entry[h], missed[h])
    BY <1>3, <1>4
  <2> QED  BY <1>2, <1>4, <2>1, EntryBreaks
<1>9. TokenGood(revoked, sequence, identity, watch'[h], markers'[h], token'[h],
                seenIdentity'[h], missed'[h])
  <2>1. TokenGood(revoked, sequence, identity, "open", markers[h], token[h], seenIdentity[h], missed[h])
    BY <1>3, <1>4
  <2>2. TokenGood(revoked, sequence, identity, "open", <<>>, token[h], seenIdentity[h], TRUE)
    BY <2>1, TokenWatches
  <2> QED  BY <1>4, <2>2
<1>10. UNCHANGED <<facts, kv, request>> /\ request' \in [Requests -> RequestStates]
  BY <1>1 DEF LinkBlips, TypeOK
<1> QED  BY <1>5, <1>6, <1>7, <1>8, <1>9, <1>10, HostStep

LEMMA ApplyKeeps ==
  ASSUME Inv, NEW h \in Hosts, Apply(h)
  PROVE  Inv'
<1> USE DEF facts, kv, deliveries, replica, faults
<1>1. TypeOK /\ AnswerInv /\ TokenInv /\ WatchTypes /\ ReplicaTypes
  BY DEF Inv, TypeOK
<1>2. /\ sequence \in Nat /\ bucket \in Messages /\ identity \in Nat /\ seenIdentity[h] \in Nat
      /\ queue[h] \in Seq(Messages) /\ markers[h] \in Seq(Revisions) /\ entry[h] \in Entries
  BY <1>1, StateForms
<1>3. /\ QueueGood(changes, sequence, bucket, queue[h])
      /\ EntryGood(changes, sequence, bucket, watch[h], queue[h], entry[h], missed[h])
      /\ TokenGood(revoked, sequence, identity, watch[h], markers[h], token[h],
                   seenIdentity[h], missed[h])
  BY <1>1, HostForms
<1>4. /\ watch[h] = "open" /\ watch'[h] = "open" /\ token'[h] = token[h] /\ queue[h] # <<>>
      /\ entry'[h] = KeepEntry(h, Head(queue[h]).revision, Head(queue[h]).answer)
      /\ queue'[h] = Tail(queue[h]) /\ markers'[h] = markers[h] /\ missed'[h] = missed[h]
      /\ seenIdentity'[h] = seenIdentity[h]
  BY <1>1 DEF Apply, Cleared, WatchTypes, ReplicaTypes
<1>5. \A g \in Hosts : g # h =>
          /\ watch'[g] = watch[g] /\ queue'[g] = queue[g] /\ markers'[g] = markers[g]
          /\ entry'[g] = entry[g] /\ token'[g] = token[g] /\ missed'[g] = missed[g]
          /\ seenIdentity'[g] = seenIdentity[g]
  BY <1>1 DEF Apply, Cleared, WatchTypes, ReplicaTypes
<1>6. WatchTypes'
  <2>1. Tail(queue[h]) \in Seq(Messages)
    BY <1>2, <1>4
  <2> QED  BY <1>1, <2>1 DEF Apply, WatchTypes
<1>7. ReplicaTypes'
  <2>1. Head(queue[h]) \in Messages
    BY <1>2, <1>4
  <2>2. [revision |-> Head(queue[h]).revision, answer |-> Head(queue[h]).answer, live |-> TRUE] \in Entries
    BY <2>1 DEF Messages, Entries
  <2>3. KeepEntry(h, Head(queue[h]).revision, Head(queue[h]).answer) \in Entries
    BY <1>2, <2>2 DEF KeepEntry
  <2> QED  BY <1>1, <2>3 DEF Apply, ReplicaTypes
<1>8. /\ QueueGood(changes, sequence, bucket, queue'[h])
      /\ EntryGood(changes, sequence, bucket, watch'[h], queue'[h], entry'[h], missed'[h])
  <2>1. EntryGood(changes, sequence, bucket, "open", queue[h], entry[h], missed[h])
    BY <1>3, <1>4
  <2>2. entry'[h] = IF Head(queue[h]).revision >= entry[h].revision
                    THEN [revision |-> Head(queue[h]).revision, answer |-> Head(queue[h]).answer,
                          live |-> TRUE]
                    ELSE entry[h]
    BY <1>4 DEF KeepEntry, HasBucket
  <2>3. /\ QueueGood(changes, sequence, bucket, Tail(queue[h]))
        /\ EntryGood(changes, sequence, bucket, "open", Tail(queue[h]), entry'[h], missed[h])
    BY <1>2, <1>3, <1>4, <2>1, <2>2, EntryApplies
  <2> QED  BY <1>4, <2>3
<1>9. TokenGood(revoked, sequence, identity, watch'[h], markers'[h], token'[h],
                seenIdentity'[h], missed'[h])
  BY <1>3, <1>4
<1>10. UNCHANGED <<facts, kv, request>> /\ request' \in [Requests -> RequestStates]
  BY <1>1 DEF Apply, TypeOK
<1> QED  BY <1>5, <1>6, <1>7, <1>8, <1>9, <1>10, HostStep

LEMMA ApplyIdentityKeeps ==
  ASSUME Inv, NEW h \in Hosts, ApplyIdentity(h)
  PROVE  Inv'
<1> USE DEF facts, kv, deliveries, replica, faults
<1>1. TypeOK /\ AnswerInv /\ TokenInv /\ WatchTypes /\ ReplicaTypes
  BY DEF Inv, TypeOK
<1>2. /\ sequence \in Nat /\ bucket \in Messages /\ identity \in Nat /\ seenIdentity[h] \in Nat
      /\ queue[h] \in Seq(Messages) /\ markers[h] \in Seq(Revisions) /\ entry[h] \in Entries
  BY <1>1, StateForms
<1>3. /\ QueueGood(changes, sequence, bucket, queue[h])
      /\ EntryGood(changes, sequence, bucket, watch[h], queue[h], entry[h], missed[h])
      /\ TokenGood(revoked, sequence, identity, watch[h], markers[h], token[h],
                   seenIdentity[h], missed[h])
  BY <1>1, HostForms
<1>4. /\ watch[h] = "open" /\ watch'[h] = "open" /\ token'[h] = FALSE /\ markers[h] # <<>>
      /\ entry'[h] = entry[h] /\ queue'[h] = queue[h] /\ markers'[h] = Tail(markers[h])
      /\ missed'[h] = missed[h]
      /\ seenIdentity'[h] = IF Head(markers[h]) > seenIdentity[h] THEN Head(markers[h])
                            ELSE seenIdentity[h]
  BY <1>1 DEF ApplyIdentity, Cleared, WatchTypes, ReplicaTypes
<1>5. \A g \in Hosts : g # h =>
          /\ watch'[g] = watch[g] /\ queue'[g] = queue[g] /\ markers'[g] = markers[g]
          /\ entry'[g] = entry[g] /\ token'[g] = token[g] /\ missed'[g] = missed[g]
          /\ seenIdentity'[g] = seenIdentity[g]
  BY <1>1 DEF ApplyIdentity, Cleared, WatchTypes, ReplicaTypes
<1>6. WatchTypes'
  <2>1. Tail(markers[h]) \in Seq(Revisions)
    BY <1>2, <1>4
  <2> QED  BY <1>1, <2>1 DEF ApplyIdentity, WatchTypes
<1>7. ReplicaTypes'
  <2>1. Head(markers[h]) \in Revisions
    BY <1>2, <1>4
  <2> QED  BY <1>1, <2>1 DEF ApplyIdentity, ReplicaTypes
<1>8. /\ QueueGood(changes, sequence, bucket, queue'[h])
      /\ EntryGood(changes, sequence, bucket, watch'[h], queue'[h], entry'[h], missed'[h])
  BY <1>3, <1>4
<1>9. TokenGood(revoked, sequence, identity, watch'[h], markers'[h], token'[h],
                seenIdentity'[h], missed'[h])
  <2>1. TokenGood(revoked, sequence, identity, "open", markers[h], token[h], seenIdentity[h], missed[h])
    BY <1>3, <1>4
  <2>2. TokenGood(revoked, sequence, identity, "open", Tail(markers[h]), FALSE, seenIdentity'[h], missed[h])
    BY <1>2, <1>4, <2>1, TokenApplies
  <2> QED  BY <1>4, <2>2
<1>10. UNCHANGED <<facts, kv, request>> /\ request' \in [Requests -> RequestStates]
  BY <1>1 DEF ApplyIdentity, TypeOK
<1> QED  BY <1>5, <1>6, <1>7, <1>8, <1>9, <1>10, HostStep

LEMMA ReplicaExpiresKeeps ==
  ASSUME Inv, NEW h \in Hosts, ReplicaExpires(h)
  PROVE  Inv'
<1> USE DEF facts, kv, deliveries, replica, faults
<1>1. TypeOK /\ AnswerInv /\ TokenInv /\ WatchTypes /\ ReplicaTypes
  BY DEF Inv, TypeOK
<1>2. /\ sequence \in Nat /\ bucket \in Messages /\ identity \in Nat /\ seenIdentity[h] \in Nat
      /\ queue[h] \in Seq(Messages) /\ markers[h] \in Seq(Revisions) /\ entry[h] \in Entries
  BY <1>1, StateForms
<1>3. /\ QueueGood(changes, sequence, bucket, queue[h])
      /\ EntryGood(changes, sequence, bucket, watch[h], queue[h], entry[h], missed[h])
      /\ TokenGood(revoked, sequence, identity, watch[h], markers[h], token[h],
                   seenIdentity[h], missed[h])
  BY <1>1, HostForms
<1>4. /\ watch'[h] = watch[h] /\ token'[h] = token[h] /\ queue'[h] = queue[h] /\ entry[h].live
      /\ entry'[h] = [entry[h] EXCEPT !.live = FALSE, !.answer = Deleted]
      /\ markers'[h] = markers[h] /\ missed'[h] = missed[h] /\ seenIdentity'[h] = seenIdentity[h]
  BY <1>1 DEF ReplicaExpires, Cleared, WatchTypes, ReplicaTypes
<1>5. \A g \in Hosts : g # h =>
          /\ watch'[g] = watch[g] /\ queue'[g] = queue[g] /\ markers'[g] = markers[g]
          /\ entry'[g] = entry[g] /\ token'[g] = token[g] /\ missed'[g] = missed[g]
          /\ seenIdentity'[g] = seenIdentity[g]
  BY <1>1 DEF ReplicaExpires, Cleared, WatchTypes, ReplicaTypes
<1>6. WatchTypes'
  BY <1>1 DEF ReplicaExpires, WatchTypes
<1>7. ReplicaTypes'
  <2>1. [entry[h] EXCEPT !.live = FALSE, !.answer = Deleted] \in Entries
    BY <1>2, AnswerForms DEF Entries
  <2>2. entry' = [entry EXCEPT ![h] = [entry[h] EXCEPT !.live = FALSE, !.answer = Deleted]]
    BY <1>1 DEF ReplicaExpires, ReplicaTypes
  <2> QED  BY <1>1, <2>1, <2>2 DEF ReplicaExpires, ReplicaTypes
<1>8. /\ QueueGood(changes, sequence, bucket, queue'[h])
      /\ EntryGood(changes, sequence, bucket, watch'[h], queue'[h], entry'[h], missed'[h])
  BY <1>2, <1>3, <1>4, EntryExpires
<1>9. TokenGood(revoked, sequence, identity, watch'[h], markers'[h], token'[h],
                seenIdentity'[h], missed'[h])
  BY <1>3, <1>4
<1>10. UNCHANGED <<facts, kv, request>> /\ request' \in [Requests -> RequestStates]
  BY <1>1 DEF ReplicaExpires, TypeOK
<1> QED  BY <1>5, <1>6, <1>7, <1>8, <1>9, <1>10, HostStep

LEMMA TokenExpiresKeeps ==
  ASSUME Inv, NEW h \in Hosts, TokenExpires(h)
  PROVE  Inv'
<1> USE DEF facts, kv, deliveries, replica, faults
<1>1. TypeOK /\ AnswerInv /\ TokenInv /\ WatchTypes /\ ReplicaTypes
  BY DEF Inv, TypeOK
<1>2. /\ sequence \in Nat /\ bucket \in Messages /\ identity \in Nat /\ seenIdentity[h] \in Nat
      /\ queue[h] \in Seq(Messages) /\ markers[h] \in Seq(Revisions) /\ entry[h] \in Entries
  BY <1>1, StateForms
<1>3. /\ QueueGood(changes, sequence, bucket, queue[h])
      /\ EntryGood(changes, sequence, bucket, watch[h], queue[h], entry[h], missed[h])
      /\ TokenGood(revoked, sequence, identity, watch[h], markers[h], token[h],
                   seenIdentity[h], missed[h])
  BY <1>1, HostForms
<1>4. /\ watch'[h] = watch[h] /\ token'[h] = FALSE /\ queue'[h] = queue[h] /\ entry'[h] = entry[h]
      /\ markers'[h] = markers[h] /\ missed'[h] = missed[h] /\ seenIdentity'[h] = seenIdentity[h]
  BY <1>1 DEF TokenExpires, Cleared, WatchTypes, ReplicaTypes
<1>5. \A g \in Hosts : g # h =>
          /\ watch'[g] = watch[g] /\ queue'[g] = queue[g] /\ markers'[g] = markers[g]
          /\ entry'[g] = entry[g] /\ token'[g] = token[g] /\ missed'[g] = missed[g]
          /\ seenIdentity'[g] = seenIdentity[g]
  BY <1>1 DEF TokenExpires, Cleared, WatchTypes, ReplicaTypes
<1>6. WatchTypes'
  BY <1>1 DEF TokenExpires, WatchTypes
<1>7. ReplicaTypes'
  BY <1>1 DEF TokenExpires, ReplicaTypes
<1>8. /\ QueueGood(changes, sequence, bucket, queue'[h])
      /\ EntryGood(changes, sequence, bucket, watch'[h], queue'[h], entry'[h], missed'[h])
  BY <1>3, <1>4
<1>9. TokenGood(revoked, sequence, identity, watch'[h], markers'[h], token'[h],
                seenIdentity'[h], missed'[h])
  BY <1>2, <1>3, <1>4, TokenForgets
<1>10. UNCHANGED <<facts, kv, request>> /\ request' \in [Requests -> RequestStates]
  BY <1>1 DEF TokenExpires, TypeOK
<1> QED  BY <1>5, <1>6, <1>7, <1>8, <1>9, <1>10, HostStep

-----------------------------------------------------------------------------
(* The requests.                                                            *)

LEMMA MissKeeps ==
  ASSUME Inv, NEW r \in Requests, NEW what \in ReadsOf[r], Miss(r, what)
  PROVE  Inv'
<1>1. TypeOK /\ AnswerInv /\ TokenInv
  BY DEF Inv
<1>2. PICK h \in Hosts : h = HostOf[r]
  BY HostOfAssumption
<1>3. PICK t : t = IF what = "token" THEN seenIdentity[h] ELSE Ticket(h)
  OBVIOUS
<1>4. sequence \in Nat /\ sequence \in Revisions /\ entry[h] \in Entries /\ seenIdentity[h] \in Revisions
  BY <1>1, StateForms DEF TypeOK, BucketTypes, ReplicaTypes
<1>5. entry[h].revision \in Revisions /\ entry[h].revision <= sequence /\ seenIdentity[h] <= sequence
  BY <1>1, <1>4, HostForms DEF Entries, EntryGood, TokenGood
<1>6. t \in Revisions /\ t <= sequence
  BY <1>3, <1>4, <1>5, RevisionsAreNumbers DEF Ticket, Revisions
<1>7. PICK rq : rq = [Idle EXCEPT !.phase = "miss", !.reads = what, !.since = sequence, !.ticket = t]
  OBVIOUS
<1>8. what \in {"grants", "provisioned", "token"}
  BY ReadsOfAssumption
<1>9. rq \in RequestStates /\ rq.phase = "miss" /\ rq.since = sequence /\ rq.ticket = t
  <2>1. Idle \in RequestStates
    BY AnswerForms
  <2> QED  BY <1>4, <1>6, <1>7, <1>8, <2>1 DEF RequestStates
<1>10. request' = [request EXCEPT ![r] = rq] /\ UNCHANGED <<facts, kv, watch, deliveries, replica, faults>>
  BY <1>2, <1>3, <1>7 DEF Miss
<1>11. RequestGood(changes, sequence, bucket, rq)
  BY <1>4, <1>6, <1>7, RequestMisses
<1>12. ReadGood(revoked, sequence, identity, rq)
  BY <1>4, <1>6, <1>9 DEF ReadGood
<1> QED  BY <1>9, <1>10, <1>11, <1>12, RequestStep

LEMMA QueryKeeps ==
  ASSUME Inv, NEW r \in Requests, Query(r)
  PROVE  Inv'
<1>1. TypeOK /\ AnswerInv /\ TokenInv
  BY DEF Inv
<1>2. /\ sequence \in Nat /\ Len(changes) \in Nat /\ request[r] \in RequestStates
      /\ RequestGood(changes, sequence, bucket, request[r])
      /\ ReadGood(revoked, sequence, identity, request[r])
  BY <1>1, StateForms, RequestForms
<1>3. UNCHANGED <<facts, kv, watch, deliveries, replica, faults>> /\ request[r].phase = "miss"
  BY DEF Query
<1>4. CASE Refused(request[r].reads)
  <2>1. request' = [request EXCEPT ![r] = Idle]
    BY <1>1, <1>4 DEF Query, TypeOK
  <2> QED  BY <1>2, <1>3, <2>1, AnswerForms, IdleIsGood, IdleReads, RequestStep
<1>5. CASE ~Refused(request[r].reads)
  <2>1. PICK v : v = IF request[r].reads = "token" THEN None ELSE Fact
    OBVIOUS
  <2>2. v \in {None, Len(changes)} /\ v \in Versions \cup {None}
    BY <1>1, <2>1 DEF Fact, TypeOK, FactTypes
  <2>3. PICK rq : rq = [request[r] EXCEPT !.phase = "read", !.answer.grants = v]
    OBVIOUS
  <2>4. request' = [request EXCEPT ![r] = rq]
    BY <1>1, <1>5, <2>1, <2>3 DEF Query, TypeOK
  <2>5. /\ rq \in RequestStates /\ rq.phase = "read" /\ rq.reads = request[r].reads
        /\ rq.since = request[r].since /\ rq.ticket = request[r].ticket
    <3>1. [request[r].answer EXCEPT !.grants = v] \in Answers
      BY <1>2, <2>2, RequestForm DEF Answers
    <3>2. rq = [request[r] EXCEPT !.phase = "read", !.answer = [request[r].answer EXCEPT !.grants = v]]
      BY <1>2, <2>3 DEF RequestStates
    <3> QED  BY <1>2, <3>1, <3>2 DEF RequestStates
  <2>6. RequestGood(changes, sequence, bucket, rq)
    BY <1>2, <1>3, <2>2, <2>3, RequestQueries
  <2>7. ReadGood(revoked, sequence, identity, rq)
    BY <1>2, <1>5, <2>5 DEF Refused, ReadGood
  <2> QED  BY <1>3, <2>4, <2>5, <2>6, <2>7, RequestStep
<1> QED  BY <1>4, <1>5

LEMMA GivesUpKeeps ==
  ASSUME Inv, NEW r \in Requests, UpdateFails(r) \/ PutTimesOut(r)
  PROVE  Inv'
<1>1. request' = [request EXCEPT ![r] = Idle] /\ UNCHANGED <<facts, kv, watch, deliveries, replica, faults>>
  BY DEF UpdateFails, PutTimesOut
<1>2. sequence \in Nat
  BY StateForms DEF Inv
<1> QED  BY <1>1, <1>2, AnswerForms, IdleIsGood, IdleReads, RequestStep

LEMMA KeepKeeps ==
  ASSUME Inv, NEW r \in Requests, Keep(r)
  PROVE  Inv'
<1>1. TypeOK /\ AnswerInv /\ TokenInv
  BY DEF Inv
<1>2. PICK h \in Hosts : h = HostOf[r]
  BY HostOfAssumption
<1>3. /\ sequence \in Nat /\ bucket \in Messages /\ request[r] \in RequestStates /\ entry[h] \in Entries
      /\ RequestGood(changes, sequence, bucket, request[r])
      /\ ReadGood(revoked, sequence, identity, request[r])
      /\ EntryGood(changes, sequence, bucket, watch[h], queue[h], entry[h], missed[h])
  BY <1>1, StateForms, RequestForms, HostForms
<1>4. UNCHANGED <<facts, kv, watch, deliveries, replica, faults>> /\ request[r].phase = "read"
  BY DEF Keep
<1>5. CASE ~HasBucket(h)
  <2>1. request' = [request EXCEPT ![r] = Idle]
    BY <1>1, <1>2, <1>5 DEF Keep, TypeOK
  <2> QED  BY <1>3, <1>4, <2>1, AnswerForms, IdleIsGood, IdleReads, RequestStep
<1>6. CASE HasBucket(h)
  <2>1. PICK before : before = IF entry[h].live /\ entry[h].revision = request[r].ticket
                               THEN entry[h].answer ELSE Deleted
    OBVIOUS
  <2>2. before \in Answers /\ request[r].answer \in Answers
    BY <1>3, <2>1, EntryForm, RequestForm, AnswerForms
  <2>3. before = Replaced(h, request[r].ticket)
    BY <2>1 DEF Replaced
  <2>4. PICK a : a = Kept(r)
    OBVIOUS
  <2>5. /\ a \in Answers /\ a.grants \in {request[r].answer.grants, before.grants}
        /\ a.provisioned \in {request[r].answer.grants, before.provisioned}
    <3>1. CASE request[r].reads = "grants"
      <4>1. PICK v \in {request[r].answer.grants, before.provisioned} :
                a = [grants |-> request[r].answer.grants, provisioned |-> v]
        BY <1>2, <2>3, <2>4, <3>1 DEF Kept
      <4>2. v \in Versions \cup {None} /\ request[r].answer.grants \in Versions \cup {None}
        <5>1. request[r].answer.grants \in Versions \cup {None} /\ before.provisioned \in Versions \cup {None}
          BY <2>2 DEF Answers
        <5> QED  BY <4>1, <5>1
      <4> QED  BY <4>1, <4>2 DEF Answers
    <3>2. CASE request[r].reads # "grants"
      <4>1. a = [grants |-> before.grants, provisioned |-> request[r].answer.grants]
        BY <1>2, <2>3, <2>4, <3>2 DEF Kept
      <4> QED  BY <2>2, <4>1 DEF Answers
    <3> QED  BY <3>1, <3>2
  <2>6. PICK rq : rq = [request[r] EXCEPT !.phase = "put", !.answer = a]
    OBVIOUS
  <2>7. request' = [request EXCEPT ![r] = rq]
    BY <1>1, <1>2, <1>6, <2>4, <2>6 DEF Keep, TypeOK
  <2>8. /\ rq \in RequestStates /\ rq.phase = "put" /\ rq.since = request[r].since
        /\ rq.ticket = request[r].ticket
    BY <1>3, <2>5, <2>6 DEF RequestStates
  <2>9. RequestGood(changes, sequence, bucket, rq)
    <3>1. BucketGood(changes, sequence, bucket)
      BY <1>1 DEF AnswerInv
    <3> QED  BY <1>3, <1>4, <2>1, <2>5, <2>6, <3>1, RequestKeeps
  <2>10. ReadGood(revoked, sequence, identity, rq)
    BY <1>3, <2>8 DEF ReadGood
  <2> QED  BY <1>4, <2>7, <2>8, <2>9, <2>10, RequestStep
<1> QED  BY <1>5, <1>6

LEMMA UpdateAcceptsKeeps ==
  ASSUME Inv, NEW r \in Requests, UpdateAccepts(r)
  PROVE  Inv'
<1>1. TypeOK /\ AnswerInv /\ TokenInv /\ FactTypes
  BY StateForms DEF Inv
<1>2. /\ sequence \in Nat /\ bucket \in Messages /\ request[r] \in RequestStates
      /\ RequestGood(changes, sequence, bucket, request[r])
      /\ ReadGood(revoked, sequence, identity, request[r])
  BY <1>1, StateForms, RequestForms
<1>3. /\ request[r].phase = "put" /\ bucket.revision = request[r].ticket /\ Write(request[r].answer)
      /\ UNCHANGED <<facts, watch, replica, faults>>
  BY DEF UpdateAccepts
<1>4. bucket' = [revision |-> sequence + 1, answer |-> request[r].answer] /\ sequence + 1 \in Revisions
  BY <1>2, <1>3, RevisionsAreNumbers DEF Write, Revisions
<1>5. PICK rq : rq = [request[r] EXCEPT !.phase = "accepted", !.revision = sequence + 1]
  OBVIOUS
<1>6. request' = [request EXCEPT ![r] = rq]
  BY <1>1, <1>5 DEF UpdateAccepts, TypeOK
<1>7. /\ rq \in RequestStates /\ rq.phase = "accepted" /\ rq.since = request[r].since
      /\ rq.ticket = request[r].ticket
  BY <1>2, <1>4, <1>5 DEF RequestStates
<1>8. ~Stale(changes, request[r].answer) /\ RequestGood(changes, sequence + 1, bucket', rq)
  BY <1>2, <1>3, <1>4, <1>5, RequestAccepted
<1>9. ReadGood(revoked, sequence + 1, identity, rq)
  <2>1. request[r].since \in Nat
    BY <1>2, RequestForm
  <2> QED  BY <1>2, <1>7, <2>1 DEF ReadGood
<1>10. request' \in [Requests -> RequestStates] /\ \A p \in Requests : request'[p] = IF p = r THEN rq ELSE request[p]
  BY <1>1, <1>6, <1>7 DEF TypeOK
<1>11. FactTypes' /\ changes' = changes /\ revoked' = revoked
  BY <1>1, <1>3 DEF FactTypes, Fact, facts
<1>12. request[r].answer \in Answers
  BY <1>2, RequestForm
<1> QED  BY <1>3, <1>8, <1>9, <1>10, <1>11, <1>12, WriteStep

LEMMA PutReturnsKeeps ==
  ASSUME Inv, NEW r \in Requests, PutReturns(r)
  PROVE  Inv'
<1> USE DEF facts, kv, deliveries, faults
<1>1. TypeOK /\ AnswerInv /\ TokenInv /\ WatchTypes /\ ReplicaTypes /\ request \in [Requests -> RequestStates]
  BY DEF Inv, TypeOK
<1>2. PICK h \in Hosts : h = HostOf[r]
  BY HostOfAssumption
<1>3. /\ sequence \in Nat /\ bucket \in Messages /\ request[r] \in RequestStates
      /\ queue[h] \in Seq(Messages) /\ entry[h] \in Entries
      /\ RequestGood(changes, sequence, bucket, request[r])
      /\ QueueGood(changes, sequence, bucket, queue[h])
      /\ EntryGood(changes, sequence, bucket, watch[h], queue[h], entry[h], missed[h])
      /\ TokenGood(revoked, sequence, identity, watch[h], markers[h], token[h], seenIdentity[h], missed[h])
  BY <1>1, StateForms, RequestForms, HostForms
<1>4. PICK e : e = KeepEntry(h, request[r].revision, request[r].answer)
  OBVIOUS
<1>5. e = IF watch[h] = "open" /\ request[r].revision >= entry[h].revision
          THEN [revision |-> request[r].revision, answer |-> request[r].answer, live |-> TRUE]
          ELSE entry[h]
  BY <1>4 DEF KeepEntry, HasBucket
<1>6. e \in Entries
  <2>1. [revision |-> request[r].revision, answer |-> request[r].answer, live |-> TRUE] \in Entries
    BY <1>3 DEF RequestStates, Entries
  <2> QED  BY <1>3, <1>5, <2>1
<1>7. EntryGood(changes, sequence, bucket, watch[h], queue[h], e, missed[h])
  <2>1. request[r].phase = "accepted"
    BY DEF PutReturns
  <2> QED  BY <1>3, <1>5, <2>1, EntryPuts
<1>8. /\ entry' = [entry EXCEPT ![h] = e] /\ request' = [request EXCEPT ![r] = Idle]
      /\ UNCHANGED <<facts, kv, watch, deliveries, token, seenIdentity, faults>>
  BY <1>2, <1>4 DEF PutReturns
<1>9. WatchTypes' /\ ReplicaTypes'
  BY <1>1, <1>6, <1>8 DEF WatchTypes, ReplicaTypes
<1>10. /\ request' \in [Requests -> RequestStates]
       /\ \A p \in Requests : request'[p] \in {request[p], Idle}
  BY <1>1, <1>8, AnswerForms
<1>11. entry'[h] = e /\ \A g \in Hosts : g # h => entry'[g] = entry[g]
  BY <1>1, <1>8 DEF ReplicaTypes
<1> QED  BY <1>3, <1>7, <1>8, <1>9, <1>10, <1>11, HostStep

LEMMA KeepTokenKeeps ==
  ASSUME Inv, NEW r \in Requests, KeepToken(r)
  PROVE  Inv'
<1> USE DEF facts, kv, deliveries, faults
<1>1. TypeOK /\ AnswerInv /\ TokenInv /\ WatchTypes /\ ReplicaTypes /\ request \in [Requests -> RequestStates]
  BY DEF Inv, TypeOK
<1>2. PICK h \in Hosts : h = HostOf[r]
  BY HostOfAssumption
<1>3. /\ sequence \in Nat /\ identity \in Nat /\ request[r] \in RequestStates
      /\ token[h] \in BOOLEAN /\ seenIdentity[h] \in Nat
      /\ ReadGood(revoked, sequence, identity, request[r])
      /\ QueueGood(changes, sequence, bucket, queue[h])
      /\ EntryGood(changes, sequence, bucket, watch[h], queue[h], entry[h], missed[h])
      /\ TokenGood(revoked, sequence, identity, watch[h], markers[h], token[h], seenIdentity[h], missed[h])
  BY <1>1, StateForms, RequestForms, HostForms
<1>4. PICK k \in BOOLEAN : k = (token[h] \/ (watch[h] = "open" /\ seenIdentity[h] = request[r].ticket))
  OBVIOUS
<1>5. request[r].phase = "read" /\ request[r].reads = "token"
  BY DEF KeepToken
<1>6. TokenGood(revoked, sequence, identity, watch[h], markers[h], k, seenIdentity[h], missed[h])
  BY <1>3, <1>4, <1>5, TokenKeeps
<1>7. /\ token' = [token EXCEPT ![h] = k] /\ request' = [request EXCEPT ![r] = Idle]
      /\ UNCHANGED <<facts, kv, watch, deliveries, entry, seenIdentity, faults>>
  BY <1>1, <1>2, <1>4 DEF KeepToken, TokenStands, HasBucket, ReplicaTypes
<1>8. WatchTypes' /\ ReplicaTypes'
  BY <1>1, <1>7 DEF WatchTypes, ReplicaTypes
<1>9. /\ request' \in [Requests -> RequestStates]
      /\ \A p \in Requests : request'[p] \in {request[p], Idle}
  BY <1>1, <1>7, AnswerForms
<1>10. token'[h] = k /\ \A g \in Hosts : g # h => token'[g] = token[g]
  BY <1>1, <1>7 DEF ReplicaTypes
<1> QED  BY <1>3, <1>6, <1>7, <1>8, <1>9, <1>10, HostStep

-----------------------------------------------------------------------------
(* The specification.                                                       *)

LEMMA InitGood ==
  ASSUME Init
  PROVE  Inv
<1>1. 0 \in Revisions /\ sequence \in Nat
  BY RevisionsAreNumbers DEF Revisions, Init
<1>2. TypeOK
  <2>1. FactTypes
    <3>1. changes \in Seq(Changes) /\ Len(changes) = 0
      BY DEF Init
    <3> QED  BY <3>1, BoundsAssumption DEF Init, FactTypes, Fact, Versions
  <2>2. BucketTypes
    BY <1>1, AnswerForms DEF Init, BucketTypes
  <2>3. WatchTypes
    <3>1. <<>> \in Seq(Messages) /\ <<>> \in Seq(Revisions) /\ 0 \in 0 .. MaxBreaks
      BY BoundsAssumption
    <3> QED  BY <3>1 DEF Init, WatchTypes
  <2>4. ReplicaTypes /\ request \in [Requests -> RequestStates]
    BY <1>1, AnswerForms DEF Init, ReplicaTypes
  <2> QED  BY <2>1, <2>2, <2>3, <2>4 DEF TypeOK
<1>3. AnswerInv
  <2>1. BucketGood(changes, sequence, bucket)
    <3>1. bucket.revision = 0 /\ bucket.answer = Deleted /\ sequence = 0
      BY DEF Init, NoEntry
    <3> QED  BY <3>1, DeletedIsFresh DEF BucketGood
  <2>2. ASSUME NEW h \in Hosts
        PROVE  /\ QueueGood(changes, sequence, bucket, queue[h])
               /\ EntryGood(changes, sequence, bucket, watch[h], queue[h], entry[h], missed[h])
    <3>1. watch[h] = "closed" /\ queue[h] = <<>> /\ entry[h] = Unkept
      BY DEF Init
    <3> QED  BY <1>1, <3>1, UnkeptIsGood
  <2>3. ASSUME NEW r \in Requests  PROVE RequestGood(changes, sequence, bucket, request[r])
    <3>1. request[r] = Idle
      BY DEF Init
    <3> QED  BY <1>1, <3>1, IdleIsGood
  <2> QED  BY <2>1, <2>2, <2>3 DEF AnswerInv
<1>4. TokenInv
  <2>1. ASSUME NEW h \in Hosts
        PROVE  TokenGood(revoked, sequence, identity, watch[h], markers[h], token[h],
                         seenIdentity[h], missed[h])
    BY DEF Init, TokenGood
  <2>2. ASSUME NEW r \in Requests  PROVE ReadGood(revoked, sequence, identity, request[r])
    <3>1. request[r] = Idle
      BY DEF Init
    <3> QED  BY <1>1, <3>1, IdleReads
  <2>3. identity <= sequence
    BY DEF Init
  <2> QED  BY <2>1, <2>2, <2>3 DEF TokenInv
<1> QED  BY <1>2, <1>3, <1>4 DEF Inv

LEMMA NextKeeps ==
  ASSUME Inv, [Next]_vars
  PROVE  Inv'
<1>1. CASE Writers
  <2>1. CASE \E kind \in Kinds : CommitChange(kind)
    BY <2>1, CommitChangeKeeps
  <2>2. ASSUME NEW c \in 1 .. Fact, DropKey(c) \/ DropLists(c) \/ DropListed(c) \/ DropLost(c)
        PROVE  Inv'
    BY <2>2, UnpublishedKeeps, PublishedKeeps
  <2>3. CASE Revoke \/ DropIdentityLost
    BY <2>3, RevokeKeeps
  <2>4. CASE DropIdentity
    BY <2>4, DropIdentityKeeps
  <2> QED  BY <1>1, <2>1, <2>2, <2>3, <2>4 DEF Writers
<1>2. CASE Reads
  <2>1. PICK r \in Requests :
            \/ \E what \in ReadsOf[r] : Miss(r, what)
            \/ Query(r) \/ Keep(r) \/ KeepToken(r)
            \/ UpdateAccepts(r) \/ UpdateFails(r)
            \/ PutReturns(r) \/ PutTimesOut(r)
    BY <1>2 DEF Reads
  <2> QED  BY <2>1, MissKeeps, QueryKeeps, KeepKeeps, KeepTokenKeeps, UpdateAcceptsKeeps,
              GivesUpKeeps, PutReturnsKeeps
<1>3. CASE Watches
  <2>1. PICK h \in Hosts :
            \/ WatchStarts(h) \/ WatchOpens(h)
            \/ Apply(h) \/ ApplyIdentity(h)
            \/ WatchBreaks(h) \/ WatchClears(h) \/ LinkBlips(h)
    BY <1>3 DEF Watches
  <2> QED  BY <2>1, WatchStartsKeeps, WatchOpensKeeps, ApplyKeeps, ApplyIdentityKeeps,
              WatchBreaksKeeps, WatchClearsKeeps, LinkBlipsKeeps
<1>4. CASE Expires
  <2>1. CASE BucketExpires
    BY <2>1, BucketExpiresKeeps
  <2>2. CASE IdentityExpires
    BY <2>2, IdentityExpiresKeeps
  <2>3. CASE \E h \in Hosts : ReplicaExpires(h) \/ TokenExpires(h)
    BY <2>3, ReplicaExpiresKeeps, TokenExpiresKeeps
  <2> QED  BY <1>4, <2>1, <2>2, <2>3 DEF Expires
<1>5. CASE UNCHANGED vars
  <2>1. TypeOK'
    BY <1>5 DEF Inv, vars, TypeOK, FactTypes, Fact, BucketTypes, WatchTypes, ReplicaTypes
  <2>2. AnswerInv' /\ TokenInv'
    BY <1>5 DEF Inv, vars, AnswerInv, TokenInv
  <2> QED  BY <2>1, <2>2 DEF Inv
<1> QED  BY <1>1, <1>2, <1>3, <1>4, <1>5 DEF Next

(***************************************************************************)
(* The invariant of the auth memory: what the bucket, the messages, the    *)
(* replicas and the requests of every host hold is tied to the revisions   *)
(* of the key (kv_memory.rs, auth_cache.rs).                               *)
(***************************************************************************)
THEOREM AuthInvariance == Spec => []Inv
<1>1. Init => Inv
  BY InitGood
<1>2. Inv /\ [Next]_vars => Inv'
  BY NextKeeps
<1> QED  BY <1>1, <1>2, PTL DEF Spec

\* The types of the variables, for every value of the constants.
THEOREM AuthTypeCorrect == Spec => []TypeOK
<1>1. Inv => TypeOK
  BY DEF Inv
<1> QED  BY <1>1, AuthInvariance, PTL

\* A drop that was published leaves no change excused.
LEMMA PublishedOrExcused ==
  ASSUME TypeOK, NEW c \in 1 .. Fact, changes[c].drop # "done"
  PROVE  changes[c].drop \in {"pending", "listed"} \cup {"lost", "unmarked"}
<1>1. changes[c] \in Changes
  BY StateForms DEF Fact
<1> QED  BY <1>1 DEF Changes, Drops

LEMMA FreshHolds ==
  ASSUME Inv, NEW h \in Hosts, NEW v \in Versions \cup {None},
         v \in {entry[h].answer.grants, entry[h].answer.provisioned}
  PROVE  Fresh(h, v, {"lost", "unmarked"})
<1>1. TypeOK /\ EntryGood(changes, sequence, bucket, watch[h], queue[h], entry[h], missed[h])
  BY HostForms DEF Inv
<1>2. SUFFICES ASSUME entry[h].live, v # None, NEW c \in v + 1 .. Fact
               PROVE  Underway(h, c, {"lost", "unmarked"})
  BY DEF Fresh
<1>3. Fact \in Nat /\ v \in Nat
  BY <1>1, <1>2, StateForms, BoundsAssumption DEF Fact, Versions
<1>4. c \in 1 .. Fact /\ v < c
  BY <1>3
<1>5. CASE changes[c].drop = "done"
  <2>1. Outdated(changes, v)
    BY <1>2, <1>4, <1>5 DEF Outdated, Fact
  <2>2. Stale(changes, entry[h].answer)
    BY <2>1 DEF Stale
  <2>3. Coming(queue[h], entry[h].revision) \/ watch[h] = "unset" \/ missed[h]
    BY <1>1, <1>2, <2>2 DEF EntryGood
  <2> QED  BY <2>3 DEF Underway, Unheard, Coming
<1>6. CASE changes[c].drop # "done"
  BY <1>1, <1>4, <1>6, PublishedOrExcused DEF Underway
<1> QED  BY <1>5, <1>6

(***************************************************************************)
(* The drop of a change ends every older answer, whatever was read before  *)
(* the commit and put after it, in every host (KvMemory::put with the      *)
(* ticket, keep_entry, the watch).                                         *)
(***************************************************************************)
THEOREM GrantsStayFresh == Spec => []GrantsFresh
<1>1. Inv => GrantsFresh
  <2>1. SUFFICES ASSUME Inv, NEW h \in Hosts
                 PROVE  /\ Fresh(h, entry[h].answer.grants, {"lost", "unmarked"})
                        /\ Fresh(h, entry[h].answer.provisioned, {"lost", "unmarked"})
    BY DEF GrantsFresh, AnswersFresh
  <2>2. entry[h].answer \in Answers
    BY <2>1, StateForms, EntryForm DEF Inv
  <2>3. /\ entry[h].answer.grants \in Versions \cup {None}
        /\ entry[h].answer.provisioned \in Versions \cup {None}
    BY <2>2 DEF Answers
  <2> QED  BY <2>1, <2>3, FreshHolds
<1> QED  BY <1>1, AuthInvariance, PTL

(***************************************************************************)
(* No host keeps the answer of a revoked token once the marker of the      *)
(* revocation has reached it (AuthCache::keep_token and apply).            *)
(***************************************************************************)
THEOREM TokensStayFresh == Spec => []TokensFresh
<1>1. Inv => TokensFresh
  <2>1. SUFFICES ASSUME Inv, NEW h \in Hosts, token[h]
                 PROVE  revoked # "done" \/ markers[h] # <<>> \/ Unheard(h)
    BY DEF TokensFresh
  <2>2. TokenGood(revoked, sequence, identity, watch[h], markers[h], token[h], seenIdentity[h], missed[h])
    BY <2>1, HostForms DEF Inv
  <2> QED  BY <2>1, <2>2 DEF TokenGood, Unheard
<1> QED  BY <1>1, AuthInvariance, PTL
===============================================================================
