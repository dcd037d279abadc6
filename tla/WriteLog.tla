------------------------------- MODULE WriteLog -------------------------------
(***************************************************************************)
(* The write log of an application database: how the engine claims the     *)
(* idempotency key of each request element of a logged call, runs the      *)
(* element, and records its outcome, for concurrent and repeated calls.    *)
(*                                                                         *)
(* An operation with SQL claims its key in the host transaction of its     *)
(* work, so that claim, work and outcome commit together.  An operation    *)
(* without SQL claims and finishes in two statements that commit at once.  *)
(* One statement is one step.  A retention job deletes finished rows that  *)
(* are older than 30 days.                                                 *)
(***************************************************************************)
EXTENDS Naturals, Sequences, FiniteSets

CONSTANTS
    Requests,     \* calls that hosts serve at a time
    Keys,         \* claims: one operation and idempotency key each
    Inputs,       \* request hashes of an element
    Transacted,   \* the keys whose operation has SQL
    Ageing,       \* the keys whose rows may outlive the retention of 30 days
    NoInput,      \* the hash of an absent row
    NoRequest,    \* no transaction holds an uncommitted claim of the key
    Limbo         \* one whose COMMIT was sent and whose host is gone does

ASSUME WriteLogAssumption ==
    /\ Transacted \subseteq Keys /\ Ageing \subseteq Keys /\ NoInput \notin Inputs
    /\ NoRequest \notin Requests /\ Limbo \notin Requests /\ NoRequest # Limbo

VARIABLES
    row,       \* row[k]: the committed write_log row: its state and its hash
    claim,     \* claim[k]: the transaction of an uncommitted row, and its hash
    effects,   \* effects[k]: inputs whose work stands, once per execution
    aged,      \* keys whose row was created more than 30 days ago
    expired,   \* expired[k]: inputs whose work stands and whose row expired
    stray,     \* keys under which a failed export left work that no row names
    phase,     \* phase[r]: the step that call r is at
    elements,  \* elements[r]: the request elements of the call
    answers    \* answers[r]: the answers so far

retained == <<aged, expired, stray>>
logVars  == <<row, claim, effects, retained, phase, elements, answers>>

Elements == [key : Keys, input : Inputs]
Answers  == {"value", "error", "uncertain", "conflict"}
Steps    == {"open", "read", "run", "finish", "commit"}
Working  == {"run", "finish", "commit"}
Phases   == Steps \cup {"free", "answered", "refused", "failed"}

NoRow == [state |-> "none", input |-> NoInput]
Open  == [by |-> NoRequest, input |-> NoInput]

LogInit ==
    /\ row = [k \in Keys |-> NoRow]
    /\ claim = [k \in Keys |-> Open]
    /\ effects = [k \in Keys |-> <<>>]
    /\ aged = {}
    /\ expired = [k \in Keys |-> {}]
    /\ stray = {}
    /\ phase = [r \in Requests |-> "free"]
    /\ elements = [r \in Requests |-> <<>>]
    /\ answers = [r \in Requests |-> <<>>]

-----------------------------------------------------------------------------
\* The request element that call r works on.
Current(r) == elements[r][Len(answers[r]) + 1]
Key(r) == Current(r).key
HasSql(r) == Key(r) \in Transacted

Goto(r, p) == phase' = [phase EXCEPT ![r] = p]

\* The element is answered; the next one opens, or the merged answer leaves.
Answer(r, a) ==
    /\ answers' = [answers EXCEPT ![r] = Append(@, a)]
    /\ Goto(r, IF Len(answers[r]) + 1 = Len(elements[r]) THEN "answered" ELSE "open")
    /\ UNCHANGED elements

\* The transaction of the element ends.
Unclaim(r) == claim' = [claim EXCEPT ![Key(r)] = Open]

\* The stored row of the element takes the state s.
Store(r, s) == row' = [row EXCEPT ![Key(r)] = [state |-> s, input |-> Current(r).input]]

\* The work of the element stands.
Work(r) == effects' = [effects EXCEPT ![Key(r)] = Append(@, Current(r).input)]

\* A key that repeats within one call makes its input invalid.
RepeatsKey(es) == \E i, j \in DOMAIN es : i # j /\ es[i].key = es[j].key

Submit(r, es) ==
    /\ phase[r] = "free"
    /\ elements' = [elements EXCEPT ![r] = es]
    /\ answers' = [answers EXCEPT ![r] = <<>>]
    /\ Goto(r, IF RepeatsKey(es) THEN "refused" ELSE "open")
    /\ UNCHANGED <<row, claim, effects, retained>>

\* Mutant of ClaimKey: a call claims the keys of all its elements, in the order
\* of the call, before it runs the first one.
ClaimKeyUpFront(r) ==
    LET At(i) == elements[r][i]
        Unclaimed == {i \in (Len(answers[r]) + 1)..Len(elements[r]) :
                         HasSql(r) /\ row[At(i).key] = NoRow /\ claim[At(i).key].by # r}
        first == CHOOSE i \in Unclaimed : \A j \in Unclaimed : i <= j
    IN
    /\ phase[r] = "open"
    /\ IF row[Key(r)] # NoRow
       THEN Goto(r, "read") /\ UNCHANGED <<row, claim>>
       ELSE IF Unclaimed = {}
       THEN /\ Goto(r, "run")
            /\ IF HasSql(r) THEN UNCHANGED row ELSE Store(r, "begun")
            /\ UNCHANGED claim
       ELSE /\ claim[At(first).key].by = NoRequest
            /\ claim' = [claim EXCEPT ![At(first).key] = [by |-> r, input |-> At(first).input]]
            /\ UNCHANGED <<row, phase>>
    /\ UNCHANGED <<effects, retained, elements, answers>>

\* CLAIM_SQL: an uncommitted row of another transaction makes it wait; a
\* committed row makes it return nothing; otherwise the key is new.
ClaimKey(r) ==
    /\ phase[r] = "open" /\ claim[Key(r)].by = NoRequest
    /\ IF row[Key(r)] # NoRow
       THEN Goto(r, "read") /\ UNCHANGED <<row, claim>>
       ELSE /\ Goto(r, "run")
            /\ IF HasSql(r)
               THEN /\ claim' = [claim EXCEPT ![Key(r)] = [by |-> r, input |-> Current(r).input]]
                    /\ UNCHANGED row
               ELSE Store(r, "begun") /\ UNCHANGED claim
    /\ UNCHANGED <<effects, retained, elements, answers>>

\* Mutant of ReadClaim: the stored hash is not compared.
ReadClaimAnyHash(r) ==
    LET stored == row[Key(r)] IN
    /\ phase[r] = "read"
    /\ IF stored = NoRow
       THEN Goto(r, "failed") /\ UNCHANGED <<elements, answers>>
       ELSE Answer(r, IF stored.state = "finished" THEN "value" ELSE "uncertain")
    /\ UNCHANGED <<row, claim, effects, retained>>

\* READ_SQL after a claim that inserted nothing.  A two-step claim released in
\* between, or a row that expired, has no row, which fails the call.
ReadClaim(r) ==
    LET stored == row[Key(r)] IN
    /\ phase[r] = "read"
    /\ IF stored = NoRow
       THEN Goto(r, "failed") /\ UNCHANGED <<elements, answers>>
       ELSE Answer(r, IF stored.input # Current(r).input THEN "conflict"
                      ELSE IF stored.state = "finished" THEN "value" ELSE "uncertain")
    /\ UNCHANGED <<row, claim, effects, retained>>

\* The export answers the element with a value.
RunValue(r) ==
    /\ phase[r] = "run"
    /\ Goto(r, IF HasSql(r) THEN "commit" ELSE "finish")
    /\ IF HasSql(r) THEN UNCHANGED effects ELSE Work(r)
    /\ UNCHANGED <<row, claim, retained, elements, answers>>

\* Mutant of RunSilent: a silent export frees the key.
RunSilentReleases(r) ==
    /\ phase[r] = "run"
    /\ IF HasSql(r) THEN Unclaim(r) /\ UNCHANGED <<row, effects>>
       ELSE /\ row' = [row EXCEPT ![Key(r)] = NoRow]
            /\ Work(r) \/ UNCHANGED effects
            /\ UNCHANGED claim
    /\ Answer(r, "error")
    /\ UNCHANGED retained

\* release: the transaction rolls back, or the two-step claim is deleted.
\* Nothing undoes what an export without a transaction did before its error.
Release(r) ==
    /\ UNCHANGED <<effects, expired>>
    /\ IF HasSql(r)
       THEN Unclaim(r) /\ UNCHANGED <<row, aged, stray>>
       ELSE /\ row' = [row EXCEPT ![Key(r)] = NoRow]
            /\ aged' = aged \ {Key(r)}
            /\ \/ UNCHANGED stray
               \/ stray' = stray \cup {Key(r)}
            /\ UNCHANGED claim

\* The export refuses the element, and its key is free.
RunRefused(r) ==
    /\ phase[r] = "run"
    /\ Release(r) /\ Answer(r, "error")

\* The export fails: the one element of a call fails the call, whose status is
\* the client's (refused) or the server's (failed) fault.
RunFailed(r) ==
    /\ phase[r] = "run"
    /\ Release(r)
    /\ IF Len(elements[r]) = 1
       THEN (Goto(r, "refused") \/ Goto(r, "failed")) /\ UNCHANGED <<elements, answers>>
       ELSE Answer(r, "error")

\* The export answers nothing for the element: its work may stand.  With a
\* transaction the rollback undoes it; without one the intent stays begun.
RunSilent(r) ==
    /\ phase[r] = "run"
    /\ IF HasSql(r)
       THEN Release(r) /\ Answer(r, "error")
       ELSE /\ Answer(r, "uncertain")
            /\ Work(r) \/ UNCHANGED effects
            /\ UNCHANGED <<row, claim, retained>>

\* FINISH_SQL.
Finish(r) ==
    /\ phase[r] = "finish"
    /\ Store(r, "finished") /\ Answer(r, "value")
    /\ UNCHANGED <<claim, effects, retained>>

\* COMMIT_FINISH_SQL and COMMIT.
Commit(r) ==
    /\ phase[r] = "commit"
    /\ Store(r, "finished") /\ Work(r) /\ Unclaim(r) /\ Answer(r, "value")
    /\ UNCHANGED retained

\* The server answers the COMMIT with an error.
CommitRolledBack(r) ==
    /\ phase[r] = "commit"
    /\ Unclaim(r) /\ Answer(r, "error")
    /\ UNCHANGED <<row, effects, retained>>

\* COMMIT was sent and its answer is not read.
CommitUnread(r) ==
    /\ phase[r] = "commit"
    /\ claim' = [claim EXCEPT ![Key(r)].by = Limbo]
    /\ Answer(r, "uncertain")
    /\ UNCHANGED <<row, effects, retained>>

\* The server ends a transaction that no host waits for.
LimboCommits(k) ==
    /\ claim[k].by = Limbo
    /\ row' = [row EXCEPT ![k] = [state |-> "finished", input |-> claim[k].input]]
    /\ effects' = [effects EXCEPT ![k] = Append(@, claim[k].input)]
    /\ claim' = [claim EXCEPT ![k] = Open]
    /\ UNCHANGED <<retained, phase, elements, answers>>

LimboRollsBack(k) ==
    /\ claim[k].by = Limbo
    /\ claim' = [claim EXCEPT ![k] = Open]
    /\ UNCHANGED <<row, effects, retained, phase, elements, answers>>

\* The call ends without an answer: a trap, the deadline, a cancellation, a
\* storage error, a dropped connection or a dead host.  Its transaction rolls
\* back unless COMMIT was sent; a two-step claim stays begun, and the export
\* may have done its work.
CallFails(r) ==
    /\ phase[r] \in Steps
    /\ Goto(r, "failed")
    /\ claim' = [k \in Keys |-> IF claim[k].by # r THEN claim[k]
                                ELSE IF phase[r] = "commit" THEN [claim[k] EXCEPT !.by = Limbo]
                                ELSE Open]
    /\ \/ UNCHANGED effects
       \/ phase[r] = "run" /\ ~HasSql(r) /\ Work(r)
    /\ UNCHANGED <<row, retained, elements, answers>>

\* A committed row becomes older than 30 days.
RowAges(k) ==
    /\ k \in Ageing \ aged /\ row[k] # NoRow
    /\ aged' = aged \cup {k}
    /\ UNCHANGED <<row, claim, effects, expired, stray, phase, elements, answers>>

\* Mutant of Prune: the row of a begun intent expires as well.
PruneAll ==
    LET old == {k \in aged : row[k] # NoRow} IN
    /\ old # {}
    /\ row' = [k \in Keys |-> IF k \in old THEN NoRow ELSE row[k]]
    /\ effects' = [k \in Keys |-> IF k \in old THEN <<>> ELSE effects[k]]
    /\ expired' = [k \in Keys |-> IF k \in old THEN expired[k] \cup {row[k].input}
                                  ELSE expired[k]]
    /\ aged' = aged \ old
    /\ UNCHANGED <<claim, stray, phase, elements, answers>>

\* WRITE_LOG_RETENTION_SQL, the last transaction of prune-record-history: the
\* old rows that have a result are deleted.  Their work stands.
Prune ==
    LET old == {k \in aged : row[k].state = "finished"} IN
    /\ old # {}
    /\ row' = [k \in Keys |-> IF k \in old THEN NoRow ELSE row[k]]
    /\ effects' = [k \in Keys |-> IF k \in old THEN <<>> ELSE effects[k]]
    /\ expired' = [k \in Keys |-> IF k \in old THEN expired[k] \cup {row[k].input}
                                  ELSE expired[k]]
    /\ aged' = aged \ old
    /\ UNCHANGED <<claim, stray, phase, elements, answers>>

\* The client reads the answer, or nobody does.
Collect(r) ==
    /\ phase[r] \in {"answered", "refused", "failed"}
    /\ Goto(r, "free")
    /\ elements' = [elements EXCEPT ![r] = <<>>]
    /\ answers' = [answers EXCEPT ![r] = <<>>]
    /\ UNCHANGED <<row, claim, effects, retained>>

\* A step of the host on call r that ends or advances the current element.
HostStep(r) ==
    \/ ClaimKey(r) \/ ReadClaim(r) \/ RunValue(r) \/ RunRefused(r) \/ RunFailed(r)
    \/ RunSilent(r) \/ Finish(r) \/ Commit(r) \/ CommitRolledBack(r) \/ CommitUnread(r)

\* The steps of the platform, whichever client sends the calls.
LogStep ==
    \/ \E r \in Requests : HostStep(r) \/ CallFails(r)
    \/ \E k \in Keys : LimboCommits(k) \/ LimboRollsBack(k) \/ RowAges(k)
    \/ Prune
-----------------------------------------------------------------------------
(* Properties.                                                              *)

\* Every row, transaction and call keeps its type.
LogTypeOK ==
    /\ row \in [Keys -> [state : {"none", "begun", "finished"}, input : Inputs \cup {NoInput}]]
    /\ claim \in [Keys -> [by : Requests \cup {NoRequest, Limbo}, input : Inputs \cup {NoInput}]]
    /\ effects \in [Keys -> Seq(Inputs)]
    /\ aged \subseteq Keys /\ expired \in [Keys -> SUBSET Inputs] /\ stray \subseteq Keys
    /\ phase \in [Requests -> Phases]
    /\ elements \in [Requests -> Seq(Elements)]
    /\ answers \in [Requests -> Seq(Answers)]

\* A key is worked on by one call at a time, and while its row is kept its work
\* is done at most once, whatever is repeated, dropped, timed out or answered
\* uncertain: the row answers for the work, so no repeat finds the key new.  Work
\* that no row ever answered for is left only by a failed export without SQL.
WorkedOnce ==
    \A k \in Keys :
        /\ \A r, s \in Requests :
              {phase[r], phase[s]} \subseteq Working /\ Key(r) = k /\ Key(s) = k => r = s
        /\ effects[k] # <<>> => row[k].state # "none" /\ effects[k] = <<row[k].input>>
        /\ k \in stray => k \notin Transacted

\* The work of input i under key k was done and its row is finished, or the
\* retention job deleted that row.
Recorded(k, i) ==
    \/ row[k] = [state |-> "finished", input |-> i] /\ effects[k] = <<i>>
    \/ i \in expired[k]

\* A value that a call answers is the outcome of the very input it carried:
\* the work was done with that input and its row is finished, or expired since.
ValueIsTrue ==
    \A r \in Requests : \A i \in DOMAIN answers[r] :
        answers[r][i] = "value" => Recorded(elements[r][i].key, elements[r][i].input)

\* A finished row stands for 30 days, and after them only the retention job ends
\* it, whole.  A begun row that no call works on any more stays begun whatever
\* its age and does no further work: its key is uncertain for good.
OutcomeStands ==
    [][\A k \in Keys :
          /\ row[k].state = "finished" =>
                \/ row'[k] = row[k] /\ effects'[k] = effects[k]
                \/ k \in aged /\ row'[k] = NoRow /\ effects'[k] = <<>> /\ row[k].input \in expired'[k]
          /\ row[k].state = "begun"
             /\ (\A r \in Requests : phase[r] \in {"run", "finish"} => Key(r) # k)
             => row'[k] = row[k] /\ effects'[k] = effects[k]]_logVars
===============================================================================
