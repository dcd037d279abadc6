--------------------------- MODULE WriteLogClients ---------------------------
(* Clients that send calls of several request elements to the write log, in  *)
(* any order, repeat them, and change the input under a key.                 *)
EXTENDS WriteLog

CONSTANT Calls   \* the calls that clients send: sequences of request elements

\* A call has elements of one operation, which has SQL or has none.
ASSUME CallsAssumption ==
    \A es \in Calls :
        /\ es \in Seq(Elements) /\ es # <<>>
        /\ \A i, j \in DOMAIN es : es[i].key \in Transacted <=> es[j].key \in Transacted

ClientsNext ==
    \/ \E r \in Requests : (\E es \in Calls : Submit(r, es)) \/ Collect(r)
    \/ LogStep

ClientsSpec == LogInit /\ [][ClientsNext]_logVars

\* A host runs the steps of its calls, and the server ends a transaction.  A
\* claim that waits wakes when the other transaction ends, and new calls do not
\* overtake it forever.  No failure or deadline is forced to happen.
ClientsLiveSpec ==
    /\ ClientsSpec
    /\ \A r \in Requests : WF_logVars(HostStep(r)) /\ SF_logVars(ClaimKey(r))
    /\ \A k \in Keys : WF_logVars(LimboCommits(k) \/ LimboRollsBack(k))

\* Every call ends.  A call that waits for an uncommitted claim never waits for
\* a call that waits for it, though calls name their keys in opposite orders.
CallEnds ==
    \A r \in Requests : phase[r] \in Steps ~> phase[r] \notin Steps
==============================================================================
