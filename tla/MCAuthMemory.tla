---------------------------- MODULE MCAuthMemory ----------------------------
(***************************************************************************)
(* Instances of AuthMemory for TLC.  Hosts meet only in the bucket, where  *)
(* a put of another host is a put whose answer came too late: one host     *)
(* with two requests shows what one of several hosts sees.  The user row   *)
(* exists from the first change on.                                        *)
(***************************************************************************)
EXTENDS AuthMemory, TLC

CONSTANTS h1, r1, r2

OneHost == [r \in Requests |-> h1]
TwoRequests == r1 :> {"grants"} @@ r2 :> {"provisioned", "token"}
FromFirstChange == 1 .. MaxChanges
=============================================================================
