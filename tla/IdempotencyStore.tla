---------------------------- MODULE IdempotencyStore ----------------------------
(***************************************************************************)
(* The row operations of the runtime's idempotency store, one row per SQS  *)
(* MessageId (core/runtime/src/idempotency).  DynamoDB applies each of     *)
(* them as one conditional write, so they are pure operators here; the     *)
(* interleavings around them belong to SqsShim.                            *)
(*                                                                         *)
(* A row keeps startedAt when it is completed and drops claimUntil         *)
(* (written 0 here).  The agent name, completedAt and the 30-day ttl of    *)
(* completed rows are left out: the queue keeps a message for days only.   *)
(***************************************************************************)
EXTENDS Naturals

Row == [status : {"absent", "in-flight", "completed"},
        startedAt : Nat, claimUntil : Nat]

NoRow == [status |-> "absent", startedAt |-> 0, claimUntil |-> 0]

InFlight(r)  == r.status = "in-flight"
Completed(r) == r.status = "completed"

(* Seeded faults: a claim at the very end of the window, and a condition   *)
(* that forgets the row's status.                                          *)
ClaimableAtEnd(r, stamp) ==
  \/ r.status = "absent"
  \/ InFlight(r) /\ r.claimUntil <= stamp

ClaimableAnyStatus(r, stamp) == r.status = "absent" \/ r.claimUntil < stamp

(* The ConditionExpression of claim(): the row is absent, or it is an      *)
(* in-flight claim that ran out strictly before the caller's clock.        *)
Claimable(r, stamp) ==
  \/ r.status = "absent"
  \/ InFlight(r) /\ r.claimUntil < stamp

(* The item claim() puts. *)
ClaimedRow(stamp, until) ==
  [status |-> "in-flight", startedAt |-> stamp, claimUntil |-> until]

(* The freshness guard of complete() and expire(). *)
Fresh(r, ownedUntil) == InFlight(r) /\ r.claimUntil = ownedUntil

(* complete(): in-flight becomes completed; a stale caller writes nothing. *)
AfterComplete(r, ownedUntil) ==
  IF Fresh(r, ownedUntil)
    THEN [status |-> "completed", startedAt |-> r.startedAt, claimUntil |-> 0]
    ELSE r

(* Seeded fault: expire() without the freshness guard. *)
AfterExpireUnguarded(r, ownedUntil, at) ==
  IF InFlight(r) THEN [r EXCEPT !.claimUntil = at] ELSE r

(* expire(): the claim runs out at once; a stale caller writes nothing. *)
AfterExpire(r, ownedUntil, at) ==
  IF Fresh(r, ownedUntil) THEN [r EXCEPT !.claimUntil = at] ELSE r
=================================================================================
