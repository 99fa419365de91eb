-------------------------------- MODULE SqsShim --------------------------------
(***************************************************************************)
(* The AWS-mode entry shim: one Lambda invocation takes a batch of records *)
(* off the agent's input queue, runs processRecord for all of them at once *)
(* (Promise.all) and answers with the records SQS must keep.               *)
(*                                                                         *)
(* Each record of an invocation is a task; every await of processRecord is *)
(* a point between two actions, so tasks of one batch, of other            *)
(* invocations and of redeliveries of the same message interleave there.   *)
(*                                                                         *)
(* A claim() that throws is not caught: Promise.all rejects, the           *)
(* invocation is answered as failed and its other tasks are left behind in *)
(* the frozen container ("rejected" below), where they resume whenever the *)
(* container is used again, possibly long after the claim window, or never.*)
(*                                                                         *)
(* Time is one clock; every container reads it.  Queue, Lambda service and *)
(* handler are external: modelled as the shim and the stack use them.      *)
(***************************************************************************)
EXTENDS IdempotencyStore, FiniteSets

CONSTANTS
  Msg,             \* SQS messages, by MessageId
  Inv,             \* invocation slots
  Signed,          \* messages that carry a signed consumer envelope
  Malformed,       \* messages whose body the shim always rejects
  LambdaTimeout, ClaimWindow, Visibility,  \* the timeout interlock
  Skew,            \* accepted distance of an envelope's timestamp
  MaxReceive,      \* redrive threshold of the input queue
  BatchSize,       \* records per invocation
  MaxTime,         \* bound on the clock
  MaxStoreFaults,  \* bound on store calls that throw or lose their answer
  MaxCrashes,      \* bound on invocations that die or time out
  MaxDuplicates    \* bound on spurious duplicate deliveries

ASSUME InterlockAssumption ==
  /\ LambdaTimeout \in Nat /\ ClaimWindow \in Nat /\ Visibility \in Nat /\ Skew \in Nat
  /\ LambdaTimeout < ClaimWindow
  /\ ClaimWindow < Visibility

ASSUME BoundAssumption ==
  /\ {MaxReceive, BatchSize, MaxTime, MaxStoreFaults, MaxCrashes, MaxDuplicates}
       \subseteq Nat
  /\ IsFiniteSet(Msg) /\ Signed \subseteq Msg /\ Malformed \subseteq Msg

(* A signed envelope is no longer accepted when SQS delivers it again after *)
(* a full visibility timeout: the skew window is the shorter one.          *)
ASSUME SkewAssumption == Skew < Visibility

VARIABLES
  now,        \* the clock
  queue,      \* queue[m]: where SQS has the message, when it is visible, its receives
  row,        \* row[m]: the idempotency row
  inv,        \* inv[i]: the invocation in slot i
  task,       \* task[i][m]: processRecord of m in invocation i
  successes,  \* successes[m]: handler runs of m that returned (history)
  expired,    \* messages whose claim a failed handler gave back (history)
  unmarked,   \* messages with a success whose complete() threw (history)
  storeFaults, crashes, duplicates

vars == <<now, queue, row, inv, task, successes, expired, unmarked,
          storeFaults, crashes, duplicates>>

history == <<successes, expired, unmarked>>
budgets == <<storeFaults, crashes, duplicates>>

---------------------------------------------------------------------------
(* State *)

Message == [place : {"queued", "deleted", "dead"}, visibleAt : Nat, receives : Nat]

Invocation == [status : {"idle", "open", "rejected"}, startedAt : Nat]

(* The status a task reports.  The three rejections of a body (parse,      *)
(* envelope, runtime message) are one: SQS and the store see no difference.*)
Status == {"handled", "handled-stale-complete", "handled-complete-write-failed",
           "duplicate-completed", "duplicate-in-flight", "rejected",
           "handler-failed"}

Step == {"none", "verifying", "claiming", "running", "completing", "expiring"}

(* stamp: the clock claim() was called with; failedAt: the one of expire().*)
Task == [pc : Step \cup Status, stamp : Nat, failedAt : Nat]

NoTask == [pc |-> "none", stamp |-> 0, failedAt |-> 0]

TypeOK ==
  /\ now \in Nat
  /\ queue \in [Msg -> Message]
  /\ row \in [Msg -> Row]
  /\ inv \in [Inv -> Invocation]
  /\ task \in [Inv -> [Msg -> Task]]
  /\ successes \in [Msg -> Nat]
  /\ expired \subseteq Msg /\ unmarked \subseteq Msg
  /\ storeFaults \in Nat /\ crashes \in Nat /\ duplicates \in Nat

Init ==
  /\ now = 0
  /\ queue = [m \in Msg |-> [place |-> "queued", visibleAt |-> 0, receives |-> 0]]
  /\ row = [m \in Msg |-> NoRow]
  /\ inv = [i \in Inv |-> [status |-> "idle", startedAt |-> 0]]
  /\ task = [i \in Inv |-> [m \in Msg |-> NoTask]]
  /\ successes = [m \in Msg |-> 0]
  /\ expired = {} /\ unmarked = {}
  /\ storeFaults = 0 /\ crashes = 0 /\ duplicates = 0

(* Seeded faults: a duplicate acknowledged whatever became of the first    *)
(* delivery, and a rejected body acknowledged.                             *)
isFailureStatusButDuplicates(s) == s \in {"rejected", "handler-failed"}

isFailureStatusButRejected(s) == s \in {"duplicate-in-flight", "handler-failed"}

isFailureStatus(s) ==
  s \notin {"handled", "handled-stale-complete", "handled-complete-write-failed",
            "duplicate-completed"}

(* Seeded faults: a window subtracted, a window in the wrong unit, and one *)
(* as long as the visibility timeout.                                      *)
ClaimUntilSubtracted(s) == s - ClaimWindow

ClaimUntilUnscaled(s) == s

ClaimUntilVisible(s) == s + Visibility

(* The claimUntil of a claim stamped at s. *)
ClaimUntil(s) == s + ClaimWindow

OwnedUntil(t) == ClaimUntil(t.stamp)

Pending(t) == t.pc \notin Status \cup {"none"}

(* Envelopes are sent at time 0.  The shim checks the timestamp on every   *)
(* delivery, against the current clock.                                    *)
TimestampOk == now <= Skew

---------------------------------------------------------------------------
(* The input queue and the Lambda service *)

Visible(m) == queue[m].place = "queued" /\ queue[m].visibleAt <= now

(* What processRecord does before its first await: parse the body, choose  *)
(* the wire shape, check shape and timestamp.  Unsigned and self-published *)
(* messages reach claim() at once; a signed envelope awaits the registry.  *)
StartTask(m) ==
  [pc |-> IF m \in Malformed \/ (m \in Signed /\ ~TimestampOk) THEN "rejected"
          ELSE IF m \in Signed THEN "verifying" ELSE "claiming",
   stamp |-> now, failedAt |-> 0]

(* An idle slot takes a batch.  Messages in dup are copies SQS delivers    *)
(* although the message is invisible or already deleted.                   *)
Receive(i, batch, dup) ==
  /\ inv[i].status = "idle"
  /\ batch \cup dup # {} /\ batch \cap dup = {}
  /\ Cardinality(batch \cup dup) <= BatchSize
  /\ \A m \in batch : Visible(m) /\ queue[m].receives < MaxReceive
  /\ \A m \in dup : ~Visible(m) /\ queue[m].place # "dead" /\ queue[m].receives > 0
  /\ duplicates + Cardinality(dup) <= MaxDuplicates
  /\ duplicates' = duplicates + Cardinality(dup)
  /\ queue' = [m \in Msg |->
       IF m \in batch
         THEN [place |-> "queued", visibleAt |-> now + Visibility,
               receives |-> queue[m].receives + 1]
         ELSE queue[m]]
  /\ inv' = [inv EXCEPT ![i] = [status |-> "open", startedAt |-> now]]
  /\ task' = [task EXCEPT ![i] =
       [m \in Msg |-> IF m \in batch \cup dup THEN StartTask(m) ELSE NoTask]]
  /\ UNCHANGED <<now, row, history, storeFaults, crashes>>

(* A message that would exceed the receive count goes to the DLQ. *)
DeadLetter(m) ==
  /\ Visible(m) /\ queue[m].receives >= MaxReceive
  /\ queue' = [queue EXCEPT ![m].place = "dead"]
  /\ UNCHANGED <<now, row, inv, task, history, budgets>>

(* The clock may not pass the deadline of an open invocation: Lambda kills *)
(* it there (Kill).                                                        *)
Tick ==
  /\ now < MaxTime
  /\ \A i \in Inv : inv[i].status = "open" => now < inv[i].startedAt + LambdaTimeout
  /\ now' = now + 1
  /\ UNCHANGED <<queue, row, inv, task, history, budgets>>

(* Crash or timeout: the sandbox is gone with all its tasks, unanswered. *)
Kill(i) ==
  /\ inv[i].status = "open" /\ crashes < MaxCrashes
  /\ inv' = [inv EXCEPT ![i].status = "idle"]
  /\ task' = [task EXCEPT ![i] = [m \in Msg |-> NoTask]]
  /\ crashes' = crashes + 1
  /\ UNCHANGED <<now, queue, row, history, storeFaults, duplicates>>

(* All tasks returned: SQS deletes what is not in batchItemFailures. *)
Respond(i) ==
  /\ inv[i].status = "open"
  /\ \A m \in Msg : ~Pending(task[i][m])
  /\ queue' = [m \in Msg |->
       IF /\ task[i][m].pc # "none" /\ ~isFailureStatus(task[i][m].pc)
          /\ queue[m].place = "queued"
         THEN [queue[m] EXCEPT !.place = "deleted"]
         ELSE queue[m]]
  /\ inv' = [inv EXCEPT ![i].status = "idle"]
  /\ task' = [task EXCEPT ![i] = [m \in Msg |-> NoTask]]
  /\ UNCHANGED <<now, row, history, budgets>>

(* A rejected invocation's leftovers end: all finished, or the container   *)
(* is recycled before they do.                                             *)
Reap(i) ==
  /\ inv[i].status = "rejected"
  /\ inv' = [inv EXCEPT ![i].status = "idle"]
  /\ task' = [task EXCEPT ![i] = [m \in Msg |-> NoTask]]
  /\ UNCHANGED <<now, queue, row, history, budgets>>

---------------------------------------------------------------------------
(* processRecord *)

Goto(i, m, pc) ==
  task' = [task EXCEPT ![i][m] =
            [pc |-> pc, stamp |-> task[i][m].stamp, failedAt |-> task[i][m].failedAt]]

StoreFault ==
  /\ storeFaults < MaxStoreFaults
  /\ storeFaults' = storeFaults + 1
  /\ UNCHANGED <<crashes, duplicates>>

(* verifyEnvelope resumes after registry and key lookups; claim() is       *)
(* called with the clock of that moment.                                   *)
Verify(i, m) ==
  /\ task[i][m].pc = "verifying"
  /\ task' = [task EXCEPT ![i][m] =
                [pc |-> "claiming", stamp |-> now, failedAt |-> 0]]
  /\ UNCHANGED <<now, queue, row, inv, history, budgets>>

(* A lookup throws: the envelope counts as rejected. *)
VerifyThrows(i, m) ==
  /\ task[i][m].pc = "verifying"
  /\ StoreFault
  /\ Goto(i, m, "rejected")
  /\ UNCHANGED <<now, queue, row, inv, history>>

(* Seeded fault: a row that is not claimable is waited for. *)
ClaimWaits(i, m) ==
  /\ task[i][m].pc = "claiming" /\ Claimable(row[m], task[i][m].stamp)
  /\ row' = [row EXCEPT ![m] = ClaimedRow(task[i][m].stamp, OwnedUntil(task[i][m]))]
  /\ Goto(i, m, "running")
  /\ UNCHANGED <<now, queue, inv, history, budgets>>

Claim(i, m) ==
  LET t == task[i][m] IN
  /\ t.pc = "claiming"
  /\ \/ /\ Claimable(row[m], t.stamp)
        /\ row' = [row EXCEPT ![m] = ClaimedRow(t.stamp, OwnedUntil(t))]
        /\ Goto(i, m, "running")
     \/ /\ ~Claimable(row[m], t.stamp)
        /\ Goto(i, m, IF Completed(row[m]) THEN "duplicate-completed"
                                           ELSE "duplicate-in-flight")
        /\ UNCHANGED row
  /\ UNCHANGED <<now, queue, inv, history, budgets>>

(* The write is applied but its answer is lost; the SDK sends it again. *)
ClaimAnswerLost(i, m) ==
  /\ task[i][m].pc = "claiming"
  /\ Claimable(row[m], task[i][m].stamp)
  /\ StoreFault
  /\ row' = [row EXCEPT ![m] = ClaimedRow(task[i][m].stamp, OwnedUntil(task[i][m]))]
  /\ UNCHANGED <<now, queue, inv, task, history>>

(* claim() throws out of processRecord: the invocation is answered as      *)
(* failed, this record is over, the rest of the batch is left behind.      *)
ClaimThrows(i, m) ==
  /\ task[i][m].pc = "claiming"
  /\ StoreFault
  /\ task' = [task EXCEPT ![i][m] = NoTask]
  /\ inv' = [inv EXCEPT ![i].status = "rejected"]
  /\ UNCHANGED <<now, queue, row, history>>

HandlerReturns(i, m) ==
  /\ task[i][m].pc = "running"
  /\ successes' = [successes EXCEPT ![m] = @ + 1]
  /\ Goto(i, m, "completing")
  /\ UNCHANGED <<now, queue, row, inv, expired, unmarked, budgets>>

HandlerThrows(i, m) ==
  /\ task[i][m].pc = "running"
  /\ task' = [task EXCEPT ![i][m] =
                [pc |-> "expiring", stamp |-> task[i][m].stamp, failedAt |-> now]]
  /\ UNCHANGED <<now, queue, row, inv, history, budgets>>

Complete(i, m) ==
  LET t == task[i][m] IN
  /\ t.pc = "completing"
  /\ row' = [row EXCEPT ![m] = AfterComplete(@, OwnedUntil(t))]
  /\ Goto(i, m, IF Fresh(row[m], OwnedUntil(t)) THEN "handled"
                                                ELSE "handled-stale-complete")
  /\ UNCHANGED <<now, queue, inv, history, budgets>>

(* complete() throws after the SDK gave up, its write applied or not; the  *)
(* record is acknowledged all the same.                                    *)
CompleteThrows(i, m) ==
  LET t == task[i][m] IN
  /\ t.pc = "completing"
  /\ StoreFault
  /\ row' \in {row, [row EXCEPT ![m] = AfterComplete(@, OwnedUntil(t))]}
  /\ Goto(i, m, "handled-complete-write-failed")
  /\ unmarked' = unmarked \cup {m}
  /\ UNCHANGED <<now, queue, inv, successes, expired>>

(* Seeded fault: after the failed handler's expire() the record goes on to *)
(* complete().                                                             *)
ExpireFallsThrough(i, m) ==
  LET t == task[i][m] IN
  /\ t.pc = "expiring"
  /\ row' = [row EXCEPT ![m] = AfterExpire(@, OwnedUntil(t), t.failedAt)]
  /\ Goto(i, m, "completing")
  /\ UNCHANGED <<now, queue, inv, history, budgets>>

Expire(i, m) ==
  LET t == task[i][m] IN
  /\ t.pc = "expiring"
  /\ row' = [row EXCEPT ![m] = AfterExpire(@, OwnedUntil(t), t.failedAt)]
  /\ expired' = IF Fresh(row[m], OwnedUntil(t)) THEN expired \cup {m} ELSE expired
  /\ Goto(i, m, "handler-failed")
  /\ UNCHANGED <<now, queue, inv, successes, unmarked, budgets>>

(* expire() throws, its write applied or not: the error is swallowed and   *)
(* an unapplied one leaves the claim window as it was.                     *)
ExpireThrows(i, m) ==
  LET t == task[i][m] IN
  /\ t.pc = "expiring"
  /\ StoreFault
  /\ row' \in {row, [row EXCEPT ![m] = AfterExpire(@, OwnedUntil(t), t.failedAt)]}
  /\ Goto(i, m, "handler-failed")
  /\ UNCHANGED <<now, queue, inv, history>>

---------------------------------------------------------------------------

processRecord(i, m) ==
  \/ Verify(i, m) \/ VerifyThrows(i, m)
  \/ Claim(i, m) \/ ClaimAnswerLost(i, m) \/ ClaimThrows(i, m)
  \/ HandlerReturns(i, m) \/ HandlerThrows(i, m)
  \/ Complete(i, m) \/ CompleteThrows(i, m)
  \/ Expire(i, m) \/ ExpireThrows(i, m)

Service(i) ==
  \/ \E batch, dup \in SUBSET Msg : Receive(i, batch, dup)
  \/ Kill(i) \/ Respond(i) \/ Reap(i)

Next ==
  \/ Tick
  \/ \E m \in Msg : DeadLetter(m)
  \/ \E i \in Inv : Service(i)
  \/ \E i \in Inv, m \in Msg : processRecord(i, m)

Spec == Init /\ [][Next]_vars

(* SQS redelivers and dead-letters, Lambda answers and recycles, and the   *)
(* tasks of a running invocation step or the invocation dies.  Receive is  *)
(* strongly fair: other messages keep taking the slots.  Nothing makes a   *)
(* handler succeed or a frozen container resume its tasks.                 *)
ServiceFairness ==
  /\ \A m \in Msg :
       /\ WF_vars(DeadLetter(m))
       /\ SF_vars(\E i \in Inv, batch \in SUBSET Msg : m \in batch /\ Receive(i, batch, {}))
  /\ \A i \in Inv :
       /\ WF_vars(Respond(i)) /\ WF_vars(Reap(i))
       /\ \A m \in Msg : WF_vars(inv[i].status = "open" /\ processRecord(i, m))

FairSpec == Spec /\ WF_vars(Tick) /\ ServiceFairness

---------------------------------------------------------------------------
(* Properties *)

(* A message leaves the queue as done only if a handler run of it returned:*)
(* no acknowledgement (isFailureStatus) without the work, whatever store   *)
(* calls failed and whichever duplicate answered.                          *)
AckedWasHandled ==
  \A m \in Msg : queue[m].place = "deleted" => successes[m] > 0

(* The timeout interlock at work: no message has handlers running in two   *)
(* invocations that Lambda still considers running.  Leftovers of rejected *)
(* invocations are the exception the code really has.                      *)
AtMostOneLiveHandler ==
  \A m \in Msg, i, j \in Inv :
    /\ inv[i].status = "open" /\ task[i][m].pc = "running"
    /\ inv[j].status = "open" /\ task[j][m].pc = "running"
    => i = j

(* As long as no store call failed and no invocation died, a handler       *)
(* succeeds at most once per message, duplicates and retries included.     *)
SucceedsOnceWithoutFaults ==
  storeFaults = 0 /\ crashes = 0 => \A m \in Msg : successes[m] <= 1

(* Visibility outlasts the claim window: a redelivery is never turned away *)
(* as in flight by the claim of an attempt that failed or died, unless a   *)
(* store call failed or SQS delivered a duplicate.                         *)
RedeliveryIsNotBlocked ==
  storeFaults = 0 /\ duplicates = 0 =>
    \A i \in Inv, m \in Msg : task[i][m].pc # "duplicate-in-flight"

(* A completed row never changes again, and no handler starts on it. *)
CompletedIsFinal ==
  [][\A m \in Msg : Completed(row[m]) =>
       /\ row'[m] = row[m]
       /\ \A i \in Inv : task'[i][m].pc = "running" => task[i][m].pc = "running"]_vars

(* The freshness guard: while a handler runs under the row's current claim,*)
(* no other worker's complete() or expire() touches the row; it changes    *)
(* hands only by a claim made after the window ran out.                    *)
RunningClaimIsOnlyReclaimed ==
  [][\A i \in Inv, m \in Msg :
       /\ task[i][m].pc = "running" /\ Fresh(row[m], OwnedUntil(task[i][m]))
       /\ row'[m] # row[m]
       => InFlight(row'[m]) /\ row'[m].startedAt > OwnedUntil(task[i][m])]_vars

(* Why the guard works.  Every task that claimed either still holds the    *)
(* row, under the claim it stamped, or was displaced by a claim stamped    *)
(* after its window; no two claims of a message share a stamp, so          *)
(* claimUntil identifies the claim that wrote it.                          *)
Claimed(t) == t.pc \in {"running", "completing", "expiring"}

HoldsRow(t, r) == Fresh(r, OwnedUntil(t)) /\ r.startedAt = t.stamp

Displaced(t, r) == r.startedAt > OwnedUntil(t)

ClaimIdentity ==
  /\ \A i \in Inv, m \in Msg : Claimed(task[i][m]) =>
       /\ row[m].status # "absent"
       /\ HoldsRow(task[i][m], row[m]) \/ Displaced(task[i][m], row[m])
  /\ \A i, j \in Inv, m \in Msg :
       Claimed(task[i][m]) /\ Claimed(task[j][m]) /\ i # j
       => task[i][m].stamp # task[j][m].stamp

(* Clock readings are ordered as they were taken: a claim is stamped after *)
(* its invocation started and before its handler fails, a row's window     *)
(* ends after it began, and no open invocation outlives its timeout.       *)
RowsInOrder ==
  \A m \in Msg :
    /\ row[m].startedAt <= now
    /\ InFlight(row[m]) => row[m].startedAt <= row[m].claimUntil

DeadlinesKept ==
  \A i \in Inv : inv[i].status = "open" => now <= inv[i].startedAt + LambdaTimeout

StampsInOrder ==
  \A i \in Inv, m \in Msg : Pending(task[i][m]) =>
    /\ inv[i].startedAt <= task[i][m].stamp
    /\ task[i][m].stamp <= now
    /\ task[i][m].pc = "expiring" => task[i][m].stamp <= task[i][m].failedAt

ClockOrder == RowsInOrder /\ DeadlinesKept /\ StampsInOrder

(* Every trace of completed work has the work behind it. *)
WorkRecorded ==
  \A m \in Msg :
    /\ queue[m].place = "deleted" \/ Completed(row[m]) => successes[m] > 0
    /\ \A i \in Inv :
         \/ task[i][m].pc = "completing"
         \/ task[i][m].pc \in Status /\ ~isFailureStatus(task[i][m].pc)
         => successes[m] > 0

(* Every message is eventually acknowledged or dead-lettered. *)
EventuallySettled == \A m \in Msg : <>(queue[m].place # "queued")

---------------------------------------------------------------------------
(* The shim and its queue deliver at least once: module AtLeastOnce. *)
Contract == INSTANCE AtLeastOnce WITH
  place  <- [m \in Msg |-> queue[m].place],
  done   <- {m \in Msg : successes[m] > 0},
  marked <- {m \in Msg : Completed(row[m])}

(* The shim implements the delivery contract. *)
ContractSpec == Contract!Spec

---------------------------------------------------------------------------
(* What the comments of the shim say, and the code does not keep. *)

(* "a genuine write THROW must NOT re-run the handler": a handler does not *)
(* start again on a message whose complete() threw after a success.        *)
UnmarkedIsNotRerun ==
  [][\A i \in Inv, m \in unmarked :
       task'[i][m].pc = "running" => task[i][m].pc = "running"]_vars

(* "expire the claim so the next redelivery reclaims and retries on its    *)
(* first try": a message whose failed handler gave its claim back is not   *)
(* rejected when it is delivered again.                                    *)
ExpiredIsRetried ==
  [][\A i \in Inv, m \in expired :
       task'[i][m].pc = "rejected" => task[i][m].pc = "rejected"]_vars
=================================================================================
