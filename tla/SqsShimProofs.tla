----------------------------- MODULE SqsShimProofs -----------------------------
(***************************************************************************)
(* Proofs about SqsShim, for every finite set of messages, every set of    *)
(* invocation slots, every interlock and every budget.                     *)
(***************************************************************************)
EXTENDS SqsShim, FiniteSetTheorems, TLAPS

---------------------------------------------------------------------------
(* Type correctness *)

(* A delivery keeps the types: a batch of tasks starts, the queue moves on. *)
LEMMA ReceiveType ==
  ASSUME TypeOK, NEW i \in Inv, NEW batch \in SUBSET Msg, NEW dup \in SUBSET Msg,
         Receive(i, batch, dup)
  PROVE  TypeOK'
<1>1. Cardinality(dup) \in Nat
  BY FS_Subset, FS_CardinalityType, BoundAssumption
<1>2. duplicates' \in Nat
  BY <1>1 DEF Receive, TypeOK
<1>3. queue' \in [Msg -> Message]
  <2>1. ASSUME NEW m \in Msg
        PROVE  [place |-> "queued", visibleAt |-> now + Visibility,
                receives |-> queue[m].receives + 1] \in Message
    BY InterlockAssumption DEF TypeOK, Message
  <2>2. queue' = [m \in Msg |->
           IF m \in batch
             THEN [place |-> "queued", visibleAt |-> now + Visibility,
                   receives |-> queue[m].receives + 1]
             ELSE queue[m]]
    BY DEF Receive
  <2>3. \A m \in Msg : queue[m] \in Message
    BY DEF TypeOK
  <2>4. QED BY <2>1, <2>2, <2>3
<1>4. inv' \in [Inv -> Invocation]
  BY DEF Receive, TypeOK, Invocation
<1>5. task' \in [Inv -> [Msg -> Task]]
  <2>1. ASSUME NEW m \in Msg PROVE StartTask(m) \in Task /\ NoTask \in Task
    BY DEF StartTask, NoTask, Task, Step, Status, TypeOK
  <2>2. QED BY <2>1 DEF Receive, TypeOK
<1>6. QED
  BY <1>2, <1>3, <1>4, <1>5 DEF Receive, TypeOK, history

(* No step of the Lambda service breaks a type. *)
LEMMA ServiceType ==
  ASSUME TypeOK, NEW i \in Inv, Kill(i) \/ Respond(i) \/ Reap(i)
  PROVE  TypeOK'
<1>1. [m \in Msg |-> NoTask] \in [Msg -> Task]
  BY DEF NoTask, Task, Step, Status
<1>2. task' \in [Inv -> [Msg -> Task]]
  BY <1>1 DEF Kill, Respond, Reap, TypeOK
<1>3. inv' \in [Inv -> Invocation]
  <2>1. inv' = [inv EXCEPT ![i].status = "idle"]
    BY DEF Kill, Respond, Reap
  <2>2. inv \in [Inv -> Invocation] /\ inv[i] \in Invocation
    BY DEF TypeOK
  <2>3. [inv[i] EXCEPT !.status = "idle"] \in Invocation
    BY <2>2 DEF Invocation
  <2>4. QED BY <2>1, <2>2, <2>3
<1>4. queue' \in [Msg -> Message]
  <2>1. ASSUME NEW m \in Msg PROVE [queue[m] EXCEPT !.place = "deleted"] \in Message
    BY DEF TypeOK, Message
  <2>2. QED BY <2>1 DEF Kill, Respond, Reap, TypeOK
<1>5. QED
  BY <1>2, <1>3, <1>4 DEF Kill, Respond, Reap, TypeOK, history, budgets

(* The rows the store writes are rows. *)
LEMMA RowType ==
  ASSUME NEW r \in Row, NEW s \in Nat, NEW u \in Nat
  PROVE  ClaimedRow(s, u) \in Row /\ AfterComplete(r, u) \in Row
         /\ AfterExpire(r, u, s) \in Row
  BY DEF Row, ClaimedRow, AfterComplete, AfterExpire

(* A step of processRecord changes its own task only. *)
LEMMA processRecordTask ==
  ASSUME TypeOK, NEW i \in Inv, NEW m \in Msg, processRecord(i, m)
  PROVE  \E t \in Task : task' = [task EXCEPT ![i][m] = t]
<1>1. task[i][m] \in Task /\ NoTask \in Task /\ now \in Nat
  BY DEF TypeOK, Task, NoTask, Step
<1>2. ASSUME NEW pc \in Step \cup Status, NEW f \in Nat, NEW s \in Nat
      PROVE  [pc |-> pc, stamp |-> s, failedAt |-> f] \in Task
  BY DEF Task
<1>3. ASSUME NEW pc \in Step \cup Status, Goto(i, m, pc)
      PROVE  \E t \in Task : task' = [task EXCEPT ![i][m] = t]
  BY <1>1, <1>3 DEF Goto, Task
<1>4. CASE Verify(i, m) \/ HandlerThrows(i, m)
  <2>1. [pc |-> "claiming", stamp |-> now, failedAt |-> 0] \in Task
    BY <1>1, <1>2 DEF Step
  <2>2. [pc |-> "expiring", stamp |-> task[i][m].stamp, failedAt |-> now] \in Task
    BY <1>1, <1>2 DEF Step, Task
  <2>3. QED BY <1>4, <2>1, <2>2 DEF Verify, HandlerThrows
<1>5. CASE ClaimThrows(i, m)
  BY <1>1, <1>5 DEF ClaimThrows
<1>6. CASE ClaimAnswerLost(i, m)
  <2>1. task = [task EXCEPT ![i][m] = task[i][m]]
    BY DEF TypeOK
  <2>2. QED BY <1>1, <1>6, <2>1 DEF ClaimAnswerLost
<1>7. CASE VerifyThrows(i, m) \/ HandlerReturns(i, m)
  BY <1>3, <1>7 DEF VerifyThrows, HandlerReturns, Step, Status
<1>8. CASE Claim(i, m)
  BY <1>3, <1>8 DEF Claim, Step, Status
<1>9. CASE Complete(i, m) \/ CompleteThrows(i, m)
  BY <1>3, <1>9 DEF Complete, CompleteThrows, Step, Status
<1>10. CASE Expire(i, m) \/ ExpireThrows(i, m)
  BY <1>3, <1>10 DEF Expire, ExpireThrows, Step, Status
<1>11. QED
  BY <1>4, <1>5, <1>6, <1>7, <1>8, <1>9, <1>10 DEF processRecord

(* No step of processRecord breaks a type. *)
LEMMA processRecordType ==
  ASSUME TypeOK, NEW i \in Inv, NEW m \in Msg, processRecord(i, m)
  PROVE  TypeOK'
<1>1. /\ task[i][m] \in Task /\ row[m] \in Row /\ NoTask \in Task
      /\ OwnedUntil(task[i][m]) \in Nat
  BY InterlockAssumption DEF TypeOK, Task, NoTask, Step, OwnedUntil, ClaimUntil
<1>2. PICK t \in Task : task' = [task EXCEPT ![i][m] = t]
  BY <1>1, processRecordTask
<1>3. task' \in [Inv -> [Msg -> Task]]
  BY <1>2 DEF TypeOK
<1>4. row' \in [Msg -> Row]
  <2>1. /\ task[i][m].stamp \in Nat /\ task[i][m].failedAt \in Nat
    BY <1>1 DEF Task
  <2>2. /\ ClaimedRow(task[i][m].stamp, OwnedUntil(task[i][m])) \in Row
        /\ AfterComplete(row[m], OwnedUntil(task[i][m])) \in Row
        /\ AfterExpire(row[m], OwnedUntil(task[i][m]), task[i][m].failedAt) \in Row
    BY <1>1, <2>1, RowType
  <2>3. CASE Claim(i, m) \/ ClaimAnswerLost(i, m)
    BY <2>2, <2>3 DEF Claim, ClaimAnswerLost, TypeOK
  <2>4. CASE Complete(i, m) \/ CompleteThrows(i, m)
    BY <2>2, <2>4 DEF Complete, CompleteThrows, TypeOK
  <2>5. CASE Expire(i, m) \/ ExpireThrows(i, m)
    BY <2>2, <2>5 DEF Expire, ExpireThrows, TypeOK
  <2>6. CASE UNCHANGED row
    BY <2>6 DEF TypeOK
  <2>7. QED
    BY <2>3, <2>4, <2>5, <2>6 DEF processRecord, Verify, VerifyThrows, ClaimThrows,
         HandlerReturns, HandlerThrows
<1>5. inv' \in [Inv -> Invocation]
  <2>1. inv' = inv \/ inv' = [inv EXCEPT ![i].status = "rejected"]
    BY DEF processRecord, Verify, VerifyThrows, Claim, ClaimAnswerLost, ClaimThrows,
           HandlerReturns, HandlerThrows, Complete, CompleteThrows, Expire, ExpireThrows
  <2>2. inv \in [Inv -> Invocation] /\ inv[i] \in Invocation
    BY DEF TypeOK
  <2>3. [inv[i] EXCEPT !.status = "rejected"] \in Invocation
    BY <2>2 DEF Invocation
  <2>4. QED BY <2>1, <2>2, <2>3
<1>6. /\ now' \in Nat /\ queue' \in [Msg -> Message]
      /\ storeFaults' \in Nat /\ crashes' \in Nat /\ duplicates' \in Nat
  BY DEF processRecord, Verify, VerifyThrows, Claim, ClaimAnswerLost, ClaimThrows,
         HandlerReturns, HandlerThrows, Complete, CompleteThrows, Expire, ExpireThrows,
         TypeOK, StoreFault, budgets
<1>7. successes' \in [Msg -> Nat] /\ expired' \subseteq Msg /\ unmarked' \subseteq Msg
  BY DEF processRecord, Verify, VerifyThrows, Claim, ClaimAnswerLost, ClaimThrows,
         HandlerReturns, HandlerThrows, Complete, CompleteThrows, Expire, ExpireThrows,
         TypeOK, history
<1>8. QED BY <1>3, <1>4, <1>5, <1>6, <1>7 DEF TypeOK

(* The initial state, before the first delivery, is well typed. *)
LEMMA TypeCorrectInit == Init => TypeOK
  BY DEF Init, TypeOK, Message, Invocation, Task, Step, NoTask, Row, NoRow

(* Every step, of the queue, the service or processRecord, keeps the types.*)
LEMMA TypeCorrectStep == TypeOK /\ [Next]_vars => TypeOK'
<1> SUFFICES ASSUME TypeOK, [Next]_vars PROVE TypeOK'
  OBVIOUS
<1>1. CASE Tick
  BY <1>1 DEF Tick, TypeOK, history, budgets
<1>2. ASSUME NEW m \in Msg, DeadLetter(m) PROVE TypeOK'
  BY <1>2 DEF DeadLetter, TypeOK, Message, history, budgets
<1>3. ASSUME NEW i \in Inv, Service(i) PROVE TypeOK'
  BY <1>3, ReceiveType, ServiceType DEF Service
<1>4. ASSUME NEW i \in Inv, NEW m \in Msg, processRecord(i, m) PROVE TypeOK'
  BY <1>4, processRecordType
<1>5. CASE UNCHANGED vars
  BY <1>5 DEF vars, TypeOK, history, budgets
<1>6. QED BY <1>1, <1>2, <1>3, <1>4, <1>5 DEF Next

(* Type correctness of the entry shim: rows, tasks, invocations and queue  *)
(* entries keep their shape.                                               *)
THEOREM TypeCorrect == Spec => []TypeOK
  BY TypeCorrectInit, TypeCorrectStep, PTL DEF Spec

---------------------------------------------------------------------------
(* Claim identity: the inductive invariant *)

IInv == TypeOK /\ ClockOrder /\ ClaimIdentity

(* Everything a step of processRecord leaves alone. *)
LEMMA processRecordFrame ==
  ASSUME TypeOK, NEW i \in Inv, NEW m \in Msg, processRecord(i, m)
  PROVE  /\ now' = now
         /\ \A n \in Msg : n # m => row'[n] = row[n]
         /\ \A j \in Inv, n \in Msg : j # i \/ n # m => task'[j][n] = task[j][n]
         /\ \A j \in Inv : inv'[j].startedAt = inv[j].startedAt
         /\ \A j \in Inv : inv'[j].status = "open" => inv[j].status = "open"
<1>1. PICK t \in Task : task' = [task EXCEPT ![i][m] = t]
  BY processRecordTask
<1>2. \A j \in Inv, n \in Msg : j # i \/ n # m => task'[j][n] = task[j][n]
  BY <1>1 DEF TypeOK
<1>3. now' = now
  BY DEF processRecord, Verify, VerifyThrows, Claim, ClaimAnswerLost, ClaimThrows,
         HandlerReturns, HandlerThrows, Complete, CompleteThrows, Expire, ExpireThrows
<1>4. \E r : row' = [row EXCEPT ![m] = r]
  <2>1. row = [row EXCEPT ![m] = row[m]]
    BY DEF TypeOK
  <2>2. QED
    BY <2>1 DEF processRecord, Verify, VerifyThrows, Claim, ClaimAnswerLost,
         ClaimThrows, HandlerReturns, HandlerThrows, Complete, CompleteThrows,
         Expire, ExpireThrows
<1>5. \A n \in Msg : n # m => row'[n] = row[n]
  BY <1>4 DEF TypeOK
<1>6. /\ \A j \in Inv : inv'[j].startedAt = inv[j].startedAt
      /\ \A j \in Inv : inv'[j].status = "open" => inv[j].status = "open"
  <2>1. CASE ClaimThrows(i, m)
    BY <2>1 DEF ClaimThrows, TypeOK, Invocation
  <2>2. CASE UNCHANGED inv
    BY <2>2
  <2>3. QED
    BY <2>1, <2>2 DEF processRecord, Verify, VerifyThrows, Claim, ClaimAnswerLost,
         HandlerReturns, HandlerThrows, Complete, CompleteThrows, Expire, ExpireThrows
<1>7. QED BY <1>2, <1>3, <1>5, <1>6

(* A step of processRecord preserves the invariant if it does so for its   *)
(* own message: its task keeps the order of clocks, the row does, and      *)
(* every task of that message that claimed still holds the row or is       *)
(* displaced.                                                              *)
LEMMA OwnMessageSuffices ==
  ASSUME IInv, NEW i \in Inv, NEW m \in Msg, processRecord(i, m),
         row'[m].startedAt <= now,
         InFlight(row'[m]) => row'[m].startedAt <= row'[m].claimUntil,
         Pending(task'[i][m]) =>
           /\ inv[i].startedAt <= task'[i][m].stamp
           /\ task'[i][m].stamp <= now
           /\ task'[i][m].pc = "expiring" => task'[i][m].stamp <= task'[i][m].failedAt,
         \A j \in Inv : Claimed(task'[j][m]) =>
           /\ row'[m].status # "absent"
           /\ HoldsRow(task'[j][m], row'[m]) \/ Displaced(task'[j][m], row'[m]),
         \A j \in Inv : Claimed(task'[i][m]) /\ Claimed(task'[j][m]) /\ i # j
           => task'[i][m].stamp # task'[j][m].stamp
  PROVE  IInv'
<1> USE DEF IInv
<1>0. /\ now' = now
      /\ \A j \in Inv, n \in Msg : j # i \/ n # m => task'[j][n] = task[j][n]
      /\ \A j \in Inv : inv'[j].startedAt = inv[j].startedAt
      /\ \A j \in Inv : inv'[j].status = "open" => inv[j].status = "open"
  BY processRecordFrame
<1>1. TypeOK'
  BY processRecordType
<1>2. ClockOrder'
  <2>1. \A n \in Msg : /\ row'[n].startedAt <= now
                       /\ InFlight(row'[n]) => row'[n].startedAt <= row'[n].claimUntil
    BY processRecordFrame DEF ClockOrder, RowsInOrder, DeadlinesKept, StampsInOrder
  <2>2. \A j \in Inv : inv'[j].status = "open"
                       => now <= inv'[j].startedAt + LambdaTimeout
    <3>1. \A j \in Inv : inv[j].status = "open"
                      => now <= inv[j].startedAt + LambdaTimeout
      BY DEF ClockOrder, RowsInOrder, DeadlinesKept, StampsInOrder
    <3>2. QED BY <1>0, <3>1
  <2>3. \A j \in Inv, n \in Msg : Pending(task'[j][n]) =>
          /\ inv'[j].startedAt <= task'[j][n].stamp
          /\ task'[j][n].stamp <= now
          /\ task'[j][n].pc = "expiring" => task'[j][n].stamp <= task'[j][n].failedAt
    <3> SUFFICES ASSUME NEW j \in Inv, NEW n \in Msg, Pending(task'[j][n])
        PROVE  /\ inv'[j].startedAt <= task'[j][n].stamp
               /\ task'[j][n].stamp <= now
               /\ task'[j][n].pc = "expiring"
                    => task'[j][n].stamp <= task'[j][n].failedAt
      OBVIOUS
    <3>1. inv'[j].startedAt = inv[j].startedAt
      BY <1>0
    <3>2. CASE j = i /\ n = m
      BY <3>1, <3>2
    <3>3. CASE j # i \/ n # m
      <4>1. task'[j][n] = task[j][n]
        BY <1>0, <3>3
      <4>2. QED BY <3>1, <4>1 DEF ClockOrder, RowsInOrder, DeadlinesKept, StampsInOrder
    <3>4. QED BY <3>2, <3>3
  <2>4. RowsInOrder'
    BY <1>0, <2>1 DEF RowsInOrder, InFlight
  <2>5. DeadlinesKept'
    BY <1>0, <2>2 DEF DeadlinesKept
  <2>6. StampsInOrder'
    BY <1>0, <2>3 DEF StampsInOrder, Pending, Status
  <2>7. QED BY <2>4, <2>5, <2>6 DEF ClockOrder
<1>3. ClaimIdentity'
  <2>1. \A j \in Inv, n \in Msg : Claimed(task'[j][n]) =>
          /\ row'[n].status # "absent"
          /\ HoldsRow(task'[j][n], row'[n]) \/ Displaced(task'[j][n], row'[n])
    BY processRecordFrame DEF ClaimIdentity
  <2>2. \A j, k \in Inv, n \in Msg :
          Claimed(task'[j][n]) /\ Claimed(task'[k][n]) /\ j # k
          => task'[j][n].stamp # task'[k][n].stamp
    BY processRecordFrame DEF ClaimIdentity
  <2>3. QED BY <2>1, <2>2 DEF ClaimIdentity, HoldsRow, Displaced, Claimed, Fresh,
                               InFlight, OwnedUntil, ClaimUntil
<1>4. QED BY <1>1, <1>2, <1>3

(* A step that leaves the row alone and makes no claim. *)
LEMMA NoClaimStep ==
  ASSUME IInv, NEW i \in Inv, NEW m \in Msg, processRecord(i, m),
         row'[m] = row[m],
         ~Pending(task'[i][m])
           \/ /\ task'[i][m].pc = "claiming" /\ task'[i][m].stamp = now
              /\ inv[i].startedAt <= now
           \/ /\ Claimed(task[i][m]) /\ task'[i][m].stamp = task[i][m].stamp
              /\ task'[i][m].pc = "expiring" => task'[i][m].failedAt = now
  PROVE  IInv'
<1> USE DEF IInv
<1>1. Claimed(task'[i][m]) => /\ Claimed(task[i][m])
                              /\ task'[i][m].stamp = task[i][m].stamp
  BY DEF Claimed, Pending, Status
<1>2. Claimed(task[i][m]) => Pending(task[i][m])
  BY DEF Claimed, Pending, Status
<1>3. now \in Nat /\ task[i][m].stamp \in Nat /\ inv[i].startedAt \in Nat
  BY DEF TypeOK, Task, Invocation
<1>4. Pending(task'[i][m]) =>
           /\ inv[i].startedAt <= task'[i][m].stamp
           /\ task'[i][m].stamp <= now
           /\ task'[i][m].pc = "expiring" => task'[i][m].stamp <= task'[i][m].failedAt
  BY <1>2, <1>3 DEF ClockOrder, RowsInOrder, DeadlinesKept, StampsInOrder
<1>5. /\ row'[m].startedAt <= now
      /\ InFlight(row'[m]) => row'[m].startedAt <= row'[m].claimUntil
  BY DEF ClockOrder, RowsInOrder, DeadlinesKept, StampsInOrder
<1>6. \A j \in Inv : Claimed(task'[j][m]) =>
           /\ Claimed(task[j][m]) /\ task'[j][m].stamp = task[j][m].stamp
  BY <1>1, processRecordFrame
<1>7. \A j \in Inv : Claimed(task'[j][m]) =>
           /\ row'[m].status # "absent"
           /\ HoldsRow(task'[j][m], row'[m]) \/ Displaced(task'[j][m], row'[m])
  BY <1>6 DEF ClaimIdentity, HoldsRow, Displaced, OwnedUntil
<1>8. \A j \in Inv : Claimed(task'[i][m]) /\ Claimed(task'[j][m]) /\ i # j
           => task'[i][m].stamp # task'[j][m].stamp
  BY <1>6 DEF ClaimIdentity
<1>9. QED BY <1>4, <1>5, <1>7, <1>8, OwnMessageSuffices

(* A claim that is applied displaces every earlier claim of the message:   *)
(* Claimable compares claimUntil strictly.                                 *)
LEMMA ClaimStep ==
  ASSUME IInv, NEW i \in Inv, NEW m \in Msg, processRecord(i, m),
         task[i][m].pc = "claiming", Claimable(row[m], task[i][m].stamp),
         row'[m] = ClaimedRow(task[i][m].stamp, OwnedUntil(task[i][m])),
         task'[i][m].stamp = task[i][m].stamp,
         task'[i][m].pc \in {"claiming", "running"}
  PROVE  IInv'
<1> USE DEF IInv
<1> DEFINE s == task[i][m].stamp
<1>1. /\ now \in Nat /\ s \in Nat /\ inv[i].startedAt \in Nat /\ ClaimWindow \in Nat
      /\ row[m].startedAt \in Nat /\ row[m].claimUntil \in Nat
      /\ \A j \in Inv : task[j][m].stamp \in Nat
  BY InterlockAssumption DEF TypeOK, Task, Invocation, Row
<1>2. inv[i].startedAt <= s /\ s <= now
  BY DEF ClockOrder, RowsInOrder, DeadlinesKept, StampsInOrder, Pending, Status
<1>3. /\ row'[m].status = "in-flight" /\ row'[m].startedAt = s
      /\ row'[m].claimUntil = s + ClaimWindow
  BY DEF ClaimedRow, OwnedUntil, ClaimUntil
<1>4. \A j \in Inv : j # i /\ Claimed(task[j][m]) => OwnedUntil(task[j][m]) < s
  <2> SUFFICES ASSUME NEW j \in Inv, Claimed(task[j][m])
               PROVE  OwnedUntil(task[j][m]) < s
    OBVIOUS
  <2>1. InFlight(row[m]) /\ row[m].claimUntil < s
    BY DEF Claimable, ClaimIdentity
  <2>2. CASE HoldsRow(task[j][m], row[m])
    BY <2>1, <2>2 DEF HoldsRow, Fresh
  <2>3. CASE Displaced(task[j][m], row[m])
    <3>1. row[m].startedAt <= row[m].claimUntil
      BY <2>1 DEF ClockOrder, RowsInOrder, DeadlinesKept, StampsInOrder
    <3>2. QED BY <1>1, <2>1, <2>3, <3>1 DEF Displaced, OwnedUntil, ClaimUntil
  <2>4. QED BY <2>2, <2>3 DEF ClaimIdentity
<1>5. \A j \in Inv : j # i => task'[j][m] = task[j][m]
  BY processRecordFrame
<1>6. ASSUME NEW j \in Inv, Claimed(task'[j][m])
      PROVE  HoldsRow(task'[j][m], row'[m]) \/ Displaced(task'[j][m], row'[m])
  <2>1. CASE j = i
    BY <1>3, <2>1 DEF HoldsRow, Fresh, InFlight, OwnedUntil, ClaimUntil
  <2>2. CASE j # i
    BY <1>3, <1>4, <1>5, <1>6, <2>2 DEF Displaced
  <2>3. QED BY <2>1, <2>2
<1>7. \A j \in Inv : Claimed(task'[i][m]) /\ Claimed(task'[j][m]) /\ i # j
           => task'[i][m].stamp # task'[j][m].stamp
  BY <1>1, <1>4, <1>5 DEF OwnedUntil, ClaimUntil
<1>8. Pending(task'[i][m]) =>
           /\ inv[i].startedAt <= task'[i][m].stamp
           /\ task'[i][m].stamp <= now
           /\ task'[i][m].pc = "expiring" => task'[i][m].stamp <= task'[i][m].failedAt
  BY <1>2
<1>9. /\ row'[m].startedAt <= now
      /\ InFlight(row'[m]) => row'[m].startedAt <= row'[m].claimUntil
      /\ row'[m].status # "absent"
  BY <1>1, <1>2, <1>3
<1>10. QED BY <1>6, <1>7, <1>8, <1>9, OwnMessageSuffices

(* complete() and expire() write the row only for the task that holds it,  *)
(* so no other task loses its claim to them.                               *)
LEMMA FinalizeStep ==
  ASSUME IInv, NEW i \in Inv, NEW m \in Msg, processRecord(i, m),
         Claimed(task[i][m]), ~Pending(task'[i][m]),
         \/ row'[m] = AfterComplete(row[m], OwnedUntil(task[i][m]))
         \/ /\ task[i][m].pc = "expiring"
            /\ row'[m] = AfterExpire(row[m], OwnedUntil(task[i][m]), task[i][m].failedAt)
  PROVE  IInv'
<1> USE DEF IInv
<1>1. CASE ~Fresh(row[m], OwnedUntil(task[i][m]))
  <2>1. row'[m] = row[m]
    BY <1>1 DEF AfterComplete, AfterExpire
  <2>2. QED BY <2>1, NoClaimStep
<1>2. CASE Fresh(row[m], OwnedUntil(task[i][m]))
  <2>1. /\ now \in Nat /\ ClaimWindow \in Nat
        /\ row[m] \in Row
        /\ \A j \in Inv : task[j][m].stamp \in Nat /\ task[j][m].failedAt \in Nat
    BY InterlockAssumption DEF TypeOK, Task
  <2>2. row[m].startedAt = task[i][m].stamp
    BY <1>2, <2>1 DEF ClaimIdentity, HoldsRow, Displaced, Fresh, ClockOrder,
         RowsInOrder, Row,
         OwnedUntil, ClaimUntil
  <2>3. /\ row'[m].startedAt = row[m].startedAt /\ row'[m].status # "absent"
        /\ InFlight(row'[m]) => /\ task[i][m].pc = "expiring"
                                /\ row'[m].claimUntil = task[i][m].failedAt
    BY <1>2, <2>1 DEF AfterComplete, AfterExpire, Fresh, InFlight, Row
  <2>4. ~Claimed(task'[i][m])
    BY DEF Claimed, Pending, Status
  <2>5. ASSUME NEW j \in Inv, Claimed(task'[j][m])
        PROVE  Displaced(task'[j][m], row'[m])
    <3>1. j # i /\ task'[j][m] = task[j][m] /\ Claimed(task[j][m])
      BY <2>4, <2>5, processRecordFrame
    <3>2. ~HoldsRow(task[j][m], row[m])
      BY <2>2, <3>1 DEF ClaimIdentity, HoldsRow
    <3>3. QED BY <2>3, <3>1, <3>2 DEF ClaimIdentity, Displaced
  <2>6. row'[m].startedAt <= now
    BY <2>3 DEF ClockOrder, RowsInOrder, DeadlinesKept, StampsInOrder
  <2>7. InFlight(row'[m]) => row'[m].startedAt <= row'[m].claimUntil
    BY <2>2, <2>3 DEF ClockOrder, RowsInOrder, DeadlinesKept, StampsInOrder, Pending, Status
  <2>8. QED BY <2>3, <2>4, <2>5, <2>6, <2>7, OwnMessageSuffices
<1>3. QED BY <1>1, <1>2

(* Every step of processRecord keeps the inductive invariant: claims that  *)
(* are applied displace, finalizers that are stale write nothing.          *)
LEMMA processRecordIInv ==
  ASSUME IInv, NEW i \in Inv, NEW m \in Msg, processRecord(i, m)
  PROVE  IInv'
<1> USE DEF IInv
<1>1. task \in [Inv -> [Msg -> Task]] /\ row \in [Msg -> Row] /\ now \in Nat
  BY DEF TypeOK
<1>2. ASSUME NEW pc \in Step \cup Status, Goto(i, m, pc)
      PROVE  task'[i][m].pc = pc /\ task'[i][m].stamp = task[i][m].stamp
  BY <1>1, <1>2 DEF Goto
<1>3. \A pc : pc \in Status => pc \in Step \cup Status /\ pc \notin {"claiming", "running"}
  BY DEF Status
<1>4. CASE Verify(i, m)
  <2>1. inv[i].startedAt <= now
    <3>1. Pending(task[i][m])
      BY <1>4 DEF Verify, Pending, Status
    <3>2. inv[i].startedAt <= task[i][m].stamp /\ task[i][m].stamp <= now
      BY <3>1 DEF ClockOrder, StampsInOrder
    <3>3. inv[i].startedAt \in Nat /\ task[i][m].stamp \in Nat
      BY DEF TypeOK, Task, Invocation
    <3>4. QED BY <1>1, <3>2, <3>3
  <2>2. task'[i][m].pc = "claiming" /\ task'[i][m].stamp = now /\ row' = row
    BY <1>1, <1>4 DEF Verify
  <2>3. QED BY <2>1, <2>2, NoClaimStep
<1>5. CASE VerifyThrows(i, m)
  BY <1>2, <1>5, NoClaimStep DEF VerifyThrows, Pending, Status
<1>6. CASE Claim(i, m)
  <2>1. CASE Claimable(row[m], task[i][m].stamp)
    <3>1. Goto(i, m, "running") /\ "running" \in Step \cup Status
      BY <1>6, <2>1 DEF Claim, Step
    <3>2. row'[m] = ClaimedRow(task[i][m].stamp, OwnedUntil(task[i][m]))
      BY <1>1, <1>6, <2>1 DEF Claim
    <3>3. QED BY <1>2, <1>6, <2>1, <3>1, <3>2, ClaimStep DEF Claim
  <2>2. CASE ~Claimable(row[m], task[i][m].stamp)
    <3>1. PICK pc \in Status : Goto(i, m, pc)
      BY <1>6, <2>2 DEF Claim, Status
    <3>2. row' = row
      BY <1>6, <2>2 DEF Claim
    <3>3. QED BY <1>2, <3>1, <3>2, NoClaimStep DEF Pending
  <2>3. QED BY <2>1, <2>2
<1>7. CASE ClaimAnswerLost(i, m)
  <2>1. row'[m] = ClaimedRow(task[i][m].stamp, OwnedUntil(task[i][m]))
    BY <1>1, <1>7 DEF ClaimAnswerLost
  <2>2. QED BY <1>7, <2>1, ClaimStep DEF ClaimAnswerLost
<1>8. CASE ClaimThrows(i, m)
  BY <1>1, <1>8, NoClaimStep DEF ClaimThrows, NoTask, Pending
<1>9. CASE HandlerReturns(i, m)
  <2>1. Goto(i, m, "completing") /\ "completing" \in Step \cup Status
    BY <1>9 DEF HandlerReturns, Step
  <2>2. QED BY <1>2, <1>9, <2>1, NoClaimStep DEF HandlerReturns, Claimed
<1>10. CASE HandlerThrows(i, m)
  BY <1>1, <1>10, NoClaimStep DEF HandlerThrows, Claimed
<1>11. CASE Complete(i, m) \/ CompleteThrows(i, m)
  <2>1. PICK pc \in Status : Goto(i, m, pc)
    BY <1>11 DEF Complete, CompleteThrows, Status
  <2>2. ~Pending(task'[i][m]) /\ Claimed(task[i][m])
    BY <1>2, <1>11, <2>1 DEF Complete, CompleteThrows, Pending, Claimed
  <2>3. CASE row' = row
    BY <2>2, <2>3, NoClaimStep
  <2>4. CASE row' = [row EXCEPT ![m] = AfterComplete(@, OwnedUntil(task[i][m]))]
    BY <1>1, <2>2, <2>4, FinalizeStep
  <2>5. QED BY <1>11, <2>3, <2>4 DEF Complete, CompleteThrows
<1>12. CASE Expire(i, m) \/ ExpireThrows(i, m)
  <2>1. Goto(i, m, "handler-failed") /\ "handler-failed" \in Status
    BY <1>12 DEF Expire, ExpireThrows, Status
  <2>2. /\ ~Pending(task'[i][m]) /\ Claimed(task[i][m])
        /\ task[i][m].pc = "expiring"
    BY <1>2, <1>12, <2>1 DEF Expire, ExpireThrows, Pending, Claimed
  <2>3. CASE row' = row
    BY <2>2, <2>3, NoClaimStep
  <2>4. CASE row' = [row EXCEPT ![m] =
               AfterExpire(@, OwnedUntil(task[i][m]), task[i][m].failedAt)]
    BY <1>1, <2>2, <2>4, FinalizeStep
  <2>5. QED BY <1>12, <2>3, <2>4 DEF Expire, ExpireThrows
<1>13. QED
  BY <1>4, <1>5, <1>6, <1>7, <1>8, <1>9, <1>10, <1>11, <1>12 DEF processRecord

(* The queue, the clock and the Lambda service touch no row and start no   *)
(* claim, and an invocation begins with the clock of that moment.          *)
LEMMA ServiceIInv ==
  ASSUME IInv, NEW i \in Inv, Service(i), TypeOK'
  PROVE  IInv'
<1> USE DEF IInv
<1>1. now' = now /\ row' = row
  BY DEF Service, Receive, Kill, Respond, Reap
<1>2. \A j \in Inv : j # i => inv'[j] = inv[j] /\ task'[j] = task[j]
  BY DEF Service, Receive, Kill, Respond, Reap, TypeOK
<1>3. \A m \in Msg : ~Claimed(task'[i][m])
  <2>1. \A m \in Msg : ~Claimed(StartTask(m)) /\ ~Claimed(NoTask)
    BY DEF Claimed, StartTask, NoTask
  <2>2. CASE Kill(i) \/ Respond(i) \/ Reap(i)
    BY <2>1, <2>2 DEF Kill, Respond, Reap, TypeOK
  <2>3. ASSUME NEW batch \in SUBSET Msg, NEW dup \in SUBSET Msg, Receive(i, batch, dup),
               NEW m \in Msg
        PROVE  ~Claimed(task'[i][m])
    <3>1. task'[i][m] = StartTask(m) \/ task'[i][m] = NoTask
      BY <2>3 DEF Receive, TypeOK
    <3>2. QED BY <2>1, <3>1
  <2>4. QED BY <2>2, <2>3 DEF Service
<1>4. \A m \in Msg : Pending(task'[i][m]) =>
        /\ inv'[i].startedAt = now /\ task'[i][m].stamp = now
        /\ task'[i][m].pc # "expiring"
  <2>1. ASSUME Kill(i) \/ Respond(i) \/ Reap(i), NEW m \in Msg
        PROVE  ~Pending(task'[i][m])
    BY <2>1 DEF Kill, Respond, Reap, NoTask, Pending, TypeOK
  <2>2. ASSUME NEW batch \in SUBSET Msg, NEW dup \in SUBSET Msg,
               Receive(i, batch, dup), NEW m \in Msg, Pending(task'[i][m])
        PROVE  /\ inv'[i].startedAt = now /\ task'[i][m].stamp = now
               /\ task'[i][m].pc # "expiring"
    <3>1. inv'[i].startedAt = now
      BY <2>2 DEF Receive, TypeOK
    <3>2. task'[i][m] = StartTask(m)
      BY <2>2 DEF Receive, TypeOK, NoTask, Pending
    <3>3. QED BY <3>1, <3>2 DEF StartTask
  <2>3. QED BY <2>1, <2>2 DEF Service
<1>5. inv'[i].status = "open" => inv'[i].startedAt = now
  <2>1. CASE Kill(i) \/ Respond(i) \/ Reap(i)
    BY <2>1 DEF Kill, Respond, Reap, TypeOK, Invocation
  <2>2. ASSUME NEW batch \in SUBSET Msg, NEW dup \in SUBSET Msg, Receive(i, batch, dup)
        PROVE  inv'[i].startedAt = now
    BY <2>2 DEF Receive, TypeOK
  <2>3. QED BY <2>1, <2>2 DEF Service
<1>6. now \in Nat /\ LambdaTimeout \in Nat
  BY InterlockAssumption DEF TypeOK
<1>7. ClockOrder'
  <2>1. RowsInOrder'
    BY <1>1 DEF ClockOrder, RowsInOrder, InFlight
  <2>2. DeadlinesKept'
    <3>1. ASSUME NEW j \in Inv, inv'[j].status = "open"
          PROVE  now <= inv'[j].startedAt + LambdaTimeout
      BY <1>2, <1>5, <1>6, <3>1 DEF ClockOrder, DeadlinesKept
    <3>2. QED BY <1>1, <3>1 DEF DeadlinesKept
  <2>3. StampsInOrder'
    <3>1. ASSUME NEW j \in Inv, NEW m \in Msg, Pending(task'[j][m])
          PROVE  /\ inv'[j].startedAt <= task'[j][m].stamp
                 /\ task'[j][m].stamp <= now
                 /\ task'[j][m].pc = "expiring"
                      => task'[j][m].stamp <= task'[j][m].failedAt
      BY <1>2, <1>4, <1>6, <3>1 DEF ClockOrder, StampsInOrder
    <3>2. QED BY <1>1, <3>1 DEF StampsInOrder, Pending, Status
  <2>4. QED BY <2>1, <2>2, <2>3 DEF ClockOrder
<1>8. ClaimIdentity'
  <2>1. \A j \in Inv, m \in Msg : Claimed(task'[j][m]) =>
          j # i /\ task'[j][m] = task[j][m]
    BY <1>2, <1>3
  <2>2. \A j \in Inv, n \in Msg : Claimed(task'[j][n]) =>
          /\ row'[n].status # "absent"
          /\ HoldsRow(task'[j][n], row'[n]) \/ Displaced(task'[j][n], row'[n])
    BY <1>1, <2>1 DEF ClaimIdentity
  <2>3. \A j, k \in Inv, n \in Msg :
          Claimed(task'[j][n]) /\ Claimed(task'[k][n]) /\ j # k
          => task'[j][n].stamp # task'[k][n].stamp
    BY <2>1 DEF ClaimIdentity
  <2>4. QED BY <2>2, <2>3 DEF ClaimIdentity, HoldsRow, Displaced, Claimed, Fresh,
                               InFlight, OwnedUntil, ClaimUntil
<1>9. QED BY <1>7, <1>8

(* The inductive invariant of claims and clocks holds of the shim.         *)
THEOREM IInvHolds == Spec => []IInv
<1> USE DEF IInv
<1>1. Init => IInv
  <2> SUFFICES ASSUME Init PROVE ClockOrder /\ ClaimIdentity
    BY TypeCorrectInit
  <2>1. \A i \in Inv, m \in Msg : ~Claimed(task[i][m]) /\ ~Pending(task[i][m])
    BY DEF Init, NoTask, Claimed, Pending
  <2>2. RowsInOrder
    BY DEF Init, RowsInOrder, NoRow, InFlight
  <2>3. DeadlinesKept
    BY DEF Init, DeadlinesKept
  <2>4. QED BY <2>1, <2>2, <2>3 DEF ClockOrder, StampsInOrder, ClaimIdentity
<1>2. IInv /\ [Next]_vars => IInv'
  <2> SUFFICES ASSUME IInv, [Next]_vars PROVE IInv'
    OBVIOUS
  <2>1. TypeOK'
    BY TypeCorrectStep
  <2>2. CASE Tick
    <3>1. now' = now + 1 /\ row' = row /\ inv' = inv /\ task' = task
      BY <2>2 DEF Tick
    <3>2. ClaimIdentity'
      BY <3>1 DEF ClaimIdentity, HoldsRow, Displaced, Claimed, Fresh, InFlight,
                  OwnedUntil, ClaimUntil
    <3>3. RowsInOrder'
      BY <3>1 DEF ClockOrder, RowsInOrder, InFlight, TypeOK, Row
    <3>4. DeadlinesKept'
      BY <2>2, <3>1, InterlockAssumption DEF Tick, DeadlinesKept, TypeOK, Invocation
    <3>5. StampsInOrder'
      BY <3>1 DEF ClockOrder, StampsInOrder, Pending, Status, TypeOK, Task, Invocation
    <3>6. QED BY <2>1, <3>2, <3>3, <3>4, <3>5 DEF ClockOrder
  <2>3. ASSUME UNCHANGED <<now, row, inv, task>> PROVE IInv'
    BY <2>1, <2>3 DEF ClockOrder, RowsInOrder, DeadlinesKept, StampsInOrder,
         ClaimIdentity, HoldsRow, Displaced, Claimed, Fresh, InFlight, OwnedUntil,
         ClaimUntil, Pending, Status
  <2>4. ASSUME NEW m \in Msg, DeadLetter(m) PROVE IInv'
    BY <2>3, <2>4 DEF DeadLetter
  <2>5. ASSUME NEW i \in Inv, Service(i) PROVE IInv'
    BY <2>1, <2>5, ServiceIInv
  <2>6. ASSUME NEW i \in Inv, NEW m \in Msg, processRecord(i, m) PROVE IInv'
    BY <2>6, processRecordIInv
  <2>7. CASE UNCHANGED vars
    BY <2>3, <2>7 DEF vars
  <2>8. QED BY <2>2, <2>4, <2>5, <2>6, <2>7 DEF Next
<1>3. QED BY <1>1, <1>2, PTL DEF Spec

---------------------------------------------------------------------------
(* What the invariant gives *)

(* claimUntil identifies the claim that wrote it: every task that claimed  *)
(* holds its row or was displaced after its window.                        *)
THEOREM ClaimIdentityHolds == Spec => []ClaimIdentity
  BY IInvHolds, PTL DEF IInv

(* Clock readings are ordered as they were taken, whatever the batch, the  *)
(* interlock and the faults.                                               *)
THEOREM ClockOrderHolds == Spec => []ClockOrder
  BY IInvHolds, PTL DEF IInv

(* Within its deadline an open invocation keeps the rows it claimed: the   *)
(* claim window is longer than the timeout.                                *)
LEMMA LiveClaimHolds ==
  ASSUME IInv, NEW i \in Inv, NEW m \in Msg, inv[i].status = "open", Claimed(task[i][m])
  PROVE  HoldsRow(task[i][m], row[m])
<1>1. /\ now \in Nat /\ row[m].startedAt \in Nat /\ task[i][m].stamp \in Nat
      /\ inv[i].startedAt \in Nat
  BY DEF IInv, TypeOK, Row, Task, Invocation
<1>2. Pending(task[i][m])
  BY DEF Claimed, Pending, Status
<1>3. inv[i].startedAt <= task[i][m].stamp
  BY <1>2 DEF IInv, ClockOrder, StampsInOrder
<1>4. now <= inv[i].startedAt + LambdaTimeout
  BY DEF IInv, ClockOrder, DeadlinesKept
<1>5. row[m].startedAt <= now
  BY DEF IInv, ClockOrder, RowsInOrder
<1>6. ~Displaced(task[i][m], row[m])
  BY <1>1, <1>3, <1>4, <1>5, InterlockAssumption DEF Displaced, OwnedUntil, ClaimUntil
<1>7. QED BY <1>6 DEF IInv, ClaimIdentity

(* Two live claims of one message are one task. *)
LEMMA LiveClaimIsUnique ==
  ASSUME IInv, NEW i \in Inv, NEW j \in Inv, NEW m \in Msg,
         inv[i].status = "open", Claimed(task[i][m]),
         inv[j].status = "open", Claimed(task[j][m])
  PROVE  i = j
<1>1. HoldsRow(task[i][m], row[m]) /\ HoldsRow(task[j][m], row[m])
  BY LiveClaimHolds
<1>2. QED BY <1>1 DEF HoldsRow, IInv, ClaimIdentity

(* The timeout interlock: within the deadline of an open invocation its    *)
(* claim cannot run out, so it cannot be displaced, and two tasks cannot   *)
(* hold one row.                                                           *)
THEOREM AtMostOneLiveHandlerHolds == Spec => []AtMostOneLiveHandler
<1>1. IInv => AtMostOneLiveHandler
  BY LiveClaimIsUnique DEF AtMostOneLiveHandler, Claimed
<1>2. QED BY <1>1, IInvHolds, PTL

(* Which steps change a row, and what for. *)
LEMMA RowStep ==
  ASSUME TypeOK, [Next]_vars, NEW m \in Msg, row'[m] # row[m]
  PROVE  \E j \in Inv : /\ processRecord(j, m)
                        /\ \/ Claim(j, m) \/ ClaimAnswerLost(j, m)
                           \/ Complete(j, m) \/ CompleteThrows(j, m)
                           \/ Expire(j, m) \/ ExpireThrows(j, m)
<1>1. row' # row
  OBVIOUS
<1>2. PICK j \in Inv, n \in Msg : processRecord(j, n)
  BY <1>1 DEF Next, vars, Tick, DeadLetter, Service, Receive, Kill, Respond, Reap
<1>3. n = m
  BY <1>2, processRecordFrame
<1>4. QED
  BY <1>1, <1>2, <1>3 DEF processRecord, Verify, VerifyThrows, ClaimThrows,
     HandlerReturns, HandlerThrows

(* The freshness guard: while a handler runs under the row's claim, only a *)
(* claim stamped after its window changes the row.                         *)
THEOREM RunningClaimIsOnlyReclaimedHolds == Spec => RunningClaimIsOnlyReclaimed
<1>1. ASSUME IInv, [Next]_vars, NEW i \in Inv, NEW m \in Msg,
             task[i][m].pc = "running", Fresh(row[m], OwnedUntil(task[i][m])),
             row'[m] # row[m]
      PROVE  InFlight(row'[m]) /\ row'[m].startedAt > OwnedUntil(task[i][m])
  <2> DEFINE t == task[i][m]
  <2>0. TypeOK
    BY <1>1 DEF IInv
  <2>1. PICK j \in Inv : /\ processRecord(j, m)
                         /\ \/ Claim(j, m) \/ ClaimAnswerLost(j, m)
                            \/ Complete(j, m) \/ CompleteThrows(j, m)
                            \/ Expire(j, m) \/ ExpireThrows(j, m)
    BY <1>1, <2>0, RowStep
  <2>2. CASE Claim(j, m) \/ ClaimAnswerLost(j, m)
    <3>1. /\ Claimable(row[m], task[j][m].stamp)
          /\ row'[m] = ClaimedRow(task[j][m].stamp, OwnedUntil(task[j][m]))
      BY <1>1, <2>0, <2>2 DEF Claim, ClaimAnswerLost, TypeOK
    <3>2. row[m].claimUntil < task[j][m].stamp /\ row[m].claimUntil = OwnedUntil(t)
      BY <1>1, <3>1 DEF Claimable, Fresh, InFlight
    <3>3. OwnedUntil(t) \in Nat /\ task[j][m].stamp \in Nat
      BY <2>0, InterlockAssumption DEF TypeOK, Task, OwnedUntil, ClaimUntil
    <3>4. QED BY <3>1, <3>2, <3>3 DEF ClaimedRow, InFlight
  <2>3. CASE Complete(j, m) \/ CompleteThrows(j, m) \/ Expire(j, m) \/ ExpireThrows(j, m)
    <3>1. task[j][m].pc \in {"completing", "expiring"}
      BY <2>3 DEF Complete, CompleteThrows, Expire, ExpireThrows
    <3>2. Fresh(row[m], OwnedUntil(task[j][m]))
      BY <1>1, <2>0, <2>3 DEF Complete, CompleteThrows, Expire, ExpireThrows,
         AfterComplete, AfterExpire, TypeOK
    <3>3. OwnedUntil(task[j][m]) = OwnedUntil(t)
      BY <1>1, <3>2 DEF Fresh
    <3>4. task[j][m].stamp = t.stamp
      <4>1. task[j][m].stamp \in Nat /\ t.stamp \in Nat /\ ClaimWindow \in Nat
        BY <2>0, InterlockAssumption DEF TypeOK, Task
      <4>2. QED BY <3>3, <4>1 DEF OwnedUntil, ClaimUntil
    <3>5. QED BY <1>1, <3>1, <3>4 DEF IInv, ClaimIdentity, Claimed
  <2>4. QED BY <2>1, <2>2, <2>3
<1>2. IInv /\ [Next]_vars =>
        [\A i \in Inv, m \in Msg :
           /\ task[i][m].pc = "running" /\ Fresh(row[m], OwnedUntil(task[i][m]))
           /\ row'[m] # row[m]
           => InFlight(row'[m]) /\ row'[m].startedAt > OwnedUntil(task[i][m])]_vars
  BY <1>1
<1>3. QED BY <1>2, IInvHolds, PTL DEF Spec, RunningClaimIsOnlyReclaimed

---------------------------------------------------------------------------
(* No acknowledgement without the work *)

WInv == TypeOK /\ WorkRecorded

(* complete() is the only write that marks a row, and its task comes from  *)
(* a handler that returned; a mark is never taken back.                    *)
LEMMA MarkStep ==
  ASSUME TypeOK, [Next]_vars, NEW m \in Msg, Completed(row'[m])
  PROVE  \/ Completed(row[m])
         \/ \E j \in Inv : task[j][m].pc = "completing"
<1> SUFFICES ASSUME row'[m] # row[m]
             PROVE  Completed(row[m]) \/ \E j \in Inv : task[j][m].pc = "completing"
  OBVIOUS
<1>1. PICK j \in Inv : \/ Claim(j, m) \/ ClaimAnswerLost(j, m)
                       \/ Complete(j, m) \/ CompleteThrows(j, m)
                       \/ Expire(j, m) \/ ExpireThrows(j, m)
  BY RowStep
<1>2. CASE Complete(j, m) \/ CompleteThrows(j, m)
  BY <1>2 DEF Complete, CompleteThrows
<1>3. CASE Claim(j, m) \/ ClaimAnswerLost(j, m)
  <2>1. row'[m] = ClaimedRow(task[j][m].stamp, OwnedUntil(task[j][m]))
    BY <1>3 DEF Claim, ClaimAnswerLost, TypeOK
  <2>2. QED BY <2>1 DEF ClaimedRow, Completed
<1>4. CASE Expire(j, m) \/ ExpireThrows(j, m)
  <2>1. row'[m] = AfterExpire(row[m], OwnedUntil(task[j][m]), task[j][m].failedAt)
    BY <1>4 DEF Expire, ExpireThrows, TypeOK
  <2>2. row[m] \in Row
    BY DEF TypeOK
  <2>3. QED BY <2>1, <2>2 DEF AfterExpire, Fresh, InFlight, Completed, Row
<1>5. QED BY <1>1, <1>2, <1>3, <1>4

(* Every step of processRecord keeps the work behind each record of it:    *)
(* only a handler that returned leads to complete().                       *)
LEMMA processRecordWork ==
  ASSUME WInv, NEW i \in Inv, NEW m \in Msg, processRecord(i, m)
  PROVE  WorkRecorded'
<1>0. TypeOK
  BY DEF WInv
<1>1. \A n \in Msg : successes[n] \in Nat /\ successes'[n] \in Nat
                     /\ (successes[n] > 0 => successes'[n] > 0)
  BY <1>0 DEF TypeOK, processRecord, Verify, VerifyThrows, Claim, ClaimAnswerLost,
     ClaimThrows, HandlerReturns, HandlerThrows, Complete, CompleteThrows, Expire,
     ExpireThrows, history
<1>2. \A n \in Msg : queue'[n] = queue[n]
  BY DEF processRecord, Verify, VerifyThrows, Claim, ClaimAnswerLost,
     ClaimThrows, HandlerReturns, HandlerThrows, Complete, CompleteThrows, Expire,
     ExpireThrows
<1>3. \A n \in Msg : Completed(row'[n]) => successes'[n] > 0
  <2>1. [Next]_vars
    BY DEF Next
  <2>2. QED BY <1>0, <1>1, <2>1, MarkStep DEF WInv, WorkRecorded
<1>4. \/ task'[i][m].pc = "completing"
      \/ task'[i][m].pc \in Status /\ ~isFailureStatus(task'[i][m].pc)
      => successes'[m] > 0
  <2>1. ASSUME NEW pc, Goto(i, m, pc) PROVE task'[i][m].pc = pc
    BY <1>0, <2>1 DEF Goto, TypeOK
  <2>2. CASE Verify(i, m) \/ HandlerThrows(i, m) \/ ClaimThrows(i, m)
    BY <1>0, <2>2 DEF Verify, HandlerThrows, ClaimThrows, NoTask, Status, TypeOK
  <2>3. CASE VerifyThrows(i, m)
    BY <2>1, <2>3 DEF VerifyThrows, isFailureStatus
  <2>4. CASE Claim(i, m)
    <3>1. CASE Claimable(row[m], task[i][m].stamp)
      BY <2>1, <2>4, <3>1 DEF Claim, Claimable, InFlight, Status
    <3>2. CASE ~Completed(row[m]) /\ ~Claimable(row[m], task[i][m].stamp)
      BY <2>1, <2>4, <3>2 DEF Claim, isFailureStatus
    <3>3. CASE Completed(row[m])
      BY <1>1, <3>3 DEF WInv, WorkRecorded
    <3>4. QED BY <3>1, <3>2, <3>3
  <2>5. CASE ClaimAnswerLost(i, m)
    BY <2>5 DEF ClaimAnswerLost, Status
  <2>6. CASE HandlerReturns(i, m)
    BY <1>0, <2>6 DEF HandlerReturns, TypeOK
  <2>7. CASE Complete(i, m) \/ CompleteThrows(i, m)
    BY <1>1, <2>7 DEF Complete, CompleteThrows, WInv, WorkRecorded
  <2>8. CASE Expire(i, m) \/ ExpireThrows(i, m)
    BY <2>1, <2>8 DEF Expire, ExpireThrows, isFailureStatus
  <2>9. QED BY <2>2, <2>3, <2>4, <2>5, <2>6, <2>7, <2>8 DEF processRecord
<1>5. \A j \in Inv, n \in Msg : j # i \/ n # m => task'[j][n] = task[j][n]
  BY <1>0, processRecordFrame
<1>6. \A j \in Inv, n \in Msg :
        \/ task'[j][n].pc = "completing"
        \/ task'[j][n].pc \in Status /\ ~isFailureStatus(task'[j][n].pc)
        => successes'[n] > 0
  BY <1>1, <1>4, <1>5 DEF WInv, WorkRecorded
<1>7. \A n \in Msg : queue'[n].place = "deleted" => successes'[n] > 0
  BY <1>1, <1>2 DEF WInv, WorkRecorded
<1>8. QED BY <1>3, <1>6, <1>7 DEF WorkRecorded, Completed, Status, isFailureStatus

(* The service acknowledges nothing but statuses that have work behind     *)
(* them.                                                                   *)
LEMMA ServiceWork ==
  ASSUME WInv, NEW i \in Inv, Service(i)
  PROVE  WorkRecorded'
<1>0. TypeOK
  BY DEF WInv
<1>1. row' = row /\ successes' = successes
  BY DEF Service, Receive, Kill, Respond, Reap, history
<1>2. \A j \in Inv : j # i => task'[j] = task[j]
  BY <1>0 DEF Service, Receive, Kill, Respond, Reap, TypeOK
<1>3. \A m \in Msg : /\ task'[i][m].pc # "completing"
                     /\ task'[i][m].pc \notin Status \/ isFailureStatus(task'[i][m].pc)
  <2>1. CASE Kill(i) \/ Respond(i) \/ Reap(i)
    BY <1>0, <2>1 DEF Kill, Respond, Reap, NoTask, Status, TypeOK
  <2>2. ASSUME NEW batch \in SUBSET Msg, NEW dup \in SUBSET Msg, Receive(i, batch, dup),
               NEW m \in Msg
        PROVE  task'[i][m].pc \in {"none", "rejected", "verifying", "claiming"}
    <3>1. task'[i][m] = StartTask(m) \/ task'[i][m] = NoTask
      BY <1>0, <2>2 DEF Receive, TypeOK
    <3>2. QED BY <3>1 DEF StartTask, NoTask
  <2>3. QED BY <2>1, <2>2 DEF Service, Status, isFailureStatus
<1>4. ASSUME NEW m \in Msg, queue'[m].place = "deleted" PROVE successes[m] > 0
  <2>1. CASE queue[m].place = "deleted"
    BY <2>1 DEF WInv, WorkRecorded
  <2>2. CASE queue[m].place # "deleted"
    <3>1. ~Kill(i) /\ ~Reap(i)
      BY <1>4, <2>2 DEF Kill, Reap
    <3>2. \A batch, dup \in SUBSET Msg : ~Receive(i, batch, dup)
      BY <1>4, <2>2 DEF Receive
    <3>3. Respond(i)
      BY <3>1, <3>2 DEF Service
    <3>4. task[i][m].pc \in Status /\ ~isFailureStatus(task[i][m].pc)
      BY <1>4, <2>2, <3>3 DEF Respond, Pending
    <3>5. QED BY <3>4 DEF WInv, WorkRecorded
  <2>3. QED BY <2>1, <2>2
<1>5. \A j \in Inv, n \in Msg :
        \/ task'[j][n].pc = "completing"
        \/ task'[j][n].pc \in Status /\ ~isFailureStatus(task'[j][n].pc)
        => successes[n] > 0
  BY <1>2, <1>3 DEF WInv, WorkRecorded
<1>6. \A m \in Msg : Completed(row[m]) => successes[m] > 0
  BY DEF WInv, WorkRecorded
<1>7. QED BY <1>1, <1>4, <1>5, <1>6 DEF WorkRecorded, Completed, Status, isFailureStatus

(* The inductive invariant of recorded work holds of the shim.             *)
THEOREM WInvHolds == Spec => []WInv
<1>1. Init => WInv
  <2>1. Init => WorkRecorded
    BY DEF Init, WorkRecorded, NoTask, NoRow, Completed, Status
  <2>2. QED BY <2>1, TypeCorrectInit DEF WInv
<1>2. WInv /\ [Next]_vars => WInv'
  <2> SUFFICES ASSUME WInv, [Next]_vars PROVE WorkRecorded'
    BY TypeCorrectStep DEF WInv
  <2>1. ASSUME UNCHANGED <<row, task, successes>>,
               \A m \in Msg : queue'[m].place = "deleted" => queue[m].place = "deleted"
        PROVE  WorkRecorded'
    BY <2>1 DEF WInv, WorkRecorded, Completed, Status, isFailureStatus
  <2>2. CASE Tick
    BY <2>1, <2>2 DEF Tick, history
  <2>3. ASSUME NEW m \in Msg, DeadLetter(m) PROVE WorkRecorded'
    BY <2>1, <2>3 DEF DeadLetter, history, WInv, TypeOK, Message
  <2>4. ASSUME NEW i \in Inv, Service(i) PROVE WorkRecorded'
    BY <2>4, ServiceWork
  <2>5. ASSUME NEW i \in Inv, NEW m \in Msg, processRecord(i, m) PROVE WorkRecorded'
    BY <2>5, processRecordWork
  <2>6. CASE UNCHANGED vars
    BY <2>1, <2>6 DEF vars
  <2>7. QED BY <2>2, <2>3, <2>4, <2>5, <2>6 DEF Next
<1>3. QED BY <1>1, <1>2, PTL DEF Spec

(* Every completed row, every acknowledgeable status and every deleted     *)
(* message has a handler run behind it that returned.                      *)
THEOREM WorkRecordedHolds == Spec => []WorkRecorded
  BY WInvHolds, PTL DEF WInv

(* No message is acknowledged without its work, whichever store calls      *)
(* failed and whichever duplicate answered.                                *)
THEOREM AckedWasHandledHolds == Spec => []AckedWasHandled
<1>1. WInv => AckedWasHandled
  BY DEF WInv, WorkRecorded, AckedWasHandled
<1>2. QED BY <1>1, WInvHolds, PTL

---------------------------------------------------------------------------
(* Completed rows, and the delivery contract *)

(* A completed row is final: claim() is refused on it, and complete() and  *)
(* expire() are never fresh.                                               *)
THEOREM CompletedIsFinalHolds == Spec => CompletedIsFinal
<1>1. ASSUME TypeOK, [Next]_vars, NEW m \in Msg, Completed(row[m])
      PROVE  row'[m] = row[m]
  <2> SUFFICES ASSUME row'[m] # row[m] PROVE FALSE
    OBVIOUS
  <2>1. PICK j \in Inv : \/ Claim(j, m) \/ ClaimAnswerLost(j, m)
                         \/ Complete(j, m) \/ CompleteThrows(j, m)
                         \/ Expire(j, m) \/ ExpireThrows(j, m)
    BY <1>1, RowStep
  <2>2. /\ \A s : ~Claimable(row[m], s)
        /\ \A u : ~Fresh(row[m], u)
    BY <1>1 DEF Claimable, Fresh, InFlight, Completed
  <2>3. QED
    BY <1>1, <2>1, <2>2 DEF Claim, ClaimAnswerLost, Complete, CompleteThrows, Expire,
       ExpireThrows, AfterComplete, AfterExpire, TypeOK
<1>2. ASSUME TypeOK, [Next]_vars, NEW m \in Msg, Completed(row[m]), NEW i \in Inv,
             task'[i][m].pc = "running"
      PROVE  task[i][m].pc = "running"
  <2>1. ASSUME NEW j \in Inv, NEW n \in Msg, processRecord(j, n)
        PROVE  task[i][m].pc = "running"
    <3>1. CASE j # i \/ n # m
      BY <1>2, <2>1, <3>1, processRecordFrame
    <3>2. CASE j = i /\ n = m
      <4>1. ASSUME NEW pc, Goto(i, m, pc) PROVE task'[i][m].pc = pc
        BY <1>2, <4>1 DEF Goto, TypeOK
      <4>2. CASE Claim(i, m)
        <5>1. ~Claimable(row[m], task[i][m].stamp)
          BY <1>2 DEF Claimable, InFlight, Completed
        <5>2. QED BY <1>2, <4>1, <4>2, <5>1 DEF Claim
      <4>3. CASE ClaimAnswerLost(i, m)
        BY <1>2, <4>3 DEF ClaimAnswerLost
      <4>4. CASE Verify(i, m) \/ HandlerThrows(i, m) \/ ClaimThrows(i, m)
        BY <1>2, <4>4 DEF Verify, HandlerThrows, ClaimThrows, NoTask, TypeOK
      <4>5. CASE VerifyThrows(i, m) \/ HandlerReturns(i, m)
        BY <1>2, <4>1, <4>5 DEF VerifyThrows, HandlerReturns
      <4>6. CASE Complete(i, m) \/ CompleteThrows(i, m)
        BY <1>2, <4>1, <4>6 DEF Complete, CompleteThrows
      <4>7. CASE Expire(i, m) \/ ExpireThrows(i, m)
        BY <1>2, <4>1, <4>7 DEF Expire, ExpireThrows
      <4>8. QED BY <2>1, <3>2, <4>2, <4>3, <4>4, <4>5, <4>6, <4>7 DEF processRecord
    <3>3. QED BY <3>1, <3>2
  <2>2. ASSUME NEW j \in Inv, Service(j) PROVE task[i][m].pc = "running"
    <3>1. j # i => task'[i] = task[i]
      BY <1>2, <2>2 DEF Service, Receive, Kill, Respond, Reap, TypeOK
    <3>2. CASE Kill(j) \/ Respond(j) \/ Reap(j)
      BY <1>2, <3>1, <3>2 DEF Kill, Respond, Reap, NoTask, TypeOK
    <3>3. ASSUME NEW batch \in SUBSET Msg, NEW dup \in SUBSET Msg, Receive(j, batch, dup)
          PROVE  task[i][m].pc = "running"
      <4>1. j = i => task'[i][m] = StartTask(m) \/ task'[i][m] = NoTask
        BY <1>2, <3>3 DEF Receive, TypeOK
      <4>2. QED BY <1>2, <3>1, <4>1 DEF StartTask, NoTask
    <3>4. QED BY <2>2, <3>2, <3>3 DEF Service
  <2>3. CASE UNCHANGED task
    BY <1>2, <2>3
  <2>4. QED BY <1>2, <2>1, <2>2, <2>3 DEF Next, Tick, DeadLetter, vars
<1>3. TypeOK /\ [Next]_vars =>
        [\A m \in Msg : Completed(row[m]) =>
           /\ row'[m] = row[m]
           /\ \A i \in Inv : task'[i][m].pc = "running"
                => task[i][m].pc = "running"]_vars
  BY <1>1, <1>2
<1>4. QED BY <1>3, TypeCorrect, PTL DEF Spec, CompletedIsFinal

(* The shim implements the at-least-once contract: a handler that returns  *)
(* is the work, an applied complete() the mark, Respond acknowledges only  *)
(* done messages, and every other step is invisible to the queue's client. *)
THEOREM ShimImplementsContract == Spec => ContractSpec
<1> DEFINE P == [m \in Msg |-> queue[m].place]
           D == {m \in Msg : successes[m] > 0}
           K == {m \in Msg : Completed(row[m])}
<1>1. Init => Contract!Init
  BY DEF Init, Contract!Init, NoRow, Completed
<1>2. WInv /\ [Next]_vars => [Contract!Next]_(Contract!vars)
  <2> SUFFICES ASSUME WInv, [Next]_vars
               PROVE  Contract!Next \/ UNCHANGED <<P, D, K>>
    BY DEF Contract!vars
  <2>0. TypeOK
    BY DEF WInv
  <2>1. CASE Tick \/ UNCHANGED vars
    BY <2>1 DEF Tick, vars, history, Completed
  <2>2. ASSUME NEW m \in Msg, DeadLetter(m) PROVE Contract!Next
    <3>1. P' = [P EXCEPT ![m] = "dead"] /\ P[m] = "queued"
      BY <2>0, <2>2 DEF DeadLetter, TypeOK, Message, Visible
    <3>2. D' = D /\ K' = K
      BY <2>2 DEF DeadLetter, history, Completed
    <3>3. Contract!GiveUp(m)
      BY <3>1, <3>2 DEF Contract!GiveUp
    <3>4. QED BY <3>3 DEF Contract!Next
  <2>3. ASSUME NEW i \in Inv, Service(i) PROVE Contract!Next \/ UNCHANGED <<P, D, K>>
    <3>1. D' = D /\ K' = K
      BY <2>3 DEF Service, Receive, Kill, Respond, Reap, history, Completed
    <3>2. CASE Kill(i) \/ Reap(i)
      BY <3>1, <3>2 DEF Kill, Reap
    <3>3. ASSUME NEW batch \in SUBSET Msg, NEW dup \in SUBSET Msg, Receive(i, batch, dup)
          PROVE  P' = P
      <4>1. \A m \in Msg : queue'[m].place = queue[m].place
        BY <3>3 DEF Receive, Visible
      <4>2. QED BY <4>1
    <3>4. CASE Respond(i)
      <4>0. PICK S \in SUBSET Msg : \A m \in Msg :
              m \in S <=> /\ task[i][m].pc # "none"
                          /\ ~isFailureStatus(task[i][m].pc)
                          /\ queue[m].place = "queued"
        <5>1. {m \in Msg : /\ task[i][m].pc # "none"
                           /\ ~isFailureStatus(task[i][m].pc)
                           /\ queue[m].place = "queued"} \in SUBSET Msg
          OBVIOUS
        <5>2. QED BY <5>1
      <4>1. P' = [m \in Msg |-> IF m \in S THEN "deleted" ELSE P[m]]
        <5>1. \A m \in Msg : queue'[m].place =
                               IF m \in S THEN "deleted" ELSE queue[m].place
          BY <2>0, <3>4, <4>0 DEF Respond, TypeOK, Message
        <5>2. QED BY <5>1
      <4>2. \A m \in S : m \in D /\ P[m] = "queued"
        BY <3>4, <4>0 DEF Respond, Pending, WInv, WorkRecorded
      <4>3. Contract!Acknowledge(S)
        BY <3>1, <4>1, <4>2 DEF Contract!Acknowledge
      <4>4. QED BY <4>3 DEF Contract!Next
    <3>5. QED BY <2>3, <3>1, <3>2, <3>3, <3>4 DEF Service
  <2>4. ASSUME NEW i \in Inv, NEW m \in Msg, processRecord(i, m)
        PROVE  Contract!Next \/ UNCHANGED <<P, D, K>>
    <3>1. P' = P
      BY <2>4 DEF processRecord, Verify, VerifyThrows, Claim, ClaimAnswerLost,
         ClaimThrows, HandlerReturns, HandlerThrows, Complete, CompleteThrows,
         Expire, ExpireThrows
    <3>2. CASE HandlerReturns(i, m)
      <4>1. D' = D \cup {m}
        BY <2>0, <3>2 DEF HandlerReturns, TypeOK
      <4>2. K' = K
        BY <3>2 DEF HandlerReturns, Completed
      <4>3. Contract!Work(m)
        BY <3>1, <4>1, <4>2 DEF Contract!Work
      <4>4. QED BY <4>3 DEF Contract!Next
    <3>3. CASE Complete(i, m) \/ CompleteThrows(i, m)
      <4>1. D' = D
        BY <3>3 DEF Complete, CompleteThrows, history
      <4>2. m \in D
        BY <3>3 DEF Complete, CompleteThrows, WInv, WorkRecorded
      <4>3. K' = K \/ K' = K \cup {m}
        <5>1. \A n \in Msg : n # m => row'[n] = row[n]
          BY <2>0, <2>4, processRecordFrame
        <5>2. Completed(row[m]) => row'[m] = row[m]
          BY <2>0, <3>3 DEF Complete, CompleteThrows, AfterComplete, Fresh, InFlight,
             Completed, TypeOK
        <5>3. \A n \in Msg : n # m => (n \in K' <=> n \in K)
          BY <5>1 DEF Completed
        <5>4. m \in K => m \in K'
          BY <5>2 DEF Completed
        <5>5. QED BY <5>3, <5>4
      <4>4. CASE K' = K
        BY <3>1, <4>1, <4>4
      <4>5. CASE K' = K \cup {m}
        <5>1. Contract!Mark(m)
          BY <3>1, <4>1, <4>2, <4>5 DEF Contract!Mark
        <5>2. QED BY <5>1 DEF Contract!Next
      <4>6. QED BY <4>3, <4>4, <4>5
    <3>4. CASE ~(HandlerReturns(i, m) \/ Complete(i, m) \/ CompleteThrows(i, m))
      <4>1. D' = D
        BY <2>4, <3>4 DEF processRecord, Verify, VerifyThrows, Claim, ClaimAnswerLost,
           ClaimThrows, HandlerThrows, Expire, ExpireThrows, history
      <4>2. \A n \in Msg : Completed(row'[n]) <=> Completed(row[n])
        <5>1. CASE row' = row
          BY <5>1
        <5>2. CASE Claim(i, m) \/ ClaimAnswerLost(i, m)
          <6>1. \A t, u : ~Completed(ClaimedRow(t, u))
            BY DEF ClaimedRow, Completed
          <6>2. \A t : Claimable(row[m], t) => ~Completed(row[m])
            BY DEF Claimable, InFlight, Completed
          <6>3. row' = row \/ /\ ~Completed(row[m]) /\ ~Completed(row'[m])
            BY <2>0, <5>2, <6>1, <6>2 DEF Claim, ClaimAnswerLost, TypeOK
          <6>4. \A n \in Msg : n # m => row'[n] = row[n]
            BY <2>0, <2>4, processRecordFrame
          <6>5. QED BY <6>3, <6>4
        <5>3. CASE Expire(i, m) \/ ExpireThrows(i, m)
          <6>1. \A u, f : Completed(AfterExpire(row[m], u, f)) <=> Completed(row[m])
            BY <2>0 DEF AfterExpire, Completed, TypeOK, Row
          <6>2. QED BY <2>0, <5>3, <6>1 DEF Expire, ExpireThrows, TypeOK
        <5>4. QED BY <2>4, <3>4, <5>1, <5>2, <5>3 DEF processRecord, Verify,
                  VerifyThrows, ClaimThrows, HandlerThrows
      <4>3. K' = K
        BY <4>2 DEF Completed
      <4>4. QED BY <3>1, <4>1, <4>3
    <3>5. QED BY <3>2, <3>3, <3>4
  <2>5. QED BY <2>1, <2>2, <2>3, <2>4 DEF Next
<1>3. QED BY <1>1, <1>2, WInvHolds, PTL DEF Spec, ContractSpec, Contract!Spec
---------------------------------------------------------------------------
(* One success without faults: the inductive invariant *)

(* An idle slot runs nothing, and without a failed store call no           *)
(* invocation leaves tasks behind.                                         *)
IdleIsEmpty ==
  \A i \in Inv, m \in Msg : inv[i].status = "idle" => task[i][m].pc = "none"

NoLeftovers == storeFaults = 0 => \A i \in Inv : inv[i].status # "rejected"

(* A success that is counted is in the row, or its complete() is on the way. *)
CountedOnce ==
  storeFaults = 0 /\ crashes = 0 => \A m \in Msg :
    /\ successes[m] <= 1
    /\ successes[m] > 0 =>
         Completed(row[m]) \/ \E i \in Inv : task[i][m].pc = "completing"

SlotInv == TypeOK /\ IdleIsEmpty /\ NoLeftovers

OInv == IInv /\ SlotInv /\ CountedOnce

(* What went wrong stays counted. *)
LEMMA FaultsStay ==
  ASSUME TypeOK, [Next]_vars
  PROVE  /\ storeFaults' = 0 => storeFaults = 0
         /\ crashes' = 0 => crashes = 0
         /\ duplicates' = 0 => duplicates = 0
<1>1. storeFaults \in Nat /\ crashes \in Nat /\ duplicates \in Nat
  BY DEF TypeOK
<1>2. \A dup \in SUBSET Msg : Cardinality(dup) \in Nat
  BY FS_Subset, FS_CardinalityType, BoundAssumption
<1>3. ASSUME NEW i \in Inv, Service(i)
      PROVE  /\ storeFaults' = storeFaults
             /\ crashes' = crashes \/ crashes' = crashes + 1
             /\ duplicates' = 0 => duplicates = 0
  <2>1. CASE Kill(i) \/ Respond(i) \/ Reap(i)
    BY <2>1 DEF Kill, Respond, Reap, budgets
  <2>2. ASSUME NEW batch \in SUBSET Msg, NEW dup \in SUBSET Msg, Receive(i, batch, dup)
        PROVE  /\ storeFaults' = storeFaults /\ crashes' = crashes
               /\ duplicates' = 0 => duplicates = 0
    BY <1>1, <1>2, <2>2 DEF Receive
  <2>3. QED BY <1>3, <2>1, <2>2 DEF Service
<1>4. ASSUME NEW i \in Inv, NEW m \in Msg, processRecord(i, m)
      PROVE  /\ storeFaults' = storeFaults \/ storeFaults' = storeFaults + 1
             /\ crashes' = crashes /\ duplicates' = duplicates
  BY <1>4 DEF processRecord, Verify, VerifyThrows, Claim, ClaimAnswerLost,
     ClaimThrows, HandlerReturns, HandlerThrows, Complete, CompleteThrows, Expire,
     ExpireThrows, StoreFault, budgets
<1>5. CASE Tick \/ (\E m \in Msg : DeadLetter(m)) \/ UNCHANGED vars
  BY <1>5 DEF Tick, DeadLetter, vars, budgets
<1>6. QED BY <1>1, <1>3, <1>4, <1>5 DEF Next

(* processRecord when no store call failed. *)
LEMMA QuietRecord ==
  ASSUME TypeOK, NEW i \in Inv, NEW m \in Msg, processRecord(i, m), storeFaults' = 0
  PROVE  /\ inv' = inv /\ queue' = queue
         /\ \/ Verify(i, m) \/ Claim(i, m) \/ HandlerReturns(i, m)
            \/ HandlerThrows(i, m) \/ Complete(i, m) \/ Expire(i, m)
<1>1. ~StoreFault
  BY DEF StoreFault, TypeOK
<1>2. QED
  BY <1>1 DEF processRecord, Verify, VerifyThrows, Claim, ClaimAnswerLost,
     ClaimThrows, HandlerReturns, HandlerThrows, Complete, CompleteThrows, Expire,
     ExpireThrows

(* Slots: a task needs an invocation, and only a failed claim() makes an   *)
(* invocation leave tasks behind.                                          *)
LEMMA SlotStep == SlotInv /\ [Next]_vars => SlotInv'
<1> SUFFICES ASSUME SlotInv, [Next]_vars PROVE SlotInv'
  OBVIOUS
<1>0. TypeOK /\ TypeOK'
  BY TypeCorrectStep DEF SlotInv
<1>1. storeFaults' = 0 => storeFaults = 0
  BY <1>0, FaultsStay
<1>2. ASSUME NEW i \in Inv, Service(i) PROVE IdleIsEmpty' /\ NoLeftovers'
  <2>1. \A j \in Inv : j # i => inv'[j] = inv[j] /\ task'[j] = task[j]
    BY <1>0, <1>2 DEF Service, Receive, Kill, Respond, Reap, TypeOK
  <2>2. CASE Kill(i) \/ Respond(i) \/ Reap(i)
    <3>1. inv'[i].status = "idle" /\ \A m \in Msg : task'[i][m].pc = "none"
      BY <1>0, <2>2 DEF Kill, Respond, Reap, TypeOK, Invocation, NoTask
    <3>2. QED BY <1>1, <2>1, <3>1 DEF SlotInv, IdleIsEmpty, NoLeftovers
  <2>3. ASSUME NEW batch \in SUBSET Msg, NEW dup \in SUBSET Msg, Receive(i, batch, dup)
        PROVE  inv'[i].status = "open"
    BY <1>0, <2>3 DEF Receive, TypeOK
  <2>4. CASE inv'[i].status = "open"
    BY <1>1, <2>1, <2>4 DEF SlotInv, IdleIsEmpty, NoLeftovers
  <2>5. QED BY <1>2, <2>2, <2>3, <2>4 DEF Service
<1>3. ASSUME NEW i \in Inv, NEW m \in Msg, processRecord(i, m)
      PROVE  IdleIsEmpty' /\ NoLeftovers'
  <2>1. \A j \in Inv, n \in Msg : j # i \/ n # m => task'[j][n] = task[j][n]
    BY <1>0, <1>3, processRecordFrame
  <2>2. task[i][m].pc # "none"
    BY <1>3 DEF processRecord, Verify, VerifyThrows, Claim, ClaimAnswerLost,
       ClaimThrows, HandlerReturns, HandlerThrows, Complete, CompleteThrows, Expire,
       ExpireThrows
  <2>3. inv[i].status # "idle"
    BY <2>2 DEF SlotInv, IdleIsEmpty
  <2>4. CASE ClaimThrows(i, m)
    <3>1. storeFaults' # 0
      BY <1>0, <2>4 DEF ClaimThrows, StoreFault, TypeOK
    <3>2. \A j \in Inv : inv'[j].status = "idle" => j # i /\ inv[j].status = "idle"
      BY <1>0, <2>4 DEF ClaimThrows, TypeOK, Invocation
    <3>3. QED BY <2>1, <3>1, <3>2 DEF SlotInv, IdleIsEmpty, NoLeftovers
  <2>5. CASE inv' = inv
    BY <1>1, <2>1, <2>3, <2>5 DEF SlotInv, IdleIsEmpty, NoLeftovers
  <2>6. QED
    BY <1>3, <2>4, <2>5 DEF processRecord, Verify, VerifyThrows, Claim,
       ClaimAnswerLost, HandlerReturns, HandlerThrows, Complete, CompleteThrows,
       Expire, ExpireThrows
<1>4. CASE Tick \/ (\E m \in Msg : DeadLetter(m)) \/ UNCHANGED vars
  <2>1. inv' = inv /\ task' = task
    BY <1>4 DEF Tick, DeadLetter, vars
  <2>2. IdleIsEmpty'
    BY <2>1 DEF SlotInv, IdleIsEmpty
  <2>3. NoLeftovers'
    BY <1>1, <2>1 DEF SlotInv, NoLeftovers
  <2>4. QED BY <1>0, <2>2, <2>3 DEF SlotInv
<1>5. QED BY <1>0, <1>2, <1>3, <1>4 DEF Next, SlotInv

(* The count of a step of processRecord: a handler that returns is the only *)
(* live claim of its message and finds it unfinished, and complete() finds *)
(* the row its own.                                                        *)
LEMMA processRecordOnce ==
  ASSUME OInv, NEW i \in Inv, NEW m \in Msg, processRecord(i, m),
         storeFaults' = 0, crashes' = 0
  PROVE  /\ successes'[m] <= 1
         /\ successes'[m] > 0 =>
              Completed(row'[m]) \/ \E j \in Inv : task'[j][m].pc = "completing"
<1>0. IInv /\ TypeOK /\ [Next]_vars
  BY DEF OInv, IInv, Next
<1>1. storeFaults = 0 /\ crashes = 0
  BY <1>0, FaultsStay
<1>2. /\ successes[m] \in Nat /\ successes[m] <= 1
      /\ successes[m] > 0 => Completed(row[m])
                               \/ \E j \in Inv : task[j][m].pc = "completing"
  BY <1>0, <1>1 DEF OInv, CountedOnce, TypeOK
<1>3. \A j \in Inv, n \in Msg : j # i \/ n # m => task'[j][n] = task[j][n]
  BY <1>0, processRecordFrame
<1>4. ASSUME NEW j \in Inv, Claimed(task[j][m])
      PROVE  inv[j].status = "open" /\ HoldsRow(task[j][m], row[m])
  <2>1. inv[j].status = "open"
    BY <1>0, <1>1, <1>4 DEF OInv, SlotInv, IdleIsEmpty, NoLeftovers, TypeOK,
       Invocation, Claimed
  <2>2. QED BY <1>0, <1>4, <2>1, LiveClaimHolds
<1>5. \A j, k \in Inv : Claimed(task[j][m]) /\ Claimed(task[k][m]) => j = k
  BY <1>0, <1>4, LiveClaimIsUnique
<1>6. ASSUME NEW pc, Goto(i, m, pc) PROVE task'[i][m].pc = pc
  BY <1>0, <1>6 DEF Goto, TypeOK
<1>7. CASE HandlerReturns(i, m)
  <2>1. Claimed(task[i][m]) /\ task[i][m].pc # "completing"
    BY <1>7 DEF HandlerReturns, Claimed
  <2>2. ~Completed(row[m])
    BY <1>4, <2>1 DEF HoldsRow, Fresh, InFlight, Completed
  <2>3. \A j \in Inv : task[j][m].pc # "completing"
    BY <1>5, <2>1 DEF Claimed
  <2>4. successes[m] = 0
    BY <1>2, <2>2, <2>3
  <2>5. successes'[m] = 1 /\ task'[i][m].pc = "completing"
    BY <1>0, <1>6, <1>7, <2>4 DEF HandlerReturns, TypeOK
  <2>6. QED BY <2>5
<1>8. CASE Complete(i, m)
  <2>1. Fresh(row[m], OwnedUntil(task[i][m]))
    BY <1>4, <1>8 DEF Complete, Claimed, HoldsRow
  <2>2. Completed(row'[m])
    BY <1>0, <1>8, <2>1 DEF Complete, AfterComplete, Completed, TypeOK
  <2>3. QED BY <1>2, <1>8, <2>2 DEF Complete, history
<1>9. CASE Verify(i, m) \/ Claim(i, m) \/ HandlerThrows(i, m) \/ Expire(i, m)
  <2>1. successes' = successes
    BY <1>9 DEF Verify, Claim, HandlerThrows, Expire, history
  <2>2. Completed(row[m]) => row'[m] = row[m]
    BY <1>0, <1>9 DEF Verify, Claim, HandlerThrows, Expire, Claimable, AfterExpire,
       Fresh, InFlight, Completed, TypeOK
  <2>3. task[i][m].pc # "completing"
    BY <1>9 DEF Verify, Claim, HandlerThrows, Expire
  <2>4. \A j \in Inv : task[j][m].pc = "completing" => task'[j][m].pc = "completing"
    BY <1>3, <2>3
  <2>5. QED BY <1>2, <2>1, <2>2, <2>4
<1>10. QED BY <1>0, <1>7, <1>8, <1>9, QuietRecord

(* The inductive invariant of counted successes holds of the shim.         *)
THEOREM OInvHolds == Spec => []OInv
<1>1. Init => SlotInv /\ CountedOnce
  <2>1. Init => IdleIsEmpty /\ NoLeftovers /\ CountedOnce
    BY DEF Init, IdleIsEmpty, NoLeftovers, CountedOnce, NoTask
  <2>2. QED BY <2>1, TypeCorrectInit DEF SlotInv
<1>2. IInv /\ IInv' /\ SlotInv /\ CountedOnce /\ [Next]_vars
        => SlotInv' /\ CountedOnce'
  <2> SUFFICES ASSUME IInv, SlotInv, CountedOnce, [Next]_vars,
                      storeFaults' = 0, crashes' = 0, NEW m \in Msg
               PROVE  /\ successes'[m] <= 1
                      /\ successes'[m] > 0 =>
                           Completed(row'[m])
                             \/ \E j \in Inv : task'[j][m].pc = "completing"
    BY SlotStep DEF CountedOnce, Completed
  <2>0. TypeOK /\ OInv
    BY DEF IInv, OInv
  <2>1. storeFaults = 0 /\ crashes = 0
    BY <2>0, FaultsStay
  <2>2. /\ successes[m] <= 1
        /\ successes[m] > 0 => Completed(row[m])
                                 \/ \E j \in Inv : task[j][m].pc = "completing"
    BY <2>1 DEF CountedOnce
  <2>3. CASE Tick \/ (\E n \in Msg : DeadLetter(n)) \/ UNCHANGED vars
    <3>1. successes' = successes /\ row' = row /\ task' = task
      BY <2>3 DEF Tick, DeadLetter, vars, history
    <3>2. QED BY <2>2, <3>1
  <2>4. ASSUME NEW i \in Inv, Service(i)
        PROVE  /\ successes'[m] = successes[m] /\ row'[m] = row[m]
               /\ \A j \in Inv : task[j][m].pc = "completing"
                    => task'[j][m].pc = "completing"
    <3>1. successes' = successes /\ row' = row
      BY <2>4 DEF Service, Receive, Kill, Respond, Reap, history
    <3>2. \A j \in Inv : j # i => task'[j] = task[j]
      BY <2>0, <2>4 DEF Service, Receive, Kill, Respond, Reap, TypeOK
    <3>3. task[i][m].pc # "completing"
      <4>1. CASE Kill(i)
        BY <2>0, <4>1 DEF Kill, TypeOK
      <4>2. CASE Respond(i)
        BY <4>2 DEF Respond, Pending, Status
      <4>3. CASE Reap(i)
        BY <2>1, <4>3 DEF Reap, SlotInv, NoLeftovers
      <4>4. ASSUME NEW batch \in SUBSET Msg, NEW dup \in SUBSET Msg,
                   Receive(i, batch, dup)
            PROVE  task[i][m].pc # "completing"
        BY <4>4 DEF Receive, SlotInv, IdleIsEmpty
      <4>5. QED BY <2>4, <4>1, <4>2, <4>3, <4>4 DEF Service
    <3>4. QED BY <3>1, <3>2, <3>3
  <2>5. ASSUME NEW i \in Inv, NEW n \in Msg, processRecord(i, n), n # m
        PROVE  /\ successes'[m] = successes[m] /\ row'[m] = row[m]
               /\ \A j \in Inv : task'[j][m] = task[j][m]
    <3>1. \/ successes' = successes
          \/ successes' = [successes EXCEPT ![n] = @ + 1]
      BY <2>5 DEF processRecord, Verify, VerifyThrows, Claim, ClaimAnswerLost,
         ClaimThrows, HandlerReturns, HandlerThrows, Complete, CompleteThrows,
         Expire, ExpireThrows, history
    <3>2. successes'[m] = successes[m]
      BY <2>0, <2>5, <3>1 DEF TypeOK
    <3>3. QED BY <2>0, <2>5, <3>2, processRecordFrame
  <2>6. QED
    BY <2>0, <2>2, <2>3, <2>4, <2>5, processRecordOnce DEF Next
<1>3. QED BY <1>1, <1>2, IInvHolds, PTL DEF Spec, OInv

(* As long as no store call failed and no invocation died, a handler       *)
(* succeeds at most once per message: a live claim is never displaced, so  *)
(* a second run needs the first one's claim to be given back, and a        *)
(* success gives it back only as completed.                                *)
THEOREM SucceedsOnceWithoutFaultsHolds == Spec => []SucceedsOnceWithoutFaults
<1>1. OInv => SucceedsOnceWithoutFaults
  BY DEF OInv, CountedOnce, SucceedsOnceWithoutFaults
<1>2. QED BY <1>1, OInvHolds, PTL

---------------------------------------------------------------------------
(* Redeliveries: the inductive invariant *)

(* A task is the only delivery of its message that is under way, and the   *)
(* message is invisible for a visibility timeout from its start.           *)
OneDelivery(i, m) ==
  /\ queue[m].place = "queued" /\ queue[m].receives > 0
  /\ queue[m].visibleAt = inv[i].startedAt + Visibility
  /\ \A j \in Inv : task[j][m].pc # "none" => j = i

(* The task about to claim finds no live claim.  That of an unsigned       *)
(* message is stamped at the start of the invocation; a signed one, which  *)
(* is stamped later, is accepted on its first delivery only.               *)
Unblocked(i, m) ==
  /\ task[i][m].pc # "duplicate-in-flight"
  /\ task[i][m].pc = "verifying" => m \in Signed
  /\ task[i][m].pc = "expiring" => task[i][m].failedAt <= now
  /\ m \notin Signed /\ task[i][m].pc = "claiming" =>
       /\ task[i][m].stamp = inv[i].startedAt
       /\ Claimable(row[m], task[i][m].stamp) \/ Completed(row[m])
  /\ m \in Signed /\ task[i][m].pc \in {"verifying", "claiming"} =>
       row[m].status = "absent"

(* Only a delivery writes a row, and a claim of an unsigned message runs   *)
(* out before the message can be delivered again.                          *)
RowExpires(m) ==
  /\ row[m].status # "absent" => queue[m].receives > 0
  /\ queue[m].receives > 0 => queue[m].visibleAt >= Visibility
  /\ m \notin Signed /\ InFlight(row[m]) => row[m].claimUntil < queue[m].visibleAt

Delivered(m) ==
  /\ RowExpires(m)
  /\ \A i \in Inv : task[i][m].pc # "none" => OneDelivery(i, m) /\ Unblocked(i, m)

Redelivered == storeFaults = 0 /\ duplicates = 0 => \A m \in Msg : Delivered(m)

RInv == IInv /\ SlotInv /\ Redelivered

(* While a task of a message is under way, the message is not visible: the *)
(* visibility timeout is longer than the invocation's.                     *)
LEMMA InvisibleWhileDelivered ==
  ASSUME RInv, storeFaults = 0, duplicates = 0, NEW i \in Inv, NEW m \in Msg,
         task[i][m].pc # "none"
  PROVE  inv[i].status = "open" /\ now < queue[m].visibleAt /\ ~Visible(m)
<1>1. now \in Nat /\ inv[i].startedAt \in Nat /\ inv[i].status # "idle"
      /\ inv[i].status # "rejected"
  BY DEF RInv, SlotInv, TypeOK, Invocation, IdleIsEmpty, NoLeftovers
<1>2. inv[i].status = "open"
  BY <1>1 DEF RInv, SlotInv, TypeOK, Invocation
<1>3. now <= inv[i].startedAt + LambdaTimeout
  BY <1>2 DEF RInv, IInv, ClockOrder, DeadlinesKept
<1>4. queue[m].visibleAt = inv[i].startedAt + Visibility
  BY DEF RInv, Redelivered, Delivered, OneDelivery
<1>5. now < queue[m].visibleAt
  BY <1>1, <1>3, <1>4, InterlockAssumption
<1>6. QED BY <1>1, <1>2, <1>4, <1>5, InterlockAssumption DEF Visible

(* A delivery finds no claim that could turn it away. *)
LEMMA ReceiveDelivers ==
  ASSUME RInv, storeFaults = 0, duplicates' = 0, NEW i \in Inv, NEW m \in Msg,
         NEW batch \in SUBSET Msg, NEW dup \in SUBSET Msg, Receive(i, batch, dup)
  PROVE  Delivered(m)'
<1>0. TypeOK
  BY DEF RInv, SlotInv
<1>1. duplicates = 0 /\ dup = {}
  <2>1. Cardinality(dup) \in Nat /\ duplicates \in Nat /\ IsFiniteSet(dup)
    BY <1>0, FS_Subset, FS_CardinalityType, BoundAssumption DEF TypeOK
  <2>2. duplicates = 0 /\ Cardinality(dup) = 0
    BY <2>1 DEF Receive
  <2>3. QED BY <2>1, <2>2, FS_EmptySet
<1>2. Delivered(m)
  BY <1>1 DEF RInv, Redelivered
<1>3. /\ now' = now /\ row' = row
      /\ \A j \in Inv : j # i => inv'[j] = inv[j] /\ task'[j] = task[j]
      /\ inv'[i].startedAt = now
      /\ task[i][m].pc = "none"
  BY <1>0 DEF Receive, TypeOK, RInv, SlotInv, IdleIsEmpty
<1>4. CASE m \notin batch
  <2>1. queue'[m] = queue[m] /\ task'[i][m].pc = "none"
    BY <1>0, <1>1, <1>4 DEF Receive, TypeOK, NoTask
  <2>2. RowExpires(m)'
    BY <1>2, <1>3, <2>1 DEF Delivered, RowExpires, InFlight
  <2>3. ASSUME NEW j \in Inv, task'[j][m].pc # "none"
        PROVE  OneDelivery(j, m)' /\ Unblocked(j, m)'
    <3>1. j # i /\ task'[j] = task[j] /\ inv'[j] = inv[j]
      BY <1>3, <2>1, <2>3
    <3>2. OneDelivery(j, m) /\ Unblocked(j, m)
      BY <1>2, <2>3, <3>1 DEF Delivered
    <3>3. OneDelivery(j, m)'
      BY <1>3, <2>1, <3>1, <3>2 DEF OneDelivery
    <3>4. Unblocked(j, m)'
      BY <1>3, <3>1, <3>2 DEF Unblocked, Claimable, InFlight, Completed
    <3>5. QED BY <3>3, <3>4
  <2>4. QED BY <2>2, <2>3 DEF Delivered
<1>5. CASE m \in batch
  <2>1. /\ queue'[m].place = "queued" /\ queue'[m].visibleAt = now + Visibility
        /\ queue'[m].receives = queue[m].receives + 1
        /\ task'[i][m] = StartTask(m)
    BY <1>0, <1>5 DEF Receive, TypeOK
  <2>2. /\ queue[m].place = "queued" /\ queue[m].visibleAt <= now
        /\ queue[m].receives \in Nat /\ queue[m].visibleAt \in Nat /\ now \in Nat
        /\ row[m].claimUntil \in Nat
    BY <1>0, <1>5 DEF Receive, Visible, TypeOK, Message, Row
  <2>3. \A j \in Inv : task[j][m].pc = "none"
    <3>1. Visible(m)
      BY <1>5 DEF Receive
    <3>2. QED BY <1>1, <3>1, InvisibleWhileDelivered
  <2>4. OneDelivery(i, m)'
    BY <1>3, <2>1, <2>2, <2>3 DEF OneDelivery
  <2>5. RowExpires(m)'
    <3>1. m \notin Signed /\ InFlight(row[m]) => row[m].claimUntil < now + Visibility
      BY <1>2, <2>2, InterlockAssumption DEF Delivered, RowExpires
    <3>2. QED BY <1>3, <2>1, <2>2, <3>1, InterlockAssumption DEF RowExpires, InFlight
  <2>6. Unblocked(i, m)'
    <3>1. /\ task'[i][m].pc \in {"rejected", "verifying", "claiming"}
          /\ task'[i][m].pc = "verifying" => m \in Signed /\ now <= Skew
          /\ task'[i][m].pc = "claiming" => m \notin Signed
          /\ task'[i][m].stamp = now
      BY <2>1 DEF StartTask, TimestampOk
    <3>2. m \notin Signed => Claimable(row[m], now) \/ Completed(row[m])
      BY <1>0, <1>2, <2>2 DEF Delivered, RowExpires, Claimable, InFlight, Completed,
         TypeOK, Row
    <3>3. m \in Signed /\ now <= Skew => row[m].status = "absent"
      BY <1>2, <2>2, SkewAssumption, InterlockAssumption DEF Delivered, RowExpires
    <3>4. QED
      BY <1>3, <3>1, <3>2, <3>3 DEF Unblocked, Claimable, InFlight, Completed
  <2>7. \A j \in Inv : task'[j][m].pc # "none" => j = i
    BY <1>3, <2>3
  <2>8. QED BY <2>4, <2>5, <2>6, <2>7 DEF Delivered
<1>6. QED BY <1>4, <1>5

(* The end of an invocation takes its deliveries with it. *)
LEMMA EndDelivers ==
  ASSUME RInv, storeFaults = 0, duplicates = 0, NEW i \in Inv, NEW m \in Msg,
         Kill(i) \/ Respond(i) \/ Reap(i)
  PROVE  Delivered(m)'
<1>0. TypeOK
  BY DEF RInv, SlotInv
<1>1. Delivered(m)
  BY DEF RInv, Redelivered
<1>2. /\ now' = now /\ row' = row /\ task'[i][m].pc = "none"
      /\ \A j \in Inv : j # i => inv'[j] = inv[j] /\ task'[j] = task[j]
  BY <1>0 DEF Kill, Respond, Reap, TypeOK, NoTask
<1>3. /\ queue'[m].receives = queue[m].receives
      /\ queue'[m].visibleAt = queue[m].visibleAt
      /\ task[i][m].pc = "none" => queue'[m] = queue[m]
  BY <1>0 DEF Kill, Respond, Reap, TypeOK, Message
<1>4. RowExpires(m)'
  BY <1>1, <1>2, <1>3 DEF Delivered, RowExpires, InFlight
<1>5. ASSUME NEW j \in Inv, task'[j][m].pc # "none"
      PROVE  OneDelivery(j, m)' /\ Unblocked(j, m)'
  <2>1. j # i /\ task'[j] = task[j] /\ inv'[j] = inv[j]
    BY <1>2, <1>5
  <2>2. OneDelivery(j, m) /\ Unblocked(j, m)
    BY <1>1, <1>5, <2>1 DEF Delivered
  <2>3. queue'[m] = queue[m]
    BY <1>3, <2>1, <2>2 DEF OneDelivery
  <2>4. OneDelivery(j, m)'
    BY <1>2, <2>1, <2>2, <2>3 DEF OneDelivery
  <2>5. Unblocked(j, m)'
    BY <1>2, <2>1, <2>2 DEF Unblocked, Claimable, InFlight, Completed
  <2>6. QED BY <2>4, <2>5
<1>6. QED BY <1>4, <1>5 DEF Delivered

(* A task's own steps: what it writes to its row runs out before the       *)
(* message is visible again.                                               *)
LEMMA processRecordDelivers ==
  ASSUME RInv, storeFaults = 0, storeFaults' = 0, duplicates = 0,
         NEW i \in Inv, NEW m \in Msg, processRecord(i, m)
  PROVE  Delivered(m)'
<1>0. TypeOK /\ Delivered(m)
  BY DEF RInv, SlotInv, Redelivered
<1>1. /\ now' = now /\ inv' = inv /\ queue' = queue
      /\ \A j \in Inv : j # i => task'[j][m] = task[j][m]
      /\ \/ Verify(i, m) \/ Claim(i, m) \/ HandlerReturns(i, m)
         \/ HandlerThrows(i, m) \/ Complete(i, m) \/ Expire(i, m)
  BY <1>0, QuietRecord, processRecordFrame
<1>2. task[i][m].pc # "none"
  BY <1>1 DEF Verify, Claim, HandlerReturns, HandlerThrows, Complete, Expire
<1>3. OneDelivery(i, m) /\ Unblocked(i, m)
  BY <1>0, <1>2 DEF Delivered
<1>4. OneDelivery(i, m)' /\ \A j \in Inv : task'[j][m].pc # "none" => j = i
  BY <1>1, <1>3 DEF OneDelivery
<1>5. now < queue[m].visibleAt
  BY <1>2, InvisibleWhileDelivered
<1>6. ASSUME NEW pc, Goto(i, m, pc) PROVE task'[i][m].pc = pc
  BY <1>0, <1>6 DEF Goto, TypeOK
<1>7. /\ now \in Nat /\ task[i][m].stamp \in Nat /\ task[i][m].failedAt \in Nat
      /\ inv[i].startedAt \in Nat /\ queue[m].visibleAt \in Nat /\ row[m] \in Row
  BY <1>0 DEF TypeOK, Task, Message, Invocation
<1>8. CASE Verify(i, m)
  <2>1. /\ task'[i][m].pc = "claiming" /\ task[i][m].pc = "verifying" /\ row' = row
    BY <1>0, <1>8 DEF Verify, TypeOK
  <2>2. m \in Signed /\ row[m].status = "absent"
    BY <1>3, <2>1 DEF Unblocked
  <2>3. Unblocked(i, m)' /\ RowExpires(m)'
    BY <1>0, <1>1, <2>1, <2>2 DEF Unblocked, Delivered, RowExpires, InFlight
  <2>4. QED BY <1>4, <2>3 DEF Delivered
<1>9. CASE Claim(i, m)
  <2>1. CASE Claimable(row[m], task[i][m].stamp)
    <3>1. /\ task'[i][m].pc = "running"
          /\ row'[m] = ClaimedRow(task[i][m].stamp, OwnedUntil(task[i][m]))
      BY <1>0, <1>6, <1>9, <2>1 DEF Claim, TypeOK
    <3>2. m \notin Signed => OwnedUntil(task[i][m]) < queue[m].visibleAt
      BY <1>3, <1>7, <1>9, InterlockAssumption
         DEF Claim, Unblocked, OneDelivery, OwnedUntil, ClaimUntil
    <3>3. Unblocked(i, m)' /\ RowExpires(m)'
      BY <1>0, <1>1, <1>3, <3>1, <3>2
         DEF Unblocked, OneDelivery, Delivered, RowExpires, ClaimedRow, InFlight
    <3>4. QED BY <1>4, <3>3 DEF Delivered
  <2>2. CASE ~Claimable(row[m], task[i][m].stamp)
    <3>1. Completed(row[m])
      BY <1>3, <1>9, <2>2 DEF Claim, Unblocked, Claimable
    <3>2. task'[i][m].pc = "duplicate-completed" /\ row' = row
      BY <1>6, <1>9, <2>2, <3>1 DEF Claim
    <3>3. Unblocked(i, m)' /\ RowExpires(m)'
      BY <1>0, <1>1, <3>2 DEF Unblocked, Delivered, RowExpires, InFlight
    <3>4. QED BY <1>4, <3>3 DEF Delivered
  <2>3. QED BY <2>1, <2>2
<1>10. CASE HandlerReturns(i, m)
  <2>1. task'[i][m].pc = "completing" /\ row' = row
    BY <1>6, <1>10 DEF HandlerReturns
  <2>2. Unblocked(i, m)' /\ RowExpires(m)'
    BY <1>0, <1>1, <2>1 DEF Unblocked, Delivered, RowExpires, InFlight
  <2>3. QED BY <1>4, <2>2 DEF Delivered
<1>11. CASE HandlerThrows(i, m)
  <2>1. task'[i][m].pc = "expiring" /\ task'[i][m].failedAt = now /\ row' = row
    BY <1>0, <1>11 DEF HandlerThrows, TypeOK
  <2>2. Unblocked(i, m)' /\ RowExpires(m)'
    BY <1>0, <1>1, <1>7, <2>1 DEF Unblocked, Delivered, RowExpires, InFlight
  <2>3. QED BY <1>4, <2>2 DEF Delivered
<1>12. CASE Complete(i, m)
  <2>1. /\ task'[i][m].pc \in {"handled", "handled-stale-complete"}
        /\ row'[m] = AfterComplete(row[m], OwnedUntil(task[i][m]))
    BY <1>0, <1>6, <1>12 DEF Complete, TypeOK
  <2>2. row'[m] = row[m] \/ Completed(row'[m])
    BY <2>1 DEF AfterComplete, Completed
  <2>3. RowExpires(m)'
    BY <1>0, <1>1, <1>3, <2>2 DEF OneDelivery, Delivered, RowExpires, InFlight, Completed
  <2>4. Unblocked(i, m)'
    BY <2>1 DEF Unblocked
  <2>5. QED BY <1>4, <2>3, <2>4 DEF Delivered
<1>13. CASE Expire(i, m)
  <2>1. /\ task'[i][m].pc = "handler-failed"
        /\ row'[m] = AfterExpire(row[m], OwnedUntil(task[i][m]), task[i][m].failedAt)
    BY <1>0, <1>6, <1>13 DEF Expire, TypeOK
  <2>2. task[i][m].failedAt < queue[m].visibleAt
    BY <1>3, <1>5, <1>7, <1>13 DEF Expire, Unblocked
  <2>3. row'[m] = row[m] \/ row'[m].claimUntil = task[i][m].failedAt
    BY <1>7, <2>1 DEF AfterExpire, Row
  <2>4. RowExpires(m)'
    BY <1>0, <1>1, <1>3, <2>2, <2>3 DEF OneDelivery, Delivered, RowExpires, InFlight
  <2>5. Unblocked(i, m)'
    BY <2>1 DEF Unblocked
  <2>6. QED BY <1>4, <2>4, <2>5 DEF Delivered
<1>14. QED BY <1>1, <1>8, <1>9, <1>10, <1>11, <1>12, <1>13

(* The inductive invariant of redeliveries holds of the shim.              *)
THEOREM RInvHolds == Spec => []RInv
<1>1. Init => SlotInv /\ Redelivered
  <2>1. Init => IdleIsEmpty /\ NoLeftovers
    BY DEF Init, IdleIsEmpty, NoLeftovers, NoTask
  <2>2. Init => Redelivered
    BY DEF Init, Redelivered, Delivered, RowExpires, NoTask, NoRow, InFlight
  <2>3. QED BY <2>1, <2>2, TypeCorrectInit DEF SlotInv
<1>2. IInv /\ IInv' /\ SlotInv /\ Redelivered /\ [Next]_vars
        => SlotInv' /\ Redelivered'
  <2> SUFFICES ASSUME IInv, SlotInv, Redelivered, [Next]_vars,
                      storeFaults' = 0, duplicates' = 0, NEW m \in Msg
               PROVE  Delivered(m)'
    BY SlotStep DEF Redelivered
  <2>0. TypeOK /\ RInv
    BY DEF IInv, RInv
  <2>1. storeFaults = 0 /\ duplicates = 0
    BY <2>0, FaultsStay
  <2>2. Delivered(m)
    BY <2>1 DEF Redelivered
  <2>3. ASSUME row'[m] = row[m], queue'[m].receives = queue[m].receives,
               queue'[m].visibleAt = queue[m].visibleAt, inv' = inv,
               \A j \in Inv : task'[j][m] = task[j][m],
               queue'[m] = queue[m] \/ \A j \in Inv : task[j][m].pc = "none",
               now' = now \/ now' = now + 1
        PROVE  Delivered(m)'
    <3>1. RowExpires(m)'
      BY <2>2, <2>3 DEF Delivered, RowExpires, InFlight
    <3>2. ASSUME NEW j \in Inv, task'[j][m].pc # "none"
          PROVE  OneDelivery(j, m)' /\ Unblocked(j, m)'
      <4>1. OneDelivery(j, m) /\ Unblocked(j, m) /\ queue'[m] = queue[m]
        BY <2>2, <2>3, <3>2 DEF Delivered
      <4>2. OneDelivery(j, m)'
        BY <2>3, <4>1 DEF OneDelivery
      <4>3. now \in Nat /\ task[j][m].failedAt \in Nat
        BY <2>0 DEF TypeOK, Task
      <4>4. Unblocked(j, m)'
        BY <2>3, <4>1, <4>3 DEF Unblocked, Claimable, InFlight, Completed
      <4>5. QED BY <4>2, <4>4
    <3>3. QED BY <3>1, <3>2 DEF Delivered
  <2>4. CASE Tick \/ UNCHANGED vars
    BY <2>3, <2>4 DEF Tick, vars
  <2>5. ASSUME NEW n \in Msg, DeadLetter(n) PROVE Delivered(m)'
    <3>1. /\ queue'[m].receives = queue[m].receives
          /\ queue'[m].visibleAt = queue[m].visibleAt
          /\ n # m => queue'[m] = queue[m]
      BY <2>0, <2>5 DEF DeadLetter, TypeOK, Message
    <3>2. n = m => \A j \in Inv : task[j][m].pc = "none"
      BY <2>0, <2>1, <2>5, InvisibleWhileDelivered DEF DeadLetter
    <3>3. QED BY <2>3, <2>5, <3>1, <3>2 DEF DeadLetter
  <2>6. ASSUME NEW i \in Inv, Service(i) PROVE Delivered(m)'
    BY <2>0, <2>1, <2>6, ReceiveDelivers, EndDelivers DEF Service
  <2>7. ASSUME NEW i \in Inv, NEW n \in Msg, processRecord(i, n) PROVE Delivered(m)'
    <3>1. CASE n = m
      BY <2>0, <2>1, <2>7, <3>1, processRecordDelivers
    <3>2. CASE n # m
      BY <2>0, <2>3, <2>7, <3>2, QuietRecord, processRecordFrame
    <3>3. QED BY <3>1, <3>2
  <2>8. QED BY <2>4, <2>5, <2>6, <2>7 DEF Next
<1>3. QED BY <1>1, <1>2, IInvHolds, PTL DEF Spec, RInv

(* A redelivery is never turned away as in flight by the claim of an       *)
(* attempt that failed or died, unless a store call failed or SQS          *)
(* delivered a duplicate: a claim window that begins with the invocation   *)
(* ends before the message is visible, and one that begins later, after    *)
(* the lookups of a signed envelope, is never met because the envelope     *)
(* expires first (SkewAssumption).                                         *)
THEOREM RedeliveryIsNotBlockedHolds == Spec => []RedeliveryIsNotBlocked
<1>1. RInv => RedeliveryIsNotBlocked
  BY DEF RInv, Redelivered, Delivered, Unblocked, RedeliveryIsNotBlocked
<1>2. QED BY <1>1, RInvHolds, PTL

=================================================================================
