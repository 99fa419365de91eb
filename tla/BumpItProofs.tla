------------------------------ MODULE BumpItProofs ------------------------------
(***************************************************************************)
(* bump-it is a publisher loop, so what SelfPublishProofs shows of every   *)
(* such loop holds of it, for all projects, alerts, caps and bounds; and   *)
(* the budget of its revisits, by counting the chains that are on the way. *)
(***************************************************************************)
EXTENDS BumpIt, TLAPS

Loop == INSTANCE SelfPublishProofs

(* Bodies of a revisit carry a project, an alert and a count within the    *)
(* cap.                                                                    *)
LEMMA RevisitShape ==
  ASSUME NEW b \in Body, b.stage = "revisit"
  PROVE  b.project \in Project /\ b.alert \in Alert /\ b.count \in 0 .. REVISIT_CAP
  BY DEF Body, Delayed, InitBody, Breakdown, Revisit

(* Bodies of a breakdown carry a project. *)
LEMMA BreakdownShape ==
  ASSUME NEW b \in Body, b.stage = "breakdown"
  PROVE  b.project \in Project
  BY DEF Body, Delayed, InitBody, Breakdown, Revisit

(* The assumption of the loop holds of bump-it. *)
LEMMA LoopAssumption == Loop!SelfPublishAssumption
  BY CapAssumption DEF Loop!SelfPublishAssumption, Body

(* A count below the cap stays within it when it is bumped. *)
LEMMA NextRevisitType ==
  ASSUME NEW b \in Body, b.stage = "revisit"
  PROVE  NextRevisit(b) \subseteq Body
<1>1. b.project \in Project /\ b.alert \in Alert /\ b.count \in 0 .. REVISIT_CAP
  BY RevisitShape
<1>2. ~(b.count >= REVISIT_CAP) => b.count + 1 \in 0 .. REVISIT_CAP
  BY <1>1, CapAssumption
<1>3. QED BY <1>1, <1>2 DEF NextRevisit, Body, Delayed

(* Every step of bump-it is a step of the publisher loop, or none of its:  *)
(* the handlers only decide what is handed on.                             *)
LEMMA StepIsLoopStep ==
  ASSUME Loop!DeliveryTypeOK, optedIn \subseteq Project, [Next]_vars
  PROVE  [Loop!DeliveryNext]_(Loop!deliveryVars)
<1> USE DEF Loop!DeliveryNext, Loop!Run
<1>1. CASE UNCHANGED vars
  BY <1>1 DEF vars, Loop!deliveryVars
<1>2. CASE Tick
  BY <1>2 DEF Tick, SP!Arrive, Loop!Arrive, SP!Sent, Loop!Sent, Body
<1>3. ASSUME NEW p \in Project, Toggle(p) PROVE UNCHANGED Loop!deliveryVars
  BY <1>3 DEF Toggle, Loop!deliveryVars
<1>4. ASSUME NEW b \in Body, Fire(b) PROVE Loop!DeliveryNext
  BY <1>4 DEF Fire, SP!Fire, Loop!Fire, SP!Sent, Loop!Sent
<1>5. ASSUME NEW w \in Worker, NEW b \in Body, Deliver(w, b) PROVE Loop!DeliveryNext
  BY <1>5 DEF Deliver, SP!Deliver, Loop!Deliver, SP!Busy, Loop!Busy
<1>6. ASSUME NEW w \in Worker, Disturb(w) PROVE Loop!DeliveryNext
  <2>1. CASE SP!Fail(w)
    BY <2>1 DEF SP!Fail, Loop!Fail, SP!Busy, Loop!Busy, SP!Fault, Loop!Fault,
                SP!Sent, Loop!Sent, SP!NoWork, Loop!NoWork
  <2>2. CASE SP!Redeliver(w)
    BY <2>2 DEF SP!Redeliver, Loop!Redeliver, SP!Busy, Loop!Busy, SP!Fault, Loop!Fault,
                SP!Sent, Loop!Sent
  <2>3. ASSUME NEW b \in Body, SP!PublishThrows(w, b) PROVE Loop!PublishThrows(w, b)
    BY <2>3 DEF SP!PublishThrows, Loop!PublishThrows, SP!Fault, Loop!Fault,
                SP!Sent, Loop!Sent, SP!NoWork, Loop!NoWork, SP!Scheduled, Loop!Scheduled,
                SP!deriveScheduleName, Loop!deriveScheduleName
  <2>4. QED BY <1>6, <2>1, <2>2, <2>3 DEF Disturb
<1>7. ASSUME NEW w \in Worker, Handle(w) PROVE Loop!DeliveryNext
  <2>1. worker[w].body \in Body BY DEF Loop!DeliveryTypeOK, Loop!Work
  <2>2. ASSUME NEW T \in SUBSET Body, SP!Decide(w, T) PROVE Loop!DeliveryNext
    BY <2>2 DEF SP!Decide, Loop!Decide
  <2>3. SP!RunSkill(w) => Loop!DeliveryNext
    BY DEF SP!RunSkill, Loop!RunSkill
  <2>4. CASE handleInit(w)
    <3>1. {Breakdown(p) : p \in optedIn} \subseteq Body BY DEF Body
    <3>2. QED BY <2>2, <2>4, <3>1 DEF handleInit
  <2>5. CASE handleBreakdown(w)
    BY <2>2, <2>3, <2>5 DEF handleBreakdown
  <2>6. CASE BreakdownSkillReturns(w)
    <3>1. worker[w].body.project \in Project
      BY <2>1, <2>6, BreakdownShape DEF BreakdownSkillReturns, At
    <3>2. PICK alerts \in SUBSET Alert :
            SP!Decide(w, {Revisit(worker[w].body.project, a, 0) : a \in alerts})
      BY <2>6 DEF BreakdownSkillReturns
    <3>3. {Revisit(worker[w].body.project, a, 0) : a \in alerts} \subseteq Body
      BY <3>1, CapAssumption DEF Body, Delayed
    <3>4. QED BY <2>2, <3>2, <3>3
  <2>7. CASE handleRevisit(w)
    BY <2>3, <2>7 DEF handleRevisit
  <2>8. CASE RevisitSkillReturns(w)
    <3>1. NextRevisit(worker[w].body) \subseteq Body
      BY <2>1, <2>8, NextRevisitType DEF RevisitSkillReturns, At
    <3>2. QED BY <2>2, <2>8, <3>1 DEF RevisitSkillReturns
  <2>9. ASSUME NEW b \in Body, SP!Publish(w, b) PROVE Loop!Publish(w, b)
    BY <2>9 DEF SP!Publish, Loop!Publish, SP!HandOn, Loop!HandOn, SP!Sent, Loop!Sent,
                SP!Scheduled, Loop!Scheduled, SP!deriveScheduleName, Loop!deriveScheduleName
  <2>10. CASE SP!Finish(w)
    BY <2>10 DEF SP!Finish, Loop!Finish, SP!NoWork, Loop!NoWork
  <2>11. QED BY <1>7, <2>4, <2>5, <2>6, <2>7, <2>8, <2>9, <2>10 DEF Handle
<1>8. QED BY <1>1, <1>2, <1>3, <1>4, <1>5, <1>6, <1>7 DEF Next

(* Types are kept: the loop's by the loop, the agent's own by its actions. *)
LEMMA AgentTypeStep ==
  ASSUME TypeOK, [Next]_vars
  PROVE  /\ optedIn' \subseteq Project
         /\ revisits' \in [Project -> [Alert -> Nat]]
         /\ ticks' \in Nat /\ toggles' \in Nat
<1> USE DEF TypeOK
<1>1. CASE UNCHANGED agentVars
  BY <1>1 DEF agentVars
<1>2. CASE Tick
  BY <1>2 DEF Tick
<1>3. ASSUME NEW p \in Project, Toggle(p) PROVE optedIn' \subseteq Project
  BY <1>3 DEF Toggle
<1>4. ASSUME NEW w \in Worker, handleRevisit(w)
      PROVE  revisits' \in [Project -> [Alert -> Nat]]
  <2>1. worker[w].body \in Body
    BY DEF SP!DeliveryTypeOK, SP!Work
  <2>2. worker[w].body.project \in Project /\ worker[w].body.alert \in Alert
    BY <1>4, <2>1, RevisitShape DEF handleRevisit, At
  <2>3. \A n \in Nat : Counted(n) \in Nat
    BY DEF Counted
  <2>4. QED BY <1>4, <2>2, <2>3 DEF handleRevisit
<1>5. ASSUME NEW w \in Worker, handleRevisit(w)
      PROVE  optedIn' = optedIn /\ ticks' = ticks /\ toggles' = toggles
  BY <1>5 DEF handleRevisit
<1>6. ASSUME NEW w \in Worker, Handle(w), ~handleRevisit(w)
      PROVE  UNCHANGED agentVars
  BY <1>6 DEF Handle, handleInit, handleBreakdown, BreakdownSkillReturns, RevisitSkillReturns
<1>7. ASSUME NEW w \in Worker, NEW b \in Body, Deliver(w, b) \/ Fire(b) \/ Disturb(w)
      PROVE  UNCHANGED agentVars
  BY <1>7 DEF Deliver, Fire, Disturb
<1>8. ASSUME NEW b \in Body, Fire(b) PROVE UNCHANGED agentVars
  BY <1>8 DEF Fire
<1>9. ASSUME NEW w \in Worker, Disturb(w) PROVE UNCHANGED agentVars
  BY <1>9 DEF Disturb
<1>10. ASSUME NEW p \in Project, Toggle(p)
       PROVE  revisits' = revisits /\ ticks' = ticks /\ toggles' \in Nat
  BY <1>10 DEF Toggle
<1>11. CASE UNCHANGED vars
  BY <1>1, <1>11 DEF vars, agentVars
<1>12. QED
  BY <1>1, <1>2, <1>3, <1>4, <1>5, <1>6, <1>7, <1>8, <1>9, <1>10, <1>11 DEF Next

(* The loop's invariant and the agent's types are inductive. *)
BInv == TypeOK /\ Loop!PInv

(* Every tick, delivery, handler step, failure and repetition keeps them.  *)
LEMMA BInvStep == BInv /\ [Next]_vars => BInv'
<1> SUFFICES ASSUME BInv, [Next]_vars PROVE BInv'
  OBVIOUS
<1>1. Loop!PInv /\ Loop!DeliveryTypeOK /\ optedIn \subseteq Project
  BY DEF BInv, Loop!PInv, TypeOK
<1>2. Loop!PInv'
  BY <1>1, StepIsLoopStep, LoopAssumption, Loop!PInvStep
<1>3. SP!DeliveryTypeOK'
  BY <1>2 DEF Loop!PInv, SP!DeliveryTypeOK, Loop!DeliveryTypeOK, SP!Work, Loop!Work
<1>4. QED BY <1>2, <1>3, AgentTypeStep DEF BInv, TypeOK

(* The initial state has an empty queue and no worker at work. *)
LEMMA BInvInit == Init => BInv
<1> SUFFICES ASSUME Init PROVE BInv
  OBVIOUS
<1>1. Loop!NoWork \in Loop!Work /\ Loop!NoWork.targets = {} /\ Loop!NoWork.todo = {}
  BY LoopAssumption, Loop!NoWorkType
<1>2. /\ queue = [b \in Body |-> 0] /\ schedules = {} /\ dead = {}
      /\ worker = [w \in Worker |-> Loop!NoWork]
      /\ settled = {} /\ owed = {} /\ faults = 0
  BY DEF Init, SP!DeliveryInit, SP!NoWork, Loop!NoWork
<1>3. Loop!PInv
  BY <1>1, <1>2 DEF Loop!PInv, Loop!DeliveryTypeOK, Loop!RunsInOrder, Loop!NothingOwedIsLost
<1>4. SP!DeliveryTypeOK
  BY <1>3 DEF Loop!PInv, SP!DeliveryTypeOK, Loop!DeliveryTypeOK, SP!Work, Loop!Work
<1>5. QED BY <1>3, <1>4 DEF BInv, TypeOK, Init

(* bump-it's state keeps its types. *)
THEOREM BumpItTypeOK == Spec => []TypeOK
<1>1. BInv => TypeOK BY DEF BInv
<1>2. QED BY <1>1, BInvInit, BInvStep, PTL DEF Spec

(* What an acknowledged run of bump-it had to hand on, a breakdown of an   *)
(* opted-in project or the revisit of a reported PR, is not lost.          *)
THEOREM FollowUpsAreNotLostHolds == Spec => []FollowUpsAreNotLost
<1>1. BInv => FollowUpsAreNotLost
  BY DEF BInv, FollowUpsAreNotLost, Loop!PInv, SP!NothingOwedIsLost, Loop!NothingOwedIsLost,
         SP!Reached, Loop!Reached, SP!Pending, Loop!Pending, SP!Busy, Loop!Busy
<1>2. QED BY <1>1, BInvInit, BInvStep, PTL DEF Spec

(* bump-it implements the publisher loop: it starts as the loop starts,    *)
(* and each of its steps is one of the loop's or none.                     *)
THEOREM BumpItFollowsSelfPublish == Spec => FollowsSelfPublish
<1>1. Init => SP!DeliveryInit
  BY DEF Init
<1>2. BInv /\ [Next]_vars => [Loop!DeliveryNext]_(Loop!deliveryVars)
  BY StepIsLoopStep DEF BInv, Loop!PInv, TypeOK
<1>3. [Loop!DeliveryNext]_(Loop!deliveryVars) => [SP!DeliveryNext]_(SP!deliveryVars)
  BY DEF Loop!DeliveryNext, SP!DeliveryNext, Loop!deliveryVars, SP!deliveryVars,
         Loop!Run, SP!Run, Loop!Arrive, SP!Arrive, Loop!Fire, SP!Fire,
         Loop!Deliver, SP!Deliver, Loop!Publish, SP!Publish,
         Loop!PublishThrows, SP!PublishThrows, Loop!RunSkill, SP!RunSkill,
         Loop!Finish, SP!Finish, Loop!Reject, SP!Reject, Loop!Fail, SP!Fail, Loop!Redeliver, SP!Redeliver,
         Loop!Decide, SP!Decide, Loop!HandOn, SP!HandOn, Loop!Sent, SP!Sent,
         Loop!Scheduled, SP!Scheduled, Loop!deriveScheduleName, SP!deriveScheduleName,
         Loop!Fault, SP!Fault, Loop!Busy, SP!Busy, Loop!NoWork, SP!NoWork
<1>4. QED
  BY <1>1, <1>2, <1>3, BInvInit, BInvStep, PTL DEF Spec, FollowsSelfPublish, SP!DeliverySpec
---------------------------------------------------------------------------
(* How often a PR is revisited *)

(* A body about the PR of project p and alert a. *)
Revisits(b, p, a) == b.stage = "revisit" /\ b.project = p /\ b.alert = a

(* The revisit runs of that PR a copy of a body can lead to. *)
Worth(p, a) ==
  [b \in Body |->
     IF b.stage = "init" THEN REVISIT_CAP + 1
     ELSE IF b.stage = "breakdown" THEN IF b.project = p THEN REVISIT_CAP + 1 ELSE 0
     ELSE IF Revisits(b, p, a) THEN (REVISIT_CAP + 1) - b.count ELSE 0]

(* Those left when its skill has begun: a revisit has spent one. *)
LeftOf(p, a, b) == IF Revisits(b, p, a) THEN Worth(p, a)[b] - 1 ELSE Worth(p, a)[b]

AfterSkill(p, a, wk) == [w \in Worker |-> LeftOf(p, a, wk[w].body)]

(* A PR's revisits, and those its copies, schedules and runs may still     *)
(* lead to, are within what ticks and failures allow.                      *)
WithinBudget(p, a) ==
  /\ Loop!CreditIsFinite(Worth(p, a), AfterSkill(p, a, worker))
  /\ revisits[p][a] + Loop!Credit(Worth(p, a), AfterSkill(p, a, worker))
       <= (REVISIT_CAP + 1) * (ticks + faults)

(* What each body is worth. *)
LEMMA WorthValues ==
  ASSUME NEW p \in Project, NEW a \in Alert
  PROVE  /\ Worth(p, a) \in [Body -> Nat]
         /\ \A b \in Body : LeftOf(p, a, b) \in Nat /\ Worth(p, a)[b] <= REVISIT_CAP + 1
         /\ InitBody \in Body /\ Worth(p, a)[InitBody] = REVISIT_CAP + 1
         /\ \A b \in Body : b.stage = "init" => Worth(p, a)[b] = REVISIT_CAP + 1
         /\ \A b \in Body : b.stage = "breakdown" /\ b.project = p
                              => Worth(p, a)[b] = REVISIT_CAP + 1
         /\ \A b \in Body : b.stage = "breakdown" /\ b.project # p => Worth(p, a)[b] = 0
         /\ \A b \in Body : Revisits(b, p, a)
              => Worth(p, a)[b] = (REVISIT_CAP + 1) - b.count
         /\ \A b \in Body : b.stage = "revisit" /\ ~Revisits(b, p, a) => Worth(p, a)[b] = 0
<1>1. \A b \in Body : b.stage \in {"init", "breakdown", "revisit"}
  BY DEF Body, Delayed, InitBody, Breakdown, Revisit
<1>2. \A b \in Body : b.stage = "revisit"
        => b.count \in Nat /\ (REVISIT_CAP + 1) - b.count \in Nat /\ b.count <= REVISIT_CAP
  BY RevisitShape, CapAssumption
<1>3. \A b \in Body : Worth(p, a)[b] =
        IF b.stage = "init" THEN REVISIT_CAP + 1
        ELSE IF b.stage = "breakdown" THEN IF b.project = p THEN REVISIT_CAP + 1 ELSE 0
        ELSE IF Revisits(b, p, a) THEN (REVISIT_CAP + 1) - b.count ELSE 0
  BY DEF Worth
<1>4. \A b \in Body : Worth(p, a)[b] \in Nat /\ Worth(p, a)[b] <= REVISIT_CAP + 1
  BY <1>1, <1>2, <1>3, CapAssumption
<1>5. Worth(p, a) \in [Body -> Nat]
  BY <1>4 DEF Worth
<1>6. InitBody \in Body /\ InitBody.stage = "init"
  BY DEF Body, InitBody
<1>7. \A b \in Body : Revisits(b, p, a)
        => Worth(p, a)[b] = (REVISIT_CAP + 1) - b.count /\ Worth(p, a)[b] >= 1
  BY <1>2, <1>3, CapAssumption DEF Revisits
<1>8. \A b \in Body : LeftOf(p, a, b) \in Nat
  BY <1>4, <1>7 DEF LeftOf
<1>9. \A b \in Body : b.stage = "revisit" /\ ~Revisits(b, p, a) => Worth(p, a)[b] = 0
  BY <1>3
<1>10. /\ \A b \in Body : b.stage = "breakdown" /\ b.project = p
                            => Worth(p, a)[b] = REVISIT_CAP + 1
       /\ \A b \in Body : b.stage = "breakdown" /\ b.project # p => Worth(p, a)[b] = 0
  BY <1>3
<1>11. QED BY <1>3, <1>4, <1>5, <1>6, <1>7, <1>8, <1>9, <1>10

(* One more tick or failure allows the revisits of one more fan-out. *)
LEMMA OneMore ==
  ASSUME NEW k \in Nat, NEW m \in Nat, NEW n \in Nat, NEW c \in Nat, NEW d \in Nat,
         n + c <= k * m, d <= c + k
  PROVE  n + d <= k * (m + 1)
<1>1. k * (m + 1) = k * m + k /\ k * m \in Nat
  OBVIOUS
<1>2. QED BY <1>1

(* Each step pays: a revisit run with its claim, a tick or a failure with  *)
(* the budget it adds.                                                     *)
LEMMA BudgetStep ==
  ASSUME NEW p \in Project, NEW a \in Alert,
         BInv, BInv', WithinBudget(p, a), [Next]_vars
  PROVE  WithinBudget(p, a)'
<1> DEFINE wt == Worth(p, a)
           sk == AfterSkill(p, a, worker)
           sj == AfterSkill(p, a, worker')
           f == Loop!Load(wt, sk, queue, schedules, worker)
           g == Loop!Load(wt, sj, queue', schedules', worker')
           K == REVISIT_CAP + 1
<1>1. /\ queue \in [Body -> Nat] /\ queue' \in [Body -> Nat]
      /\ worker \in [Worker -> Loop!Work] /\ worker' \in [Worker -> Loop!Work]
      /\ schedules \subseteq Body
      /\ revisits \in [Project -> [Alert -> Nat]]
      /\ ticks \in Nat /\ faults \in Nat
  BY DEF BInv, TypeOK, Loop!PInv, Loop!DeliveryTypeOK, SP!DeliveryTypeOK, Body
<1>2. \A v \in Worker : /\ worker[v].body \in Body /\ worker'[v].body \in Body
                        /\ worker[v].targets \subseteq Body
                        /\ worker[v].todo \subseteq Body
                        /\ worker'[v].todo \subseteq Body
  BY <1>1 DEF Loop!Work
<1>3. \A v \in Worker : worker[v].pc # "publishing" => worker[v].todo = {}
  BY DEF BInv, Loop!PInv, Loop!RunsInOrder
<1>4. /\ wt \in [Body -> Nat] /\ sk \in [Worker -> Nat] /\ sj \in [Worker -> Nat]
      /\ \A v \in Worker : /\ sk[v] = LeftOf(p, a, worker[v].body)
                           /\ sj[v] = LeftOf(p, a, worker'[v].body)
  BY <1>2, WorthValues DEF AfterSkill
<1>5. /\ Loop!Claims(f, wt, sk, queue, schedules, worker)
      /\ Loop!Claims(g, wt, sj, queue', schedules', worker')
  BY <1>1, <1>4, Loop!LoadValues
<1>6. \A v \in Worker : worker'[v] = worker[v] => sj[v] = sk[v]
  BY <1>4
<1>7. /\ Loop!Finite(f)
      /\ revisits[p][a] + Loop!Total(f) <= K * (ticks + faults)
  BY DEF WithinBudget, Loop!CreditIsFinite, Loop!Credit
<1>8. K \in Nat /\ revisits[p][a] \in Nat
  BY <1>1, CapAssumption
<1>9. revisits'[p][a] \in Nat
  BY DEF BInv, TypeOK
<1> DEFINE Pays == /\ Loop!Finite(g)
                   /\ Loop!Total(g) \in Nat /\ Loop!Total(f) \in Nat
                   /\ revisits'[p][a] + Loop!Total(g) <= revisits[p][a] + Loop!Total(f)
                   /\ ticks' = ticks /\ faults' = faults
           Gains == /\ Loop!Finite(g)
                    /\ Loop!Total(g) \in Nat /\ Loop!Total(f) \in Nat
                    /\ revisits' = revisits /\ Loop!Total(g) <= Loop!Total(f) + K
                    /\ ticks' + faults' = ticks + faults + 1
<1>10. SUFFICES Pays \/ Gains
  <2>1. ASSUME Pays PROVE WithinBudget(p, a)'
    <3>1. revisits'[p][a] + Loop!Total(g) <= K * (ticks' + faults')
      <4>1. K * (ticks + faults) \in Nat
        BY <1>1, <1>8
      <4>2. QED BY <1>7, <1>8, <1>9, <2>1, <4>1
    <3>2. QED BY <2>1, <3>1 DEF WithinBudget, Loop!CreditIsFinite, Loop!Credit
  <2>2. ASSUME Gains PROVE WithinBudget(p, a)'
    <3>1. revisits[p][a] + Loop!Total(g) <= K * (ticks + faults + 1)
      <4>1. ticks + faults \in Nat
        BY <1>1
      <4> HIDE DEF f, g, K
      <4>2. QED BY <1>7, <1>8, <2>2, <4>1, OneMore
    <3>2. QED BY <2>2, <3>1 DEF WithinBudget, Loop!CreditIsFinite, Loop!Credit
  <2>3. QED BY <2>1, <2>2
<1>11. /\ InitBody \in Body /\ wt[InitBody] = K
       /\ \A b \in Body : wt[b] <= K
       /\ \A b \in Body : b.stage = "init" => wt[b] = K
       /\ \A b \in Body : b.stage = "breakdown" /\ b.project = p => wt[b] = K
       /\ \A b \in Body : b.stage = "breakdown" /\ b.project # p => wt[b] = 0
       /\ \A b \in Body : Revisits(b, p, a) => wt[b] = K - b.count
       /\ \A b \in Body : b.stage = "revisit" /\ ~Revisits(b, p, a) => wt[b] = 0
  <2>1. InitBody \in Body /\ wt[InitBody] = K
    BY WorthValues
  <2>2. \A b \in Body : wt[b] <= K
    BY WorthValues
  <2>3. \A b \in Body : b.stage = "init" => wt[b] = K
    BY WorthValues
  <2>4. \A b \in Body : b.stage = "breakdown" /\ b.project = p => wt[b] = K
    BY WorthValues
  <2>5. \A b \in Body : b.stage = "breakdown" /\ b.project # p => wt[b] = 0
    BY WorthValues
  <2>6. \A b \in Body : Revisits(b, p, a) => wt[b] = K - b.count
    <3> SUFFICES ASSUME NEW b \in Body, Revisits(b, p, a) PROVE wt[b] = K - b.count
      OBVIOUS
    <3>1. Worth(p, a)[b] = (REVISIT_CAP + 1) - b.count
      BY WorthValues
    <3>2. QED BY <3>1
  <2>7. \A b \in Body : b.stage = "revisit" /\ ~Revisits(b, p, a) => wt[b] = 0
    BY WorthValues
  <2>8. QED BY <2>1, <2>2, <2>3, <2>4, <2>5, <2>6, <2>7
<1> HIDE DEF wt, sk, sj, f, g, K
<1>12. Loop!Total(f) \in Nat
  BY <1>7, Loop!TotalType
<1>13. queue \in [Body -> Nat] /\ wt \in [Body -> Nat] /\ Loop!Finite(f)
  BY <1>1, <1>4, <1>7
<1>14. wt \in [Body -> Nat] /\ Loop!Finite(f)
  BY <1>13
<1>15. InitBody \in Body
  BY <1>11
<1>16. Loop!Claims(f, wt, sk, queue, schedules, worker)
  BY <1>5
<1>17. worker' = worker => sj = sk
  BY DEF sj, sk
<1>18. ASSUME UNCHANGED <<queue, schedules, worker, revisits, ticks, faults>>
       PROVE  Pays
  <2>1. g = f
    BY <1>17, <1>18 DEF f, g
  <2>2. QED BY <1>7, <1>8, <1>12, <1>18, <2>1
<1>19. CASE Tick
  <2>1. /\ queue'[InitBody] = queue[InitBody] + 1
        /\ \A d \in Body : d # InitBody => queue'[d] = queue[d]
        /\ schedules' = schedules /\ worker' = worker
        /\ revisits' = revisits /\ ticks' = ticks + 1 /\ faults' = faults
    BY <1>1, <1>11, <1>19 DEF Tick, SP!Arrive, SP!Sent
  <2>2. \A v \in Worker : worker'[v] = worker[v] /\ sj[v] = sk[v]
    BY <1>6, <2>1
  <2>3. /\ InitBody \in Body /\ schedules' \subseteq schedules
        /\ Loop!OneMoreOf(queue, queue', InitBody)
        /\ Loop!NoNewClaims(sk, sj, worker, worker')
    BY <1>15, <2>1, <2>2 DEF Loop!OneMoreOf, Loop!NoNewClaims
  <2>4. /\ Loop!Finite(g) /\ Loop!Total(g) \in Nat
        /\ Loop!Total(g) <= Loop!Total(f) + wt[InitBody]
    BY <1>5, <1>13, <2>3, Loop!ArriveCredit
  <2>5. QED BY <1>1, <1>11, <1>12, <2>1, <2>4
<1>20. ASSUME NEW b \in Body, Fire(b) PROVE Pays
  <2>1. /\ queue'[b] = queue[b] + 1 /\ \A d \in Body : d # b => queue'[d] = queue[d]
        /\ b \in schedules /\ schedules' = schedules \ {b} /\ worker' = worker
        /\ revisits' = revisits /\ ticks' = ticks /\ faults' = faults
    BY <1>1, <1>20 DEF Fire, SP!Fire, SP!Sent, agentVars
  <2>2. /\ Loop!Finite(g) /\ Loop!Total(g) \in Nat
        /\ Loop!Total(g) <= Loop!Total(f)
    BY <1>5, <1>13, <1>17, <2>1, Loop!FireCredit
  <2>3. QED BY <1>8, <1>12, <2>1, <2>2
<1>21. ASSUME NEW w \in Worker, NEW b \in Body, Deliver(w, b) PROVE Pays
  <2>1. /\ queue[b] > 0 /\ queue'[b] = queue[b] - 1
        /\ \A d \in Body : d # b => queue'[d] = queue[d]
        /\ schedules' = schedules
        /\ \A v \in Worker : v # w => worker'[v] = worker[v]
        /\ worker'[w].pc = "started" /\ worker'[w].body = b /\ worker'[w].todo = {}
        /\ revisits' = revisits /\ ticks' = ticks /\ faults' = faults
    BY <1>1, <1>21 DEF Deliver, SP!Deliver, agentVars
  <2>2. \A v \in Worker : v # w => worker'[v] = worker[v] /\ sj[v] = sk[v]
    BY <1>6, <2>1
  <2>3. /\ Loop!Finite(g) /\ Loop!Total(g) \in Nat
        /\ Loop!Total(g) <= Loop!Total(f)
    BY <1>5, <1>13, <2>1, <2>2, Loop!DeliverCredit
  <2>4. QED BY <1>8, <1>12, <2>1, <2>3
<1>22. ASSUME NEW w \in Worker, Disturb(w) PROVE Pays \/ Gains
  <2>1. revisits' = revisits /\ ticks' = ticks /\ faults' = faults + 1
    BY <1>22 DEF Disturb, SP!Fail, SP!Redeliver, SP!PublishThrows, SP!Fault, agentVars
  <2>2. ticks' + faults' = ticks + faults + 1
    BY <1>1, <2>1
  <2>3. wt[worker[w].body] <= K /\ wt[worker[w].body] \in Nat
    BY <1>2, <1>4, <1>11
  <2>4. CASE SP!Fail(w)
    <3>1. /\ schedules' = schedules /\ \A v \in Worker : v # w => worker'[v] = worker[v]
          /\ worker'[w].pc = "idle" /\ worker'[w].todo = {}
      BY <1>1, <2>4 DEF SP!Fail, SP!NoWork
    <3>2. \A v \in Worker : v # w => worker'[v] = worker[v] /\ sj[v] = sk[v]
      BY <1>6, <3>1
    <3>3. CASE queue' = SP!Sent(worker[w].body)
      <4>1. /\ queue'[worker[w].body] = queue[worker[w].body] + 1
            /\ \A d \in Body : d # worker[w].body => queue'[d] = queue[d]
        BY <1>1, <1>2, <3>3 DEF SP!Sent
      <4>2. /\ Loop!OneMoreOf(queue, queue', worker[w].body)
            /\ Loop!NoNewClaims(sk, sj, worker, worker')
            /\ schedules' \subseteq schedules /\ worker[w].body \in Body
        BY <1>2, <3>1, <3>2, <4>1 DEF Loop!OneMoreOf, Loop!NoNewClaims
      <4>3. /\ Loop!Finite(g) /\ Loop!Total(g) \in Nat
            /\ Loop!Total(g) <= Loop!Total(f) + wt[worker[w].body]
        BY <1>5, <1>13, <4>2, Loop!ArriveCredit
      <4>4. QED BY <1>8, <1>12, <2>1, <2>2, <2>3, <4>3
    <3>4. CASE queue' = queue
      <4>1. /\ worker'[w].todo \subseteq worker[w].todo
            /\ \A d \in Body : queue'[d] = queue[d]
        BY <3>1, <3>4
      <4>2. /\ Loop!Finite(g) /\ Loop!Total(g) \in Nat
            /\ Loop!RunLoad(wt, sk, worker, w) \in Nat
            /\ Loop!RunLoad(wt, sj, worker', w) \in Nat
            /\ Loop!Total(g) + Loop!RunLoad(wt, sk, worker, w)
                 <= Loop!Total(f) + Loop!RunLoad(wt, sj, worker', w)
        BY <1>5, <1>14, <3>1, <3>2, <4>1, Loop!RunCredit
      <4>3. Loop!RunLoad(wt, sj, worker', w) = 0
        BY <3>1 DEF Loop!RunLoad
      <4>4. QED BY <1>8, <1>12, <2>1, <2>2, <4>2, <4>3
    <3>5. QED BY <2>4, <3>3, <3>4 DEF SP!Fail
  <2>5. CASE SP!Redeliver(w)
    <3>1. /\ queue'[worker[w].body] = queue[worker[w].body] + 1
          /\ \A d \in Body : d # worker[w].body => queue'[d] = queue[d]
          /\ schedules' \subseteq schedules /\ worker[w].body \in Body
          /\ \A v \in Worker : worker'[v] = worker[v]
      BY <1>1, <1>2, <2>5 DEF SP!Redeliver, SP!Sent
    <3>2. \A v \in Worker : worker'[v] = worker[v] /\ sj[v] = sk[v]
      BY <1>6, <3>1
    <3>3. /\ Loop!OneMoreOf(queue, queue', worker[w].body)
          /\ Loop!NoNewClaims(sk, sj, worker, worker')
          /\ schedules' \subseteq schedules /\ worker[w].body \in Body
      BY <3>1, <3>2 DEF Loop!OneMoreOf, Loop!NoNewClaims
    <3>4. /\ Loop!Finite(g) /\ Loop!Total(g) \in Nat
          /\ Loop!Total(g) <= Loop!Total(f) + wt[worker[w].body]
      BY <1>5, <1>13, <3>3, Loop!ArriveCredit
    <3>5. QED BY <1>8, <1>12, <2>1, <2>2, <2>3, <3>4
  <2>6. ASSUME NEW b \in Body, SP!PublishThrows(w, b) PROVE Pays \/ Gains
    <3> DEFINE q1 == IF b \in Delayed THEN queue ELSE [queue EXCEPT ![b] = @ + 1]
               s1 == schedules'
               w1 == [worker EXCEPT ![w].todo = @ \ {b}]
               h == Loop!Load(wt, sk, q1, s1, w1)
    <3>1. /\ q1 \in [Body -> Nat] /\ w1 \in [Worker -> Loop!Work] /\ b \in worker[w].todo
          /\ \A v \in Worker : v # w => w1[v] = worker[v]
          /\ w1[w].pc = worker[w].pc /\ w1[w].body = worker[w].body
          /\ w1[w].todo = worker[w].todo \ {b}
      <4>1. b \in worker[w].todo
        BY <2>6 DEF SP!PublishThrows
      <4>2. q1 \in [Body -> Nat]
        BY <1>1
      <4>3. [worker[w] EXCEPT !.todo = @ \ {b}] \in Loop!Work
        BY <1>1 DEF Loop!Work
      <4>4. /\ w1 \in [Worker -> Loop!Work]
            /\ \A v \in Worker : v # w => w1[v] = worker[v]
            /\ w1[w] = [worker[w] EXCEPT !.todo = @ \ {b}]
        BY <1>1, <4>3
      <4>5. /\ w1[w].pc = worker[w].pc /\ w1[w].body = worker[w].body
            /\ w1[w].todo = worker[w].todo \ {b}
        BY <1>1, <4>4 DEF Loop!Work
      <4>6. QED BY <4>1, <4>2, <4>4, <4>5
    <3>2. \/ s1 \subseteq schedules \cup {b} /\ \A d \in Body : q1[d] = queue[d]
          \/ q1[b] = queue[b] + 1 /\ s1 = schedules /\ \A d \in Body : d # b => q1[d] = queue[d]
      BY <1>1, <2>6 DEF SP!PublishThrows, SP!Scheduled
    <3>3. /\ queue'[worker[w].body] = q1[worker[w].body] + 1
          /\ \A d \in Body : d # worker[w].body => queue'[d] = q1[d]
      BY <1>1, <1>2, <2>6 DEF SP!PublishThrows, SP!Sent
    <3>4. /\ \A v \in Worker : v # w => worker'[v] = worker[v]
          /\ worker'[w].pc = "idle" /\ worker'[w].todo = {}
      BY <1>1, <2>6 DEF SP!PublishThrows, SP!NoWork
    <3>5. Loop!Claims(h, wt, sk, q1, s1, w1)
      BY <1>4, <3>1, Loop!LoadValues
    <3> HIDE DEF q1, s1, w1, h
    <3>6. /\ b \in worker[w].todo /\ \A v \in Worker : v # w => w1[v] = worker[v]
          /\ w1[w].pc = worker[w].pc /\ w1[w].body = worker[w].body
          /\ w1[w].todo = worker[w].todo \ {b}
      BY <3>1
    <3>7. Loop!HandedOn(worker, w1, w, b)
      BY <3>6 DEF Loop!HandedOn
    <3>8. /\ Loop!Finite(h) /\ Loop!Total(h) \in Nat
          /\ Loop!Total(h) <= Loop!Total(f)
      <4>1. CASE s1 \subseteq schedules \cup {b} /\ \A d \in Body : q1[d] = queue[d]
        BY <1>16, <1>13, <3>7, <3>5, <4>1, Loop!ScheduleCredit
      <4>2. CASE Loop!OneMoreOf(queue, q1, b) /\ s1 \subseteq schedules
        BY <1>16, <1>13, <3>7, <3>5, <4>2, Loop!SendCredit
      <4>3. QED BY <3>2, <4>1, <4>2 DEF Loop!OneMoreOf
    <3>9. Loop!NoNewClaims(sk, sj, w1, worker')
      BY <1>6, <3>1, <3>4 DEF Loop!NoNewClaims
    <3>10. /\ Loop!Finite(g) /\ Loop!Total(g) \in Nat
           /\ Loop!Total(g) <= Loop!Total(h) + wt[worker[w].body]
      <4>1. schedules' \subseteq s1 /\ worker[w].body \in Body
        BY <1>2 DEF s1
      <4>2. q1 \in [Body -> Nat] /\ Loop!OneMoreOf(q1, queue', worker[w].body)
        BY <3>1, <3>3 DEF Loop!OneMoreOf
      <4>3. QED BY <1>5, <1>13, <3>5, <3>8, <3>9, <4>1, <4>2, Loop!ArriveCredit
    <3>11. QED BY <1>8, <1>12, <2>1, <2>2, <2>3, <3>8, <3>10
  <2>7. QED BY <1>22, <2>4, <2>5, <2>6 DEF Disturb
<1>23. ASSUME NEW w \in Worker, Handle(w) PROVE Pays
  <2>1. ASSUME NEW T \in SUBSET Body, SP!Decide(w, T), NEW c \in Body,
               \A b \in T : b # c => wt[b] = 0,
               c \in T => wt[c] <= Loop!RunLoad(wt, sk, worker, w), UNCHANGED agentVars
        PROVE  Pays
    <3>1. /\ \A d \in Body : queue'[d] = queue[d]
          /\ schedules' = schedules /\ faults' = faults
          /\ \A v \in Worker : v # w => worker'[v] = worker[v]
          /\ worker'[w].pc = "publishing" /\ worker'[w].todo = T
      BY <1>1, <2>1 DEF SP!Decide
    <3>2. \A v \in Worker : v # w => worker'[v] = worker[v] /\ sj[v] = sk[v]
      BY <1>6, <3>1
    <3>3. /\ \A b \in worker'[w].todo : b # c => wt[b] = 0
          /\ c \in worker'[w].todo => wt[c] <= Loop!RunLoad(wt, sk, worker, w)
      BY <2>1, <3>1
    <3>4. /\ Loop!Finite(g) /\ Loop!Total(g) \in Nat
          /\ Loop!Total(g) <= Loop!Total(f)
      BY <1>5, <1>14, <3>1, <3>2, <3>3, Loop!DecideCredit
    <3>5. QED BY <1>8, <1>12, <2>1, <3>1, <3>4 DEF agentVars
  <2>2. ASSUME UNCHANGED <<schedules, faults, ticks>>, \A d \in Body : queue'[d] = queue[d],
               worker'[w].todo \subseteq worker[w].todo,
               \A v \in Worker : v # w => worker'[v] = worker[v],
               revisits'[p][a] + Loop!RunLoad(wt, sj, worker', w)
                 <= revisits[p][a] + Loop!RunLoad(wt, sk, worker, w)
        PROVE  Pays
    <3>1. \A v \in Worker : v # w => worker'[v] = worker[v] /\ sj[v] = sk[v]
      BY <1>6, <2>2
    <3>2. /\ Loop!Finite(g) /\ Loop!Total(g) \in Nat
          /\ Loop!RunLoad(wt, sk, worker, w) \in Nat
          /\ Loop!RunLoad(wt, sj, worker', w) \in Nat
          /\ Loop!Total(g) + Loop!RunLoad(wt, sk, worker, w)
               <= Loop!Total(f) + Loop!RunLoad(wt, sj, worker', w)
      BY <1>5, <1>14, <2>2, <3>1, Loop!RunCredit
    <3>3. QED BY <1>8, <1>9, <1>12, <2>2, <3>2
  <2>3. CASE handleInit(w)
    <3> DEFINE T == {Breakdown(r) : r \in optedIn}
    <3>1. optedIn \subseteq Project
      BY DEF BInv, TypeOK
    <3>2. T \in SUBSET Body /\ Breakdown(p) \in Body
      BY <3>1 DEF Body
    <3>3. \A b \in T : b # Breakdown(p) => wt[b] = 0
      BY <1>11, <3>2 DEF Breakdown
    <3>4. Loop!RunLoad(wt, sk, worker, w) = K
      BY <1>2, <1>11, <2>3 DEF handleInit, At, Loop!RunLoad
    <3>5. wt[Breakdown(p)] <= K
      BY <1>11, <3>2
    <3>6. QED BY <2>1, <2>3, <3>2, <3>3, <3>4, <3>5 DEF handleInit
  <2>4. ASSUME SP!Decide(w, {}), UNCHANGED agentVars PROVE Pays
    BY <1>11, <2>1, <2>4
  <2>5. CASE handleBreakdown(w)
    <3>1. ASSUME SP!RunSkill(w) PROVE Pays
      <4>1. /\ UNCHANGED <<schedules, faults, ticks, revisits>> /\ \A d \in Body : queue'[d] = queue[d]
            /\ worker'[w].todo \subseteq worker[w].todo
            /\ \A v \in Worker : v # w => worker'[v] = worker[v]
            /\ worker[w].pc = "started" /\ worker'[w].pc = "skill"
            /\ worker'[w].body = worker[w].body /\ worker[w].body.stage = "breakdown"
        BY <1>1, <2>5, <3>1 DEF handleBreakdown, At, SP!RunSkill, agentVars, Loop!Work
      <4>2. sj[w] = wt[worker[w].body]
        BY <1>4, <4>1 DEF LeftOf, Revisits, wt
      <4>3. Loop!RunLoad(wt, sj, worker', w) = Loop!RunLoad(wt, sk, worker, w)
        BY <4>1, <4>2 DEF Loop!RunLoad
      <4>4. Loop!RunLoad(wt, sk, worker, w) \in Nat
        BY <1>5 DEF Loop!Claims
      <4>5. QED BY <1>8, <2>2, <4>1, <4>3, <4>4
    <3>2. QED BY <2>4, <2>5, <3>1 DEF handleBreakdown
  <2>6. CASE BreakdownSkillReturns(w)
    <3>1. worker[w].body.project \in Project /\ worker[w].body.stage = "breakdown"
          /\ worker[w].pc = "skill"
      BY <1>2, <2>6, BreakdownShape DEF BreakdownSkillReturns, At
    <3>2. PICK alerts \in SUBSET Alert :
            SP!Decide(w, {Revisit(worker[w].body.project, x, 0) : x \in alerts})
      BY <2>6 DEF BreakdownSkillReturns
    <3> DEFINE T == {Revisit(worker[w].body.project, x, 0) : x \in alerts}
    <3>3. T \in SUBSET Body /\ Revisit(p, a, 0) \in Body
      BY <3>1, CapAssumption DEF Body, Delayed
    <3>4. \A b \in T : b # Revisit(p, a, 0) => wt[b] = 0
      BY <1>11, <3>3 DEF Revisit, Revisits
    <3>5. Revisit(p, a, 0) \in T => worker[w].body.project = p
      BY DEF Revisit
    <3>6. Loop!RunLoad(wt, sk, worker, w) = wt[worker[w].body]
      BY <1>4, <3>1 DEF Loop!RunLoad, LeftOf, Revisits, wt
    <3>7. Revisit(p, a, 0) \in T => wt[Revisit(p, a, 0)] <= Loop!RunLoad(wt, sk, worker, w)
      BY <1>2, <1>11, <3>1, <3>3, <3>5, <3>6
    <3>8. UNCHANGED agentVars
      BY <2>6 DEF BreakdownSkillReturns
    <3>9. QED BY <2>1, <3>2, <3>3, <3>4, <3>7, <3>8
  <2>7. CASE handleRevisit(w)
    <3> DEFINE b == worker[w].body
    <3>1. b \in Body /\ b.stage = "revisit" /\ b.project \in Project /\ b.alert \in Alert
      BY <1>2, <2>7, RevisitShape DEF handleRevisit, At
    <3>2. /\ UNCHANGED <<schedules, faults, ticks>> /\ \A d \in Body : queue'[d] = queue[d]
          /\ worker'[w].todo \subseteq worker[w].todo
          /\ \A v \in Worker : v # w => worker'[v] = worker[v]
          /\ worker[w].pc = "started" /\ worker'[w].pc = "skill"
          /\ worker'[w].body = worker[w].body
      BY <1>1, <2>7 DEF handleRevisit, SP!RunSkill, Loop!Work
    <3>3. revisits' = [revisits EXCEPT ![b.project][b.alert] = Counted(@)]
      BY <2>7 DEF handleRevisit
    <3>4. /\ Loop!RunLoad(wt, sk, worker, w) = wt[b]
          /\ Loop!RunLoad(wt, sj, worker', w) = LeftOf(p, a, b)
      BY <1>4, <3>2 DEF Loop!RunLoad
    <3> HIDE DEF b
    <3>5. CASE Revisits(b, p, a)
      <4>1. revisits'[p][a] = Counted(revisits[p][a])
        BY <1>1, <3>1, <3>3, <3>5 DEF Revisits
      <4>2. revisits'[p][a] <= revisits[p][a] + 1
        BY <1>8, <4>1 DEF Counted
      <4>3. LeftOf(p, a, b) = wt[b] - 1 /\ wt[b] \in Nat
        BY <1>4, <3>1, <3>5 DEF LeftOf, wt
      <4>4. revisits'[p][a] + LeftOf(p, a, b) <= revisits[p][a] + wt[b]
        BY <1>8, <1>9, <4>2, <4>3
      <4>5. QED BY <2>2, <3>2, <3>4, <4>4
    <3>6. CASE ~Revisits(b, p, a)
      <4>1. revisits'[p][a] = revisits[p][a]
        BY <1>1, <3>1, <3>3, <3>6 DEF Revisits
      <4>2. LeftOf(p, a, b) = wt[b] /\ wt[b] \in Nat
        BY <1>4, <3>1, <3>6 DEF LeftOf, wt
      <4>3. revisits'[p][a] + LeftOf(p, a, b) <= revisits[p][a] + wt[b]
        BY <1>8, <4>1, <4>2
      <4>4. QED BY <2>2, <3>2, <3>4, <4>3
    <3>7. QED BY <3>5, <3>6
  <2>8. CASE RevisitSkillReturns(w)
    <3> DEFINE b == worker[w].body
               c == Revisit(b.project, b.alert, b.count + 1)
    <3>1. b \in Body /\ b.stage = "revisit" /\ b.project \in Project /\ b.alert \in Alert
          /\ b.count \in Nat /\ worker[w].pc = "skill"
      BY <1>2, <2>8, RevisitShape DEF RevisitSkillReturns, At
    <3>2. NextRevisit(b) \subseteq Body
      BY <3>1, NextRevisitType
    <3>3. NextRevisit(b) = {} \/ NextRevisit(b) = {c}
      BY DEF NextRevisit
    <3>4. Loop!RunLoad(wt, sk, worker, w) = LeftOf(p, a, b)
      BY <1>4, <3>1 DEF Loop!RunLoad
    <3>5. UNCHANGED agentVars
      BY <2>8 DEF RevisitSkillReturns
    <3>6. ASSUME SP!Decide(w, NextRevisit(b)), NextRevisit(b) = {c} PROVE Pays
      <4>1. c \in Body /\ c.stage = "revisit" /\ c.count = b.count + 1
            /\ (Revisits(c, p, a) <=> Revisits(b, p, a))
        BY <3>1, <3>2, <3>6 DEF Revisit, Revisits
      <4>2. wt[c] <= LeftOf(p, a, b)
        <5>1. CASE Revisits(b, p, a)
          <6>1. wt[c] = K - c.count /\ wt[b] = K - b.count
            BY <1>11, <3>1, <4>1, <5>1
          <6>2. LeftOf(p, a, b) = wt[b] - 1
            BY <5>1 DEF LeftOf, wt
          <6>3. QED BY <1>8, <3>1, <4>1, <6>1, <6>2
        <5>2. CASE ~Revisits(b, p, a)
          <6>1. wt[c] = 0 /\ wt[b] = 0
            BY <1>11, <3>1, <4>1, <5>2
          <6>2. LeftOf(p, a, b) = wt[b]
            BY <5>2 DEF LeftOf, wt
          <6>3. QED BY <6>1, <6>2
        <5>3. QED BY <5>1, <5>2
      <4> HIDE DEF b, c
      <4>3. QED BY <2>1, <3>2, <3>4, <3>5, <3>6, <4>1, <4>2
    <3>7. QED BY <2>4, <2>8, <3>3, <3>5, <3>6 DEF RevisitSkillReturns
  <2>9. ASSUME NEW b \in Body, SP!Publish(w, b), UNCHANGED agentVars PROVE Pays
    <3>1. /\ b \in worker[w].todo /\ faults' = faults
          /\ \A v \in Worker : v # w => worker'[v] = worker[v]
          /\ worker'[w].pc = worker[w].pc /\ worker'[w].body = worker[w].body
          /\ worker'[w].todo = worker[w].todo \ {b}
      BY <1>1, <2>9 DEF SP!Publish, Loop!Work
    <3>2. \/ schedules' \subseteq schedules \cup {b} /\ \A d \in Body : queue'[d] = queue[d]
          \/ /\ queue'[b] = queue[b] + 1 /\ schedules' = schedules
             /\ \A d \in Body : d # b => queue'[d] = queue[d]
      BY <1>1, <2>9 DEF SP!Publish, SP!HandOn, SP!Sent, SP!Scheduled
    <3>3. \A v \in Worker : worker'[v].body = worker[v].body
      BY <3>1
    <3>4. Loop!Claims(g, wt, sk, queue', schedules', worker')
      <4>1. sj = sk
        BY <3>3 DEF sj, sk, AfterSkill
      <4>2. QED BY <1>5, <4>1
    <3>5. Loop!HandedOn(worker, worker', w, b)
      BY <3>1 DEF Loop!HandedOn
    <3>6. /\ Loop!Finite(g) /\ Loop!Total(g) \in Nat
          /\ Loop!Total(g) <= Loop!Total(f)
      <4>1. CASE schedules' \subseteq schedules \cup {b} /\ \A d \in Body : queue'[d] = queue[d]
        BY <1>16, <1>13, <3>5, <3>4, <4>1, Loop!ScheduleCredit
      <4>2. CASE Loop!OneMoreOf(queue, queue', b) /\ schedules' \subseteq schedules
        BY <1>16, <1>13, <3>5, <3>4, <4>2, Loop!SendCredit
      <4>3. QED BY <3>2, <4>1, <4>2 DEF Loop!OneMoreOf
    <3>7. QED BY <1>8, <1>12, <2>9, <3>1, <3>6 DEF agentVars
  <2>10. ASSUME SP!Finish(w), UNCHANGED agentVars PROVE Pays
    <3>1. /\ UNCHANGED <<schedules, faults, ticks, revisits>> /\ \A d \in Body : queue'[d] = queue[d]
          /\ \A v \in Worker : v # w => worker'[v] = worker[v]
          /\ worker'[w].pc = "idle" /\ worker'[w].todo = {}
      BY <1>1, <2>10 DEF SP!Finish, SP!NoWork, agentVars
    <3>2. Loop!RunLoad(wt, sj, worker', w) = 0 /\ Loop!RunLoad(wt, sk, worker, w) \in Nat
      BY <1>5, <3>1 DEF Loop!RunLoad, Loop!Claims
    <3>3. QED BY <1>8, <2>2, <3>1, <3>2
  <2>11. QED BY <1>23, <2>3, <2>5, <2>6, <2>7, <2>8, <2>9, <2>10 DEF Handle
<1>24. ASSUME NEW r \in Project, Toggle(r) PROVE Pays
  BY <1>18, <1>24 DEF Toggle
<1>25. QED
  BY <1>18, <1>19, <1>20, <1>21, <1>22, <1>23, <1>24 DEF Next, vars

(* No PR is revisited more often than REVISIT_CAP + 1 times for each tick  *)
(* and each failed or repeated delivery.                                   *)
THEOREM RevisitBudgetHolds == Spec => []RevisitBudget
<1> DEFINE IInv == BInv /\ \A p \in Project, a \in Alert : WithinBudget(p, a)
<1>1. Init => IInv
  <2> SUFFICES ASSUME Init PROVE IInv
    OBVIOUS
  <2>1. BInv
    BY BInvInit
  <2> SUFFICES ASSUME NEW p \in Project, NEW a \in Alert PROVE WithinBudget(p, a)
    BY <2>1
  <2> DEFINE f == Loop!Load(Worth(p, a), AfterSkill(p, a, worker), queue, schedules, worker)
  <2>2. /\ queue \in [Body -> Nat] /\ worker \in [Worker -> Loop!Work]
        /\ \A b \in Body : queue[b] = 0 /\ b \notin schedules
        /\ \A w \in Worker : worker[w].pc = "idle" /\ worker[w].todo = {}
    BY <2>1 DEF BInv, TypeOK, Loop!PInv, Loop!DeliveryTypeOK, Init, SP!DeliveryInit, SP!NoWork
  <2>3. Worth(p, a) \in [Body -> Nat] /\ AfterSkill(p, a, worker) \in [Worker -> Nat]
    <3>1. \A w \in Worker : worker[w].body \in Body
      BY <2>2 DEF Loop!Work
    <3>2. QED BY <3>1, WorthValues DEF AfterSkill
  <2>4. Loop!Claims(f, Worth(p, a), AfterSkill(p, a, worker), queue, schedules, worker)
    BY <2>2, <2>3, Loop!LoadValues
  <2> HIDE DEF f
  <2>5. Loop!Finite(f) /\ Loop!Total(f) = 0
    BY <2>2, <2>4, Loop!NoClaims
  <2>6. revisits[p][a] = 0 /\ ticks = 0 /\ faults = 0
    BY DEF Init, SP!DeliveryInit
  <2>7. REVISIT_CAP + 1 \in Nat
    BY CapAssumption
  <2>8. QED
    BY <2>5, <2>6, <2>7 DEF WithinBudget, Loop!CreditIsFinite, Loop!Credit, f
<1>2. IInv /\ [Next]_vars => IInv'
  BY BInvStep, BudgetStep
<1>3. IInv => RevisitBudget
  <2> SUFFICES ASSUME BInv, NEW p \in Project, NEW a \in Alert, WithinBudget(p, a)
               PROVE  revisits[p][a] <= (REVISIT_CAP + 1) * (ticks + faults)
    BY DEF RevisitBudget
  <2>1. revisits[p][a] \in Nat /\ ticks \in Nat /\ faults \in Nat
    BY DEF BInv, TypeOK, SP!DeliveryTypeOK
  <2>2. (REVISIT_CAP + 1) * (ticks + faults) \in Nat
    BY <2>1, CapAssumption
  <2>3. Loop!Credit(Worth(p, a), AfterSkill(p, a, worker)) \in Nat
    BY Loop!TotalType DEF WithinBudget, Loop!CreditIsFinite, Loop!Credit
  <2>4. QED BY <2>1, <2>2, <2>3 DEF WithinBudget
<1>4. QED BY <1>1, <1>2, <1>3, PTL DEF Spec
=================================================================================
