------------------------------ MODULE AgentsProofs ------------------------------
(***************************************************************************)
(* Theorems about the fleet, for any requests, tickets, projects, releases *)
(* and bounds: what ReplyAgentsProofs shows of the agents that answer      *)
(* holds beside the others, and ship-it and document-it are publisher      *)
(* loops, of which SelfPublishProofs shows that they lose nothing; and     *)
(* ship-it's revisits of a ticket's PR keep within their budget.           *)
(***************************************************************************)
EXTENDS Agents, ReplyAgentsProofs

ShipLoop == INSTANCE SelfPublishProofs WITH
  Body <- Ship!Body, Delayed <- Ship!Delayed, MaxFaults <- MaxMishaps,
  queue <- shipQueue, schedules <- shipSchedules, dead <- shipDead, worker <- shipWorker,
  settled <- shipSettled, owed <- shipOwed, faults <- shipFaults

DocLoop == INSTANCE SelfPublishProofs WITH
  Body <- Doc!Body, Delayed <- Doc!Delayed, MaxFaults <- MaxMishaps,
  queue <- docQueue, schedules <- docSchedules, dead <- docDead, worker <- docWorker,
  settled <- docSettled, owed <- docOwed, faults <- docFaults

(* Both agents keep the assumption of the loop. *)
LEMMA LoopAssumptions ==
  ShipLoop!SelfPublishAssumption /\ DocLoop!SelfPublishAssumption
<1>1. ShipLoop!SelfPublishAssumption
  BY PublishersAssumption DEF ShipLoop!SelfPublishAssumption, Ship!Body
<1>2. DocLoop!SelfPublishAssumption
  BY PublishersAssumption DEF DocLoop!SelfPublishAssumption, Doc!Body, Doc!Delayed
<1>3. QED BY <1>1, <1>2

(* The messages of ship-it. *)
LEMMA ShipBodies ==
  /\ \A b \in Ship!Body : b.stage = "init" => b.request \in TicketRequest
  /\ \A b \in Ship!Body : b.stage = "revisit" =>
       b.ticket \in Ship!Ticket /\ b.count \in 0..MAX_REVISIT_COUNT
  /\ \A r \in TicketRequest : Ship!InitBody(r) \in Ship!Body
  /\ \A t \in Ship!Ticket : Ship!FirstRevisit(t) \in Ship!Body
BY PublishersAssumption
   DEF Ship!Body, Ship!Delayed, Ship!InitBody, Ship!Revisit, Ship!FirstRevisit

(* A count below the cap stays within it. *)
LEMMA ShipNextRevisit ==
  ASSUME NEW b \in Ship!Body, b.stage = "revisit"
  PROVE  Ship!NextRevisit(b) \subseteq Ship!Body
<1>1. b.ticket \in Ship!Ticket /\ b.count \in 0..MAX_REVISIT_COUNT BY ShipBodies
<1>2. ~(b.count >= MAX_REVISIT_COUNT) => b.count + 1 \in 0..MAX_REVISIT_COUNT
  BY <1>1, PublishersAssumption
<1>3. QED BY <1>1, <1>2 DEF Ship!NextRevisit, Ship!Body, Ship!Delayed

(* ship-it's handlers only decide what is handed on. *)
LEMMA ShipHandles ==
  ASSUME ShipLoop!DeliveryTypeOK, NEW w \in Worker, Ship!Handle(w)
  PROVE  ShipLoop!Run(w)
<1>0. shipWorker[w].body \in Ship!Body BY DEF ShipLoop!DeliveryTypeOK, ShipLoop!Work
<1>1. ASSUME NEW T \in SUBSET Ship!Body, Ship!SP!Decide(w, T) PROVE ShipLoop!Run(w)
  BY <1>1 DEF Ship!SP!Decide, ShipLoop!Decide, ShipLoop!Run
<1>2. Ship!SP!RunSkill(w) => ShipLoop!Run(w)
  BY DEF Ship!SP!RunSkill, ShipLoop!RunSkill, ShipLoop!Run
<1>3. CASE Ship!RejectInit(w)
  BY <1>3 DEF Ship!RejectInit, Ship!SP!Reject, ShipLoop!Reject, Ship!SP!NoWork, ShipLoop!NoWork,
              ShipLoop!Run
<1>4. CASE Ship!SkipInit(w) \/ Ship!AdvisoryReturns(w)
  BY <1>1, <1>4 DEF Ship!SkipInit, Ship!AdvisoryReturns
<1>5. CASE Ship!handleInit(w) \/ Ship!handleRevisit(w)
  BY <1>2, <1>5 DEF Ship!handleInit, Ship!handleRevisit
<1>6. CASE Ship!CodeItReturns(w)
  <2>1. Ship!request(w) \in TicketRequest
    BY <1>0, <1>6, ShipBodies DEF Ship!CodeItReturns, Ship!At, Ship!request
  <2>2. Ship!FirstRevisit(Ship!request(w).ticket) \in Ship!Body
    BY <2>1, ShipBodies DEF Ship!Ticket
  <2>3. PICK T \in {{Ship!FirstRevisit(Ship!request(w).ticket)}, {}} : Ship!SP!Decide(w, T)
    BY <1>6 DEF Ship!CodeItReturns
  <2>4. QED BY <1>1, <2>2, <2>3
<1>7. CASE Ship!RevisitReturns(w)
  <2>1. Ship!NextRevisit(shipWorker[w].body) \subseteq Ship!Body
    BY <1>0, <1>7, ShipNextRevisit DEF Ship!RevisitReturns, Ship!At
  <2>2. PICK T \in {Ship!NextRevisit(shipWorker[w].body), {}} : Ship!SP!Decide(w, T)
    BY <1>7 DEF Ship!RevisitReturns
  <2>3. QED BY <1>1, <2>1, <2>2
<1>8. ASSUME NEW b \in Ship!Body, Ship!SP!Publish(w, b) PROVE ShipLoop!Run(w)
  BY <1>8 DEF Ship!SP!Publish, ShipLoop!Publish, Ship!SP!HandOn, ShipLoop!HandOn, Ship!SP!Sent,
              ShipLoop!Sent, Ship!SP!Scheduled, ShipLoop!Scheduled, Ship!SP!deriveScheduleName,
              ShipLoop!deriveScheduleName, ShipLoop!Run
<1>9. CASE Ship!SP!Finish(w)
  BY <1>9 DEF Ship!SP!Finish, ShipLoop!Finish, Ship!SP!NoWork, ShipLoop!NoWork, ShipLoop!Run
<1>10. QED BY <1>3, <1>4, <1>5, <1>6, <1>7, <1>8, <1>9 DEF Ship!Handle

(* Every step of ship-it is one of the publisher loop, or none of its.     *)
LEMMA ShipStepIsLoopStep ==
  ASSUME ShipLoop!DeliveryTypeOK, Ship!Next
  PROVE  [ShipLoop!DeliveryNext]_(ShipLoop!deliveryVars)
<1>1. ASSUME NEW r \in TicketRequest, Ship!TicketEvent(r) PROVE ShipLoop!DeliveryNext
  BY <1>1, ShipBodies DEF Ship!TicketEvent, Ship!SP!Arrive, ShipLoop!Arrive, Ship!SP!Sent,
                          ShipLoop!Sent, ShipLoop!DeliveryNext
<1>2. CASE Ship!Toggle
  BY <1>2 DEF Ship!Toggle, ShipLoop!deliveryVars
<1>3. ASSUME NEW b \in Ship!Body, Ship!Fire(b) PROVE ShipLoop!DeliveryNext
  BY <1>3 DEF Ship!Fire, Ship!SP!Fire, ShipLoop!Fire, Ship!SP!Sent, ShipLoop!Sent,
              ShipLoop!DeliveryNext
<1>4. ASSUME NEW w \in Worker, Ship!Handle(w) PROVE ShipLoop!DeliveryNext
  BY <1>4, ShipHandles DEF ShipLoop!DeliveryNext
<1>5. ASSUME NEW w \in Worker, NEW b \in Ship!Body, Ship!Deliver(w, b)
      PROVE  ShipLoop!DeliveryNext
  BY <1>5 DEF Ship!Deliver, Ship!SP!Deliver, ShipLoop!Deliver, Ship!SP!Busy, ShipLoop!Busy,
              ShipLoop!Run, ShipLoop!DeliveryNext
<1>6. ASSUME NEW w \in Worker, Ship!Disturb(w) PROVE ShipLoop!Run(w)
  <2> USE DEF Ship!SP!Fault, ShipLoop!Fault, Ship!SP!Sent, ShipLoop!Sent, Ship!SP!NoWork,
              ShipLoop!NoWork, Ship!SP!Busy, ShipLoop!Busy, ShipLoop!Run
  <2>1. CASE Ship!SP!Fail(w) BY <2>1 DEF Ship!SP!Fail, ShipLoop!Fail
  <2>2. CASE Ship!SP!Redeliver(w) BY <2>2 DEF Ship!SP!Redeliver, ShipLoop!Redeliver
  <2>3. ASSUME NEW b \in Ship!Body, Ship!SP!PublishThrows(w, b) PROVE ShipLoop!Run(w)
    BY <2>3 DEF Ship!SP!PublishThrows, ShipLoop!PublishThrows, Ship!SP!Scheduled,
                ShipLoop!Scheduled, Ship!SP!deriveScheduleName, ShipLoop!deriveScheduleName
  <2>4. QED BY <1>6, <2>1, <2>2, <2>3 DEF Ship!Disturb
<1>7. QED
  BY <1>1, <1>2, <1>3, <1>4, <1>5, <1>6 DEF Ship!Next, ShipLoop!DeliveryNext

(* Every step of document-it is one of the publisher loop, or none of its. *)
LEMMA DocStepIsLoopStep ==
  ASSUME DocLoop!DeliveryTypeOK, enabled \subseteq Project, Doc!Next
  PROVE  [DocLoop!DeliveryNext]_(DocLoop!deliveryVars)
<1>1. CASE Doc!Tick
  BY <1>1 DEF Doc!Tick, Doc!SP!Arrive, DocLoop!Arrive, Doc!SP!Sent, DocLoop!Sent, Doc!Body,
              DocLoop!DeliveryNext
<1>2. ASSUME NEW p \in Project, Doc!Toggle(p) PROVE UNCHANGED DocLoop!deliveryVars
  BY <1>2 DEF Doc!Toggle, DocLoop!deliveryVars
<1>3. ASSUME NEW w \in Worker, Doc!Handle(w) PROVE DocLoop!Run(w)
  <2>1. ASSUME NEW T \in SUBSET Doc!Body, Doc!SP!Decide(w, T) PROVE DocLoop!Run(w)
    BY <2>1 DEF Doc!SP!Decide, DocLoop!Decide, DocLoop!Run
  <2>2. CASE Doc!handleInit(w)
    <3>1. {Doc!Breakdown(p) : p \in enabled} \subseteq Doc!Body BY DEF Doc!Body
    <3>2. QED BY <2>1, <2>2, <3>1 DEF Doc!handleInit
  <2>3. CASE Doc!SkipBreakdown(w) \/ Doc!AuditReturns(w)
    BY <2>1, <2>3 DEF Doc!SkipBreakdown, Doc!AuditReturns
  <2>4. CASE Doc!handleBreakdown(w)
    BY <2>4 DEF Doc!handleBreakdown, Doc!SP!RunSkill, DocLoop!RunSkill, DocLoop!Run
  <2>5. ASSUME NEW b \in Doc!Body, Doc!SP!Publish(w, b) PROVE DocLoop!Run(w)
    BY <2>5 DEF Doc!SP!Publish, DocLoop!Publish, Doc!SP!HandOn, DocLoop!HandOn, Doc!SP!Sent,
                DocLoop!Sent, Doc!SP!Scheduled, DocLoop!Scheduled, Doc!SP!deriveScheduleName,
                DocLoop!deriveScheduleName, DocLoop!Run
  <2>6. CASE Doc!SP!Finish(w)
    BY <2>6 DEF Doc!SP!Finish, DocLoop!Finish, Doc!SP!NoWork, DocLoop!NoWork, DocLoop!Run
  <2>7. QED BY <1>3, <2>2, <2>3, <2>4, <2>5, <2>6 DEF Doc!Handle
<1>4. ASSUME NEW w \in Worker, NEW b \in Doc!Body, Doc!Deliver(w, b) PROVE DocLoop!Run(w)
  BY <1>4 DEF Doc!Deliver, Doc!SP!Deliver, DocLoop!Deliver, Doc!SP!Busy, DocLoop!Busy,
              DocLoop!Run
<1>5. ASSUME NEW w \in Worker, Doc!Disturb(w) PROVE DocLoop!Run(w)
  <2> USE DEF Doc!SP!Fault, DocLoop!Fault, Doc!SP!Sent, DocLoop!Sent, Doc!SP!NoWork,
              DocLoop!NoWork, Doc!SP!Busy, DocLoop!Busy, DocLoop!Run
  <2>1. CASE Doc!SP!Fail(w) BY <2>1 DEF Doc!SP!Fail, DocLoop!Fail
  <2>2. CASE Doc!SP!Redeliver(w) BY <2>2 DEF Doc!SP!Redeliver, DocLoop!Redeliver
  <2>3. ASSUME NEW b \in Doc!Body, Doc!SP!PublishThrows(w, b) PROVE DocLoop!Run(w)
    BY <2>3 DEF Doc!SP!PublishThrows, DocLoop!PublishThrows, Doc!SP!Scheduled,
                DocLoop!Scheduled, Doc!SP!deriveScheduleName, DocLoop!deriveScheduleName
  <2>4. QED BY <1>5, <2>1, <2>2, <2>3 DEF Doc!Disturb
<1>6. QED
  BY <1>1, <1>2, <1>3, <1>4, <1>5 DEF Doc!Next, DocLoop!DeliveryNext

(* The loops' invariants, and document-it's set of projects. *)
LoopsInv == ShipLoop!PInv /\ DocLoop!PInv /\ enabled \subseteq Project

(* Both loops begin at rest. *)
LEMMA LoopsInitially == AgentsInit => LoopsInv
<1> SUFFICES ASSUME AgentsInit PROVE LoopsInv OBVIOUS
<1>1. ShipLoop!PInv
  <2>1. /\ ShipLoop!NoWork \in ShipLoop!Work
        /\ ShipLoop!NoWork.targets = {} /\ ShipLoop!NoWork.todo = {}
    BY LoopAssumptions, ShipLoop!NoWorkType
  <2>2. ShipLoop!DeliveryInit
    BY DEF AgentsInit, Ship!Init, Ship!SP!DeliveryInit, Ship!SP!NoWork, ShipLoop!DeliveryInit,
           ShipLoop!NoWork
  <2>3. QED
    BY <2>1, <2>2 DEF ShipLoop!DeliveryInit, ShipLoop!PInv, ShipLoop!DeliveryTypeOK,
                      ShipLoop!RunsInOrder, ShipLoop!NothingOwedIsLost
<1>2. DocLoop!PInv
  <2>1. /\ DocLoop!NoWork \in DocLoop!Work
        /\ DocLoop!NoWork.targets = {} /\ DocLoop!NoWork.todo = {}
    BY LoopAssumptions, DocLoop!NoWorkType
  <2>2. DocLoop!DeliveryInit
    BY DEF AgentsInit, Doc!Init, Doc!SP!DeliveryInit, Doc!SP!NoWork, DocLoop!DeliveryInit,
           DocLoop!NoWork
  <2>3. QED
    BY <2>1, <2>2 DEF DocLoop!DeliveryInit, DocLoop!PInv, DocLoop!DeliveryTypeOK,
                      DocLoop!RunsInOrder, DocLoop!NothingOwedIsLost
<1>3. QED BY <1>1, <1>2 DEF LoopsInv, AgentsInit, Doc!Init

(* Each agent's steps keep its loop and leave the other's alone. *)
LEMMA LoopsStep == LoopsInv /\ [AgentsNext]_allVars => LoopsInv'
<1> SUFFICES ASSUME LoopsInv, [AgentsNext]_allVars PROVE LoopsInv' OBVIOUS
<1>1. [ShipLoop!DeliveryNext]_(ShipLoop!deliveryVars)
  <2>1. CASE UNCHANGED shipVars BY <2>1 DEF shipVars, ShipLoop!deliveryVars
  <2>2. CASE Ship!Next BY <2>2, ShipStepIsLoopStep DEF LoopsInv, ShipLoop!PInv
  <2>3. QED BY <2>1, <2>2 DEF AgentsNext, ReplyStep, ShipItStep, DocumentItStep, allVars
<1>2. [DocLoop!DeliveryNext]_(DocLoop!deliveryVars)
  <2>1. CASE UNCHANGED docVars BY <2>1 DEF docVars, DocLoop!deliveryVars
  <2>2. CASE Doc!Next BY <2>2, DocStepIsLoopStep DEF LoopsInv, DocLoop!PInv
  <2>3. QED BY <2>1, <2>2 DEF AgentsNext, ReplyStep, ShipItStep, DocumentItStep, allVars
<1>3. ShipLoop!PInv' BY <1>1, LoopAssumptions, ShipLoop!PInvStep DEF LoopsInv
<1>4. DocLoop!PInv' BY <1>2, LoopAssumptions, DocLoop!PInvStep DEF LoopsInv
<1>5. enabled' \subseteq Project
  <2>1. CASE UNCHANGED docVars BY <2>1 DEF docVars, LoopsInv
  <2>2. CASE Doc!Next
    BY <2>2 DEF LoopsInv, Doc!Next, Doc!Tick, Doc!Toggle, Doc!Handle, Doc!handleInit,
                Doc!SkipBreakdown, Doc!handleBreakdown, Doc!AuditReturns, Doc!Deliver,
                Doc!Disturb, Doc!agentVars
  <2>3. QED BY <2>1, <2>2 DEF AgentsNext, ReplyStep, ShipItStep, DocumentItStep, allVars
<1>6. QED BY <1>3, <1>4, <1>5 DEF LoopsInv

(* What an acknowledged run of ship-it or document-it had to hand on, a    *)
(* PR's revisit or a project's breakdown, is not lost, for any tickets,    *)
(* projects, releases, revisit budget and number of mishaps.               *)
THEOREM NothingOwedIsLostHolds == AgentsSpec => []NothingOwedIsLost
<1>1. LoopsInv => NothingOwedIsLost
  <2>1. ShipLoop!NothingOwedIsLost <=> Ship!SP!NothingOwedIsLost
    BY DEF ShipLoop!NothingOwedIsLost, Ship!SP!NothingOwedIsLost, ShipLoop!Reached,
           Ship!SP!Reached, ShipLoop!Pending, Ship!SP!Pending, ShipLoop!Busy, Ship!SP!Busy
  <2>2. DocLoop!NothingOwedIsLost <=> Doc!SP!NothingOwedIsLost
    BY DEF DocLoop!NothingOwedIsLost, Doc!SP!NothingOwedIsLost, DocLoop!Reached,
           Doc!SP!Reached, DocLoop!Pending, Doc!SP!Pending, DocLoop!Busy, Doc!SP!Busy
  <2>3. QED BY <2>1, <2>2 DEF LoopsInv, ShipLoop!PInv, DocLoop!PInv, NothingOwedIsLost
<1>2. QED BY <1>1, LoopsInitially, LoopsStep, PTL DEF AgentsSpec

(* The agents that answer consumers run beside the others as they run      *)
(* alone: what is proved of Spec holds in the fleet.                       *)
THEOREM FleetAnswers ==
  AgentsSpec => [](/\ TypeOK /\ OneVerdict /\ CompletedIsDelivered /\ StagesInOrder
                   /\ FilesLiveAsTheWork)
<1>1. AgentsInit => Init BY DEF AgentsInit
<1>2. [AgentsNext]_allVars => [Next]_vars
  BY DEF AgentsNext, ReplyStep, ShipItStep, DocumentItStep, allVars, vars
<1>3. AgentsSpec => Spec BY <1>1, <1>2, PTL DEF AgentsSpec, Spec
<1>4. QED
  BY <1>3, ReplyTypeOKHolds, OneVerdictHolds, CompletedIsDeliveredHolds, StagesInOrderHolds,
     FilesLiveAsTheWorkHolds, PTL
---------------------------------------------------------------------------
(* How often ship-it revisits a ticket's PR *)

(* A body about the PR of ticket t. *)
Follows(b, t) == b.stage = "revisit" /\ b.ticket = t

(* The revisit runs a copy of a body can lead to on its own: an event none *)
(* before a code-it run of its own.                                        *)
ShipWorth(t) ==
  [b \in Ship!Body |-> IF Follows(b, t) THEN (MAX_REVISIT_COUNT + 1) - b.count ELSE 0]

(* Those left when the skill of step s has begun: a revisit has spent one, *)
(* a code-it run has a chain to open.                                      *)
ShipLeft(t, b, s) ==
  IF Follows(b, t) THEN ShipWorth(t)[b] - 1
  ELSE IF b.stage = "init" /\ s = "code-it" /\ b.request.ticket = t
    THEN MAX_REVISIT_COUNT + 1 ELSE 0

ShipAfterSkill(t, wk, st) == [w \in Worker |-> ShipLeft(t, wk[w].body, st[w])]

(* The histories, as far as they count. *)
ShipHistories ==
  /\ codeRuns \in [Ship!Ticket -> 0 .. MaxRevisits]
  /\ ciRevisits \in [Ship!Ticket -> 0 .. MaxRevisits]
  /\ step \in [Worker -> Ship!STEP_RUNNERS \cup {"none"}]

(* A PR's revisits, and those that may still come, are within what code-it *)
(* runs and mishaps allow, unless the history stopped counting the runs.   *)
ShipWithinBudget(t) ==
  /\ ShipLoop!CreditIsFinite(ShipWorth(t), ShipAfterSkill(t, shipWorker, step))
  /\ \/ codeRuns[t] = MaxRevisits
     \/ ciRevisits[t] + ShipLoop!Credit(ShipWorth(t), ShipAfterSkill(t, shipWorker, step))
          <= (MAX_REVISIT_COUNT + 1) * (codeRuns[t] + shipFaults)

(* What each body is worth. *)
LEMMA ShipWorthValues ==
  ASSUME NEW t \in Ship!Ticket
  PROVE  /\ ShipWorth(t) \in [Ship!Body -> Nat]
         /\ \A b \in Ship!Body : ShipWorth(t)[b] <= MAX_REVISIT_COUNT + 1
         /\ \A b \in Ship!Body : \A s : ShipLeft(t, b, s) \in Nat
         /\ \A b \in Ship!Body : Follows(b, t)
              => ShipWorth(t)[b] = (MAX_REVISIT_COUNT + 1) - b.count
         /\ \A b \in Ship!Body : ~Follows(b, t) => ShipWorth(t)[b] = 0
<1>1. \A b \in Ship!Body : b.stage = "revisit"
        => /\ b.count \in Nat /\ (MAX_REVISIT_COUNT + 1) - b.count \in Nat
           /\ b.count <= MAX_REVISIT_COUNT
  BY ShipBodies, PublishersAssumption
<1>2. \A b \in Ship!Body :
        ShipWorth(t)[b] = IF Follows(b, t) THEN (MAX_REVISIT_COUNT + 1) - b.count ELSE 0
  BY DEF ShipWorth
<1>3. \A b \in Ship!Body :
        ShipWorth(t)[b] \in Nat /\ ShipWorth(t)[b] <= MAX_REVISIT_COUNT + 1
  BY <1>1, <1>2, PublishersAssumption DEF Follows
<1>4. ShipWorth(t) \in [Ship!Body -> Nat]
  BY <1>3 DEF ShipWorth
<1>5. \A b \in Ship!Body : Follows(b, t)
        => ShipWorth(t)[b] = (MAX_REVISIT_COUNT + 1) - b.count /\ ShipWorth(t)[b] >= 1
  BY <1>1, <1>2, PublishersAssumption DEF Follows
<1>6. \A b \in Ship!Body : Follows(b, t)
        => ShipWorth(t)[b] = (MAX_REVISIT_COUNT + 1) - b.count
  BY <1>2
<1>7. \A b \in Ship!Body : \A s : ShipLeft(t, b, s) \in Nat
  BY <1>3, <1>5, PublishersAssumption DEF ShipLeft
<1>8. \A b \in Ship!Body : ~Follows(b, t) => ShipWorth(t)[b] = 0
  BY <1>2
<1>9. QED BY <1>3, <1>4, <1>6, <1>7, <1>8

(* One more run or mishap allows one more chain. *)
LEMMA OneMoreChain ==
  ASSUME NEW k \in Nat, NEW m \in Nat, NEW n \in Nat, NEW c \in Nat, NEW d \in Nat,
         n + c <= k * m, d <= c + k
  PROVE  n + d <= k * (m + 1)
<1>1. k * (m + 1) = k * m + k /\ k * m \in Nat
  OBVIOUS
<1>2. QED BY <1>1

(* The histories keep their types, and what no longer counts stays so.     *)
LEMMA ShipHistoriesStep ==
  ASSUME LoopsInv, ShipHistories, Ship!Next
  PROVE  /\ ShipHistories'
         /\ \A t \in Ship!Ticket : codeRuns[t] = MaxRevisits => codeRuns'[t] = MaxRevisits
<1> USE DEF ShipHistories
<1>1. \A w \in Worker : shipWorker[w].body \in Ship!Body
  BY DEF LoopsInv, ShipLoop!PInv, ShipLoop!DeliveryTypeOK, ShipLoop!Work
<1>2. \A n \in 0 .. MaxRevisits :
        Ship!Counted(n) \in 0 .. MaxRevisits /\ (n = MaxRevisits => Ship!Counted(n) = n)
  BY PublishersAssumption DEF Ship!Counted
<1>3. CASE UNCHANGED <<codeRuns, ciRevisits, step>>
  BY <1>3
<1>4. CASE UNCHANGED <<codeRuns, ciRevisits>> /\ \E w \in Worker : step' = [step EXCEPT ![w] = "none"]
  BY <1>4
<1>5. ASSUME NEW w \in Worker, Ship!handleInit(w)
      PROVE  /\ ShipHistories'
             /\ \A t \in Ship!Ticket : codeRuns[t] = MaxRevisits => codeRuns'[t] = MaxRevisits
  <2>1. Ship!request(w) \in TicketRequest
    BY <1>1, <1>5, ShipBodies DEF Ship!handleInit, Ship!At, Ship!request
  <2>2. Ship!request(w).ticket \in Ship!Ticket
    BY <2>1 DEF Ship!Ticket
  <2>3. Ship!statusSkillMap[Ship!request(w).status] \in Ship!STEP_RUNNERS
    BY <1>5 DEF Ship!handleInit, Ship!Runs, Ship!Routed
  <2>4. step' \in [Worker -> Ship!STEP_RUNNERS \cup {"none"}] /\ ciRevisits' = ciRevisits
    BY <1>5, <2>3 DEF Ship!handleInit
  <2>5. \/ codeRuns' = codeRuns
        \/ codeRuns' = [codeRuns EXCEPT ![Ship!request(w).ticket] = Ship!Counted(@)]
    BY <1>5 DEF Ship!handleInit
  <2>6. QED BY <1>2, <2>2, <2>4, <2>5
<1>6. ASSUME NEW w \in Worker, Ship!handleRevisit(w)
      PROVE  /\ ShipHistories'
             /\ \A t \in Ship!Ticket : codeRuns[t] = MaxRevisits => codeRuns'[t] = MaxRevisits
  <2>1. shipWorker[w].body.ticket \in Ship!Ticket
    BY <1>1, <1>6, ShipBodies DEF Ship!handleRevisit, Ship!At
  <2>2. /\ ciRevisits' = [ciRevisits EXCEPT ![shipWorker[w].body.ticket] = Ship!Counted(@)]
        /\ UNCHANGED <<step, codeRuns>>
    BY <1>6 DEF Ship!handleRevisit
  <2>3. QED BY <1>2, <2>1, <2>2
<1>7. ASSUME NEW w \in Worker, Ship!Handle(w) PROVE
        \/ Ship!handleInit(w) \/ Ship!handleRevisit(w)
        \/ UNCHANGED <<codeRuns, ciRevisits, step>>
        \/ UNCHANGED <<codeRuns, ciRevisits>> /\ step' = [step EXCEPT ![w] = "none"]
  BY <1>7 DEF Ship!Handle, Ship!RejectInit, Ship!SkipInit, Ship!AdvisoryReturns,
              Ship!CodeItReturns, Ship!RevisitReturns, Ship!agentVars
<1>8. ASSUME NEW w \in Worker, Ship!Disturb(w) PROVE
        \/ UNCHANGED <<codeRuns, ciRevisits, step>>
        \/ UNCHANGED <<codeRuns, ciRevisits>> /\ step' = [step EXCEPT ![w] = "none"]
  BY <1>8 DEF Ship!Disturb
<1>9. ASSUME NEW w \in Worker, NEW b \in Ship!Body, Ship!Deliver(w, b)
      PROVE  UNCHANGED <<codeRuns, ciRevisits, step>>
  BY <1>9 DEF Ship!Deliver, Ship!agentVars
<1>10. ASSUME NEW b \in Ship!Body, Ship!Fire(b) PROVE UNCHANGED <<codeRuns, ciRevisits, step>>
  BY <1>10 DEF Ship!Fire, Ship!agentVars
<1>11. ASSUME NEW r \in TicketRequest, Ship!TicketEvent(r)
       PROVE  UNCHANGED <<codeRuns, ciRevisits, step>>
  BY <1>11 DEF Ship!TicketEvent
<1>12. ASSUME Ship!Toggle PROVE UNCHANGED <<codeRuns, ciRevisits, step>>
  BY <1>12 DEF Ship!Toggle
<1> HIDE DEF ShipHistories
<1>13. QED
  BY <1>3, <1>4, <1>5, <1>6, <1>7, <1>8, <1>9, <1>10, <1>11, <1>12 DEF Ship!Next

(* Each step pays: a revisit run with its claim, a code-it run and a       *)
(* mishap with the chain they add to the budget.                           *)
LEMMA ShipBudgetStep ==
  ASSUME NEW t \in Ship!Ticket, LoopsInv, LoopsInv', ShipHistories, ShipWithinBudget(t),
         Ship!Next
  PROVE  ShipWithinBudget(t)'
<1> DEFINE wt == ShipWorth(t)
           sk == ShipAfterSkill(t, shipWorker, step)
           sj == ShipAfterSkill(t, shipWorker', step')
           f == ShipLoop!Load(wt, sk, shipQueue, shipSchedules, shipWorker)
           g == ShipLoop!Load(wt, sj, shipQueue', shipSchedules', shipWorker')
           K == MAX_REVISIT_COUNT + 1
<1>1. /\ shipQueue \in [Ship!Body -> Nat]
      /\ shipWorker \in [Worker -> ShipLoop!Work] /\ shipWorker' \in [Worker -> ShipLoop!Work]
      /\ shipFaults \in Nat /\ step \in [Worker -> Ship!STEP_RUNNERS \cup {"none"}]
      /\ codeRuns \in [Ship!Ticket -> Nat] /\ ciRevisits \in [Ship!Ticket -> Nat]
  BY PublishersAssumption
     DEF LoopsInv, ShipLoop!PInv, ShipLoop!DeliveryTypeOK, ShipHistories
<1>2. \A v \in Worker : shipWorker[v].body \in Ship!Body /\ shipWorker'[v].body \in Ship!Body
  BY <1>1 DEF ShipLoop!Work
<1>3. ShipHistories' /\ (codeRuns[t] = MaxRevisits => codeRuns'[t] = MaxRevisits)
  BY ShipHistoriesStep
<1>4. /\ wt \in [Ship!Body -> Nat] /\ sk \in [Worker -> Nat] /\ sj \in [Worker -> Nat]
      /\ \A v \in Worker : /\ sk[v] = ShipLeft(t, shipWorker[v].body, step[v])
                           /\ sj[v] = ShipLeft(t, shipWorker'[v].body, step'[v])
  BY <1>2, ShipWorthValues DEF ShipAfterSkill
<1>5. /\ ShipLoop!Claims(f, wt, sk, shipQueue, shipSchedules, shipWorker)
      /\ ShipLoop!Claims(g, wt, sj, shipQueue', shipSchedules', shipWorker')
  BY <1>1, <1>4, ShipLoop!LoadValues
<1>6. \A v \in Worker : shipWorker'[v] = shipWorker[v] /\ step'[v] = step[v] => sj[v] = sk[v]
  BY <1>4
<1>7. /\ ShipLoop!Finite(f)
      /\ \/ codeRuns[t] = MaxRevisits
         \/ ciRevisits[t] + ShipLoop!Total(f) <= K * (codeRuns[t] + shipFaults)
  BY DEF ShipWithinBudget, ShipLoop!CreditIsFinite, ShipLoop!Credit
<1>8. /\ K \in Nat /\ codeRuns[t] \in Nat /\ ciRevisits[t] \in Nat
      /\ codeRuns'[t] \in Nat /\ ciRevisits'[t] \in Nat
  BY <1>1, <1>3, PublishersAssumption DEF ShipHistories
<1> DEFINE Pays ==
             /\ ShipLoop!Finite(g) /\ ShipLoop!Total(g) \in Nat
             /\ ciRevisits'[t] + ShipLoop!Total(g) <= ciRevisits[t] + ShipLoop!Total(f)
             /\ codeRuns'[t] = codeRuns[t] /\ shipFaults' = shipFaults
           Gains ==
             /\ ShipLoop!Finite(g) /\ ShipLoop!Total(g) \in Nat
             /\ ciRevisits'[t] = ciRevisits[t] /\ ShipLoop!Total(g) <= ShipLoop!Total(f) + K
             /\ \/ codeRuns'[t] = MaxRevisits
                \/ codeRuns'[t] + shipFaults' = codeRuns[t] + shipFaults + 1
<1>9. ShipLoop!Total(f) \in Nat
  BY <1>7, ShipLoop!TotalType
<1>10. SUFFICES Pays \/ Gains
  <2>1. CASE codeRuns'[t] = MaxRevisits
    BY <2>1 DEF ShipWithinBudget, ShipLoop!CreditIsFinite
  <2>2. ASSUME Pays, codeRuns[t] # MaxRevisits PROVE ShipWithinBudget(t)'
    <3>1. ciRevisits'[t] + ShipLoop!Total(g) <= K * (codeRuns'[t] + shipFaults')
      <4>1. K * (codeRuns[t] + shipFaults) \in Nat
        BY <1>1, <1>8
      <4> HIDE DEF f, g, K
      <4>2. QED BY <1>7, <1>8, <1>9, <2>2, <4>1
    <3>2. QED BY <2>2, <3>1 DEF ShipWithinBudget, ShipLoop!CreditIsFinite, ShipLoop!Credit
  <2>3. ASSUME Gains, codeRuns[t] # MaxRevisits, codeRuns'[t] # MaxRevisits
        PROVE  ShipWithinBudget(t)'
    <3>1. ciRevisits[t] + ShipLoop!Total(g) <= K * (codeRuns[t] + shipFaults + 1)
      <4>1. codeRuns[t] + shipFaults \in Nat
        BY <1>1, <1>8
      <4> HIDE DEF f, g, K
      <4>2. QED BY <1>7, <1>8, <1>9, <2>3, <4>1, OneMoreChain
    <3>2. QED BY <2>3, <3>1 DEF ShipWithinBudget, ShipLoop!CreditIsFinite, ShipLoop!Credit
  <2>4. QED BY <1>3, <2>1, <2>2, <2>3
<1>11. /\ \A b \in Ship!Body : wt[b] <= K
       /\ \A b \in Ship!Body : ~Follows(b, t) => wt[b] = 0
  BY ShipWorthValues
<1>12. \A b \in Ship!Body : Follows(b, t) => wt[b] = K - b.count
  <2> SUFFICES ASSUME NEW b \in Ship!Body, Follows(b, t) PROVE wt[b] = K - b.count
    OBVIOUS
  <2>1. ShipWorth(t)[b] = (MAX_REVISIT_COUNT + 1) - b.count
    BY ShipWorthValues
  <2>2. QED BY <2>1
<1> HIDE DEF wt, sk, sj, f, g, K
<1>13. wt \in [Ship!Body -> Nat] /\ ShipLoop!Finite(f)
  BY <1>4, <1>7
<1>14. shipQueue \in [Ship!Body -> Nat] /\ wt \in [Ship!Body -> Nat] /\ ShipLoop!Finite(f)
  BY <1>1, <1>13
<1>15. ShipLoop!Claims(f, wt, sk, shipQueue, shipSchedules, shipWorker)
  BY <1>5
<1>16. shipWorker' = shipWorker /\ step' = step => sj = sk
  BY DEF sj, sk
<1>17. ASSUME NEW r \in TicketRequest, Ship!TicketEvent(r) PROVE Pays
  <2> DEFINE b == Ship!InitBody(r)
  <2>1. b \in Ship!Body /\ wt[b] = 0
    BY <1>11, ShipBodies DEF Ship!InitBody, Follows
  <2> HIDE DEF b
  <2>2. /\ shipQueue'[b] = shipQueue[b] + 1
        /\ \A d \in Ship!Body : d # b => shipQueue'[d] = shipQueue[d]
        /\ shipSchedules' \subseteq shipSchedules /\ UNCHANGED <<shipWorker, step>>
        /\ UNCHANGED <<codeRuns, ciRevisits, shipFaults>>
    BY <1>1, <1>17, <2>1 DEF Ship!TicketEvent, Ship!SP!Arrive, Ship!SP!Sent, b
  <2>3. \A v \in Worker : shipWorker'[v] = shipWorker[v] /\ sj[v] = sk[v]
    BY <1>6, <2>2
  <2>4. /\ b \in Ship!Body /\ shipSchedules' \subseteq shipSchedules
        /\ ShipLoop!OneMoreOf(shipQueue, shipQueue', b)
        /\ ShipLoop!NoNewClaims(sk, sj, shipWorker, shipWorker')
    BY <2>1, <2>2, <2>3 DEF ShipLoop!OneMoreOf, ShipLoop!NoNewClaims
  <2>5. /\ ShipLoop!Finite(g) /\ ShipLoop!Total(g) \in Nat
        /\ ShipLoop!Total(g) <= ShipLoop!Total(f) + wt[b]
    BY <1>5, <1>14, <2>4, ShipLoop!ArriveCredit
  <2>6. QED BY <1>8, <1>9, <2>1, <2>2, <2>5
<1>18. CASE Ship!Toggle
  <2>1. /\ UNCHANGED <<shipQueue, shipSchedules, shipWorker, step>>
        /\ UNCHANGED <<codeRuns, ciRevisits, shipFaults>>
    BY <1>18 DEF Ship!Toggle
  <2>2. g = f
    BY <1>16, <2>1 DEF f, g
  <2>3. QED BY <1>7, <1>8, <1>9, <2>1, <2>2
<1>19. ASSUME NEW b \in Ship!Body, Ship!Fire(b) PROVE Pays
  <2>1. /\ shipQueue'[b] = shipQueue[b] + 1
        /\ \A d \in Ship!Body : d # b => shipQueue'[d] = shipQueue[d]
        /\ b \in shipSchedules /\ shipSchedules' = shipSchedules \ {b}
        /\ UNCHANGED <<shipWorker, step>> /\ UNCHANGED <<codeRuns, ciRevisits, shipFaults>>
    BY <1>1, <1>19 DEF Ship!Fire, Ship!SP!Fire, Ship!SP!Sent, Ship!agentVars
  <2>2. /\ ShipLoop!Finite(g) /\ ShipLoop!Total(g) \in Nat
        /\ ShipLoop!Total(g) <= ShipLoop!Total(f)
    BY <1>5, <1>14, <1>16, <2>1, ShipLoop!FireCredit
  <2>3. QED BY <1>8, <1>9, <2>1, <2>2
<1>20. ASSUME NEW w \in Worker, NEW b \in Ship!Body, Ship!Deliver(w, b) PROVE Pays
  <2>1. /\ shipQueue[b] > 0 /\ shipQueue'[b] = shipQueue[b] - 1
        /\ \A d \in Ship!Body : d # b => shipQueue'[d] = shipQueue[d]
        /\ shipSchedules' = shipSchedules
        /\ \A v \in Worker : v # w => shipWorker'[v] = shipWorker[v]
        /\ shipWorker'[w].pc = "started" /\ shipWorker'[w].body = b
        /\ shipWorker'[w].todo = {}
    BY <1>1, <1>20 DEF Ship!Deliver, Ship!SP!Deliver
  <2>2. UNCHANGED <<step, codeRuns, ciRevisits, shipFaults>>
    BY <1>20 DEF Ship!Deliver, Ship!SP!Deliver, Ship!agentVars
  <2>3. \A v \in Worker : v # w => shipWorker'[v] = shipWorker[v] /\ sj[v] = sk[v]
    BY <1>6, <2>1, <2>2
  <2>4. /\ ShipLoop!Finite(g) /\ ShipLoop!Total(g) \in Nat
        /\ ShipLoop!Total(g) <= ShipLoop!Total(f)
    BY <1>5, <1>14, <2>1, <2>3, ShipLoop!DeliverCredit
  <2>5. QED BY <1>8, <1>9, <2>2, <2>4
<1>21. ASSUME NEW w \in Worker, Ship!Disturb(w) PROVE Gains
  <2>1. UNCHANGED <<codeRuns, ciRevisits>> /\ shipFaults' = shipFaults + 1
    BY <1>21 DEF Ship!Disturb, Ship!SP!Fail, Ship!SP!Redeliver, Ship!SP!PublishThrows,
                 Ship!SP!Fault
  <2>2. codeRuns'[t] + shipFaults' = codeRuns[t] + shipFaults + 1 /\ ciRevisits'[t] = ciRevisits[t]
    BY <1>1, <1>8, <2>1
  <2>3. wt[shipWorker[w].body] <= K /\ wt[shipWorker[w].body] \in Nat
    BY <1>2, <1>4, <1>11
  <2>4. shipWorker[w].body \in Ship!Body
    BY <1>2
  <2>5. CASE Ship!SP!Fail(w) /\ step' = [step EXCEPT ![w] = "none"]
    <3>1. /\ shipSchedules' \subseteq shipSchedules /\ shipSchedules' = shipSchedules
          /\ \A v \in Worker : v # w => shipWorker'[v] = shipWorker[v]
          /\ shipWorker'[w].pc = "idle" /\ shipWorker'[w].todo = {}
      BY <1>1, <2>5 DEF Ship!SP!Fail, Ship!SP!NoWork
    <3>2. \A v \in Worker : v # w => step'[v] = step[v]
      BY <1>1, <2>5
    <3>3. \A v \in Worker : v # w => shipWorker'[v] = shipWorker[v] /\ sj[v] = sk[v]
      BY <1>6, <3>1, <3>2
    <3>4. CASE shipQueue' = Ship!SP!Sent(shipWorker[w].body)
      <4>1. /\ shipQueue'[shipWorker[w].body] = shipQueue[shipWorker[w].body] + 1
            /\ \A d \in Ship!Body : d # shipWorker[w].body => shipQueue'[d] = shipQueue[d]
        BY <1>1, <2>4, <3>4 DEF Ship!SP!Sent
      <4>2. /\ ShipLoop!OneMoreOf(shipQueue, shipQueue', shipWorker[w].body)
            /\ ShipLoop!NoNewClaims(sk, sj, shipWorker, shipWorker')
            /\ shipWorker[w].body \in Ship!Body /\ shipSchedules' \subseteq shipSchedules
        BY <2>4, <3>1, <3>3, <4>1 DEF ShipLoop!OneMoreOf, ShipLoop!NoNewClaims
      <4>3. /\ ShipLoop!Finite(g) /\ ShipLoop!Total(g) \in Nat
            /\ ShipLoop!Total(g) <= ShipLoop!Total(f) + wt[shipWorker[w].body]
        BY <1>5, <1>14, <4>2, ShipLoop!ArriveCredit
      <4>4. QED BY <1>8, <1>9, <2>2, <2>3, <4>3
    <3>5. CASE shipQueue' = shipQueue
      <4>1. /\ shipWorker'[w].todo \subseteq shipWorker[w].todo
            /\ \A d \in Ship!Body : shipQueue'[d] = shipQueue[d]
        BY <3>1, <3>5
      <4>2. /\ ShipLoop!Finite(g) /\ ShipLoop!Total(g) \in Nat
            /\ ShipLoop!RunLoad(wt, sk, shipWorker, w) \in Nat
            /\ ShipLoop!RunLoad(wt, sj, shipWorker', w) \in Nat
            /\ ShipLoop!Total(g) + ShipLoop!RunLoad(wt, sk, shipWorker, w)
                 <= ShipLoop!Total(f) + ShipLoop!RunLoad(wt, sj, shipWorker', w)
        BY <1>5, <1>13, <3>1, <3>3, <4>1, ShipLoop!RunCredit
      <4>3. ShipLoop!RunLoad(wt, sj, shipWorker', w) = 0
        BY <3>1 DEF ShipLoop!RunLoad
      <4>4. QED BY <1>8, <1>9, <2>2, <4>2, <4>3
    <3>6. QED BY <2>5, <3>4, <3>5 DEF Ship!SP!Fail
  <2>6. CASE Ship!SP!Redeliver(w) /\ UNCHANGED step
    <3>1. /\ shipQueue'[shipWorker[w].body] = shipQueue[shipWorker[w].body] + 1
          /\ \A d \in Ship!Body : d # shipWorker[w].body => shipQueue'[d] = shipQueue[d]
          /\ shipSchedules' \subseteq shipSchedules
          /\ \A v \in Worker : shipWorker'[v] = shipWorker[v]
      BY <1>1, <2>4, <2>6 DEF Ship!SP!Redeliver, Ship!SP!Sent
    <3>2. \A v \in Worker : shipWorker'[v] = shipWorker[v] /\ sj[v] = sk[v]
      BY <1>6, <2>6, <3>1
    <3>3. /\ ShipLoop!OneMoreOf(shipQueue, shipQueue', shipWorker[w].body)
          /\ ShipLoop!NoNewClaims(sk, sj, shipWorker, shipWorker')
          /\ shipWorker[w].body \in Ship!Body /\ shipSchedules' \subseteq shipSchedules
      BY <2>4, <3>1, <3>2 DEF ShipLoop!OneMoreOf, ShipLoop!NoNewClaims
    <3>4. /\ ShipLoop!Finite(g) /\ ShipLoop!Total(g) \in Nat
          /\ ShipLoop!Total(g) <= ShipLoop!Total(f) + wt[shipWorker[w].body]
      BY <1>5, <1>14, <3>3, ShipLoop!ArriveCredit
    <3>5. QED BY <1>8, <1>9, <2>2, <2>3, <3>4
  <2>7. ASSUME NEW b \in Ship!Body, Ship!SP!PublishThrows(w, b), UNCHANGED step PROVE Gains
    <3> DEFINE q1 == IF b \in Ship!Delayed THEN shipQueue ELSE [shipQueue EXCEPT ![b] = @ + 1]
               s1 == shipSchedules'
               w1 == [shipWorker EXCEPT ![w].todo = @ \ {b}]
               h == ShipLoop!Load(wt, sk, q1, s1, w1)
    <3>1. b \in shipWorker[w].todo
      BY <2>7 DEF Ship!SP!PublishThrows
    <3>2. q1 \in [Ship!Body -> Nat]
      BY <1>1
    <3>3. [shipWorker[w] EXCEPT !.todo = @ \ {b}] \in ShipLoop!Work
      BY <1>1 DEF ShipLoop!Work
    <3>4. /\ w1 \in [Worker -> ShipLoop!Work]
          /\ \A v \in Worker : v # w => w1[v] = shipWorker[v]
          /\ w1[w] = [shipWorker[w] EXCEPT !.todo = @ \ {b}]
      BY <1>1, <3>3
    <3>5. /\ w1[w].pc = shipWorker[w].pc /\ w1[w].body = shipWorker[w].body
          /\ w1[w].todo = shipWorker[w].todo \ {b}
      BY <1>1, <3>4 DEF ShipLoop!Work
    <3>6. \/ s1 \subseteq shipSchedules \cup {b} /\ \A d \in Ship!Body : q1[d] = shipQueue[d]
          \/ /\ q1[b] = shipQueue[b] + 1 /\ s1 \subseteq shipSchedules
             /\ \A d \in Ship!Body : d # b => q1[d] = shipQueue[d]
      BY <1>1, <2>7 DEF Ship!SP!PublishThrows, Ship!SP!Scheduled
    <3>7. /\ shipQueue'[shipWorker[w].body] = q1[shipWorker[w].body] + 1
          /\ \A d \in Ship!Body : d # shipWorker[w].body => shipQueue'[d] = q1[d]
      BY <1>1, <2>4, <2>7 DEF Ship!SP!PublishThrows, Ship!SP!Sent
    <3>8. /\ \A v \in Worker : v # w => shipWorker'[v] = shipWorker[v]
          /\ shipWorker'[w].pc = "idle" /\ shipWorker'[w].todo = {}
      BY <1>1, <2>7 DEF Ship!SP!PublishThrows, Ship!SP!NoWork
    <3>9. ShipLoop!Claims(h, wt, sk, q1, s1, w1)
      BY <1>4, <3>2, <3>4, ShipLoop!LoadValues
    <3>10. ShipLoop!HandedOn(shipWorker, w1, w, b)
      BY <3>1, <3>4, <3>5 DEF ShipLoop!HandedOn
    <3>11. shipSchedules' \subseteq s1
      OBVIOUS
    <3> HIDE DEF q1, s1, w1, h
    <3>12. /\ ShipLoop!Finite(h) /\ ShipLoop!Total(h) \in Nat
           /\ ShipLoop!Total(h) <= ShipLoop!Total(f)
      <4>1. CASE s1 \subseteq shipSchedules \cup {b} /\ \A d \in Ship!Body : q1[d] = shipQueue[d]
        BY <1>14, <1>15, <3>9, <3>10, <4>1, ShipLoop!ScheduleCredit
      <4>2. CASE ShipLoop!OneMoreOf(shipQueue, q1, b) /\ s1 \subseteq shipSchedules
        BY <1>14, <1>15, <3>9, <3>10, <4>2, ShipLoop!SendCredit
      <4>3. QED BY <3>6, <4>1, <4>2 DEF ShipLoop!OneMoreOf
    <3>13. /\ ShipLoop!OneMoreOf(q1, shipQueue', shipWorker[w].body)
           /\ ShipLoop!NoNewClaims(sk, sj, w1, shipWorker')
           /\ shipWorker[w].body \in Ship!Body
      <4>1. \A v \in Worker :
              \/ shipWorker'[v] = w1[v] /\ sj[v] = sk[v]
              \/ shipWorker'[v].pc \in {"idle", "publishing"} /\ shipWorker'[v].todo = {}
        BY <1>6, <2>7, <3>4, <3>8
      <4>2. QED BY <2>4, <3>7, <4>1 DEF ShipLoop!OneMoreOf, ShipLoop!NoNewClaims
    <3>14. ShipLoop!Claims(g, wt, sj, shipQueue', shipSchedules', shipWorker')
      BY <1>5
    <3>15. q1 \in [Ship!Body -> Nat] /\ wt \in [Ship!Body -> Nat]
      BY <1>4, <3>2
    <3>16. /\ ShipLoop!Finite(g) /\ ShipLoop!Total(g) \in Nat
           /\ ShipLoop!Total(g) <= ShipLoop!Total(h) + wt[shipWorker[w].body]
      BY <3>9, <3>11, <3>12, <3>13, <3>14, <3>15, ShipLoop!ArriveCredit
    <3>17. QED BY <1>8, <1>9, <2>2, <2>3, <3>12, <3>16
  <2>8. QED BY <1>21, <2>5, <2>6, <2>7 DEF Ship!Disturb
<1>22. ASSUME NEW w \in Worker, Ship!Handle(w) PROVE Pays \/ Gains
  <2>1. ASSUME NEW T \in SUBSET Ship!Body, Ship!SP!Decide(w, T), NEW c \in Ship!Body,
               \A b \in T : b # c => wt[b] = 0,
               c \in T => wt[c] <= ShipLoop!RunLoad(wt, sk, shipWorker, w),
               \A v \in Worker : v # w => step'[v] = step[v],
               UNCHANGED <<codeRuns, ciRevisits>>
        PROVE  Pays
    <3>1. /\ \A d \in Ship!Body : shipQueue'[d] = shipQueue[d]
          /\ shipSchedules' = shipSchedules /\ shipFaults' = shipFaults
          /\ \A v \in Worker : v # w => shipWorker'[v] = shipWorker[v]
          /\ shipWorker'[w].pc = "publishing" /\ shipWorker'[w].todo = T
      BY <1>1, <2>1 DEF Ship!SP!Decide
    <3>2. \A v \in Worker : v # w => shipWorker'[v] = shipWorker[v] /\ sj[v] = sk[v]
      BY <1>6, <2>1, <3>1
    <3>3. /\ \A b \in shipWorker'[w].todo : b # c => wt[b] = 0
          /\ c \in shipWorker'[w].todo => wt[c] <= ShipLoop!RunLoad(wt, sk, shipWorker, w)
      BY <2>1, <3>1
    <3>4. /\ ShipLoop!Finite(g) /\ ShipLoop!Total(g) \in Nat
          /\ ShipLoop!Total(g) <= ShipLoop!Total(f)
      BY <1>5, <1>13, <3>1, <3>2, <3>3, ShipLoop!DecideCredit
    <3>5. QED BY <1>8, <1>9, <2>1, <3>1, <3>4
  <2>2. ASSUME shipSchedules' = shipSchedules,
               \A d \in Ship!Body : shipQueue'[d] = shipQueue[d],
               shipWorker'[w].todo \subseteq shipWorker[w].todo,
               \A v \in Worker : v # w => shipWorker'[v] = shipWorker[v] /\ step'[v] = step[v]
        PROVE  /\ ShipLoop!Finite(g) /\ ShipLoop!Total(g) \in Nat
               /\ ShipLoop!RunLoad(wt, sk, shipWorker, w) \in Nat
               /\ ShipLoop!RunLoad(wt, sj, shipWorker', w) \in Nat
               /\ ShipLoop!Total(g) + ShipLoop!RunLoad(wt, sk, shipWorker, w)
                    <= ShipLoop!Total(f) + ShipLoop!RunLoad(wt, sj, shipWorker', w)
    <3>1. \A v \in Worker : v # w => shipWorker'[v] = shipWorker[v] /\ sj[v] = sk[v]
      BY <1>6, <2>2
    <3>2. QED BY <1>5, <1>13, <2>2, <3>1, ShipLoop!RunCredit
  <2>3. ASSUME Ship!SP!Decide(w, {}), \A v \in Worker : v # w => step'[v] = step[v],
               UNCHANGED <<codeRuns, ciRevisits>>
        PROVE  Pays
    <3>1. Ship!FirstRevisit(t) \in Ship!Body
      BY ShipBodies
    <3>2. QED BY <2>1, <2>3, <3>1
  <2>4. ASSUME shipWorker'[w].pc = "idle" /\ shipWorker'[w].todo = {},
               UNCHANGED <<shipQueue, shipSchedules, step, codeRuns, ciRevisits, shipFaults>>,
               \A v \in Worker : v # w => shipWorker'[v] = shipWorker[v]
        PROVE  Pays
    <3>1. ShipLoop!RunLoad(wt, sj, shipWorker', w) = 0
      BY <2>4 DEF ShipLoop!RunLoad
    <3>2. /\ shipWorker'[w].todo \subseteq shipWorker[w].todo
          /\ \A d \in Ship!Body : shipQueue'[d] = shipQueue[d]
          /\ \A v \in Worker : v # w => shipWorker'[v] = shipWorker[v] /\ step'[v] = step[v]
          /\ shipSchedules' = shipSchedules
      BY <2>4
    <3>3. /\ ShipLoop!Finite(g) /\ ShipLoop!Total(g) \in Nat
          /\ ShipLoop!RunLoad(wt, sk, shipWorker, w) \in Nat
          /\ ShipLoop!Total(g) + ShipLoop!RunLoad(wt, sk, shipWorker, w)
               <= ShipLoop!Total(f) + ShipLoop!RunLoad(wt, sj, shipWorker', w)
      BY <2>2, <3>2
    <3>4. QED BY <1>8, <1>9, <2>4, <3>1, <3>3
  <2>5. CASE Ship!RejectInit(w)
    BY <1>1, <2>4, <2>5 DEF Ship!RejectInit, Ship!SP!Reject, Ship!SP!NoWork, Ship!agentVars
  <2>6. ASSUME Ship!SP!Finish(w), UNCHANGED Ship!agentVars PROVE Pays
    BY <1>1, <2>4, <2>6 DEF Ship!SP!Finish, Ship!SP!NoWork, Ship!agentVars
  <2>7. CASE Ship!SkipInit(w)
    BY <2>3, <2>7 DEF Ship!SkipInit, Ship!agentVars
  <2>8. CASE Ship!AdvisoryReturns(w)
    BY <1>1, <2>3, <2>8 DEF Ship!AdvisoryReturns
  <2>9. CASE Ship!handleInit(w)
    <3>1. /\ shipWorker[w].pc = "started" /\ shipWorker'[w].pc = "skill"
          /\ shipWorker'[w].body = shipWorker[w].body /\ shipWorker[w].body.stage = "init"
          /\ shipWorker'[w].todo \subseteq shipWorker[w].todo
          /\ \A v \in Worker : v # w => shipWorker'[v] = shipWorker[v] /\ step'[v] = step[v]
      BY <1>1, <2>9 DEF Ship!handleInit, Ship!At, Ship!SP!RunSkill, ShipLoop!Work
    <3>2. /\ \A d \in Ship!Body : shipQueue'[d] = shipQueue[d]
          /\ shipSchedules' = shipSchedules /\ shipFaults' = shipFaults
          /\ ciRevisits' = ciRevisits
      BY <2>9 DEF Ship!handleInit, Ship!SP!RunSkill
    <3>3. codeRuns' = IF step'[w] = "code-it"
            THEN [codeRuns EXCEPT ![shipWorker[w].body.request.ticket] = Ship!Counted(@)]
            ELSE codeRuns
      BY <2>9 DEF Ship!handleInit, Ship!request
    <3>4. shipWorker[w].body.request.ticket \in Ship!Ticket
      BY <1>2, <3>1, ShipBodies DEF Ship!Ticket
    <3>5. ShipLoop!RunLoad(wt, sk, shipWorker, w) = 0
      BY <1>2, <1>11, <3>1 DEF ShipLoop!RunLoad, Follows
    <3>6. ShipLoop!RunLoad(wt, sj, shipWorker', w)
            = IF step'[w] = "code-it" /\ shipWorker[w].body.request.ticket = t THEN K ELSE 0
      BY <1>4, <3>1 DEF ShipLoop!RunLoad, ShipLeft, Follows, K
    <3>7. /\ ShipLoop!Finite(g) /\ ShipLoop!Total(g) \in Nat
          /\ ShipLoop!Total(g) + ShipLoop!RunLoad(wt, sk, shipWorker, w)
               <= ShipLoop!Total(f) + ShipLoop!RunLoad(wt, sj, shipWorker', w)
      BY <2>2, <3>1, <3>2
    <3>8. CASE step'[w] = "code-it" /\ shipWorker[w].body.request.ticket = t
      <4>1. codeRuns'[t] = Ship!Counted(codeRuns[t])
        BY <1>1, <3>3, <3>4, <3>8
      <4>2. codeRuns[t] \in 0 .. MaxRevisits
        BY DEF ShipHistories
      <4>3. codeRuns'[t] = MaxRevisits \/ codeRuns'[t] = codeRuns[t] + 1
        BY <4>1, <4>2, PublishersAssumption DEF Ship!Counted
      <4>4. \/ codeRuns'[t] = MaxRevisits
            \/ codeRuns'[t] + shipFaults' = codeRuns[t] + shipFaults + 1
        BY <1>1, <1>8, <3>2, <4>3
      <4>5. ShipLoop!Total(g) <= ShipLoop!Total(f) + K
        BY <1>8, <1>9, <3>5, <3>6, <3>7, <3>8
      <4>6. QED BY <3>2, <3>7, <4>4, <4>5
    <3>9. CASE ~(step'[w] = "code-it" /\ shipWorker[w].body.request.ticket = t)
      <4>1. codeRuns'[t] = codeRuns[t]
        BY <1>1, <3>3, <3>4, <3>9
      <4>2. ShipLoop!Total(g) <= ShipLoop!Total(f)
        BY <1>9, <3>5, <3>6, <3>7, <3>9
      <4>3. QED BY <1>8, <1>9, <3>2, <3>7, <4>1, <4>2
    <3>10. QED BY <3>8, <3>9
  <2>10. CASE Ship!CodeItReturns(w)
    <3> DEFINE u == shipWorker[w].body.request.ticket
               c == Ship!FirstRevisit(u)
    <3>1. shipWorker[w].pc = "skill" /\ shipWorker[w].body.stage = "init" /\ step[w] = "code-it"
      BY <2>10 DEF Ship!CodeItReturns, Ship!At
    <3>2. u \in Ship!Ticket /\ c \in Ship!Body
      BY <1>2, <3>1, ShipBodies DEF Ship!Ticket
    <3>3. ShipLoop!RunLoad(wt, sk, shipWorker, w) = IF u = t THEN K ELSE 0
      BY <1>4, <3>1 DEF ShipLoop!RunLoad, ShipLeft, Follows, K
    <3>4. wt[c] <= ShipLoop!RunLoad(wt, sk, shipWorker, w)
      <4>1. CASE u = t
        BY <1>11, <3>2, <3>3, <4>1
      <4>2. CASE u # t
        <5>1. ~Follows(c, t)
          BY <4>2 DEF Follows, Ship!FirstRevisit, Ship!Revisit
        <5>2. QED BY <1>11, <3>2, <3>3, <4>2, <5>1
      <4>3. QED BY <4>1, <4>2
    <3>5. /\ \A v \in Worker : v # w => step'[v] = step[v]
          /\ UNCHANGED <<codeRuns, ciRevisits>>
      BY <1>1, <2>10 DEF Ship!CodeItReturns
    <3>6. Ship!SP!Decide(w, {c}) \/ Ship!SP!Decide(w, {})
      BY <2>10 DEF Ship!CodeItReturns, Ship!request
    <3> HIDE DEF c, u
    <3>7. ASSUME Ship!SP!Decide(w, {c}) PROVE Pays
      BY <2>1, <3>2, <3>4, <3>5, <3>7
    <3>8. QED BY <2>3, <3>5, <3>6, <3>7
  <2>11. CASE Ship!handleRevisit(w)
    <3> DEFINE b == shipWorker[w].body
    <3>1. b \in Ship!Body /\ b.stage = "revisit" /\ b.ticket \in Ship!Ticket
      BY <1>2, <2>11, ShipBodies DEF Ship!handleRevisit, Ship!At
    <3>2. /\ \A d \in Ship!Body : shipQueue'[d] = shipQueue[d]
          /\ shipSchedules' = shipSchedules /\ UNCHANGED <<shipFaults, codeRuns, step>>
          /\ shipWorker'[w].todo \subseteq shipWorker[w].todo
          /\ \A v \in Worker : v # w => shipWorker'[v] = shipWorker[v] /\ step'[v] = step[v]
          /\ shipWorker[w].pc = "started" /\ shipWorker'[w].pc = "skill"
          /\ shipWorker'[w].body = shipWorker[w].body
      BY <1>1, <2>11 DEF Ship!handleRevisit, Ship!At, Ship!SP!RunSkill, ShipLoop!Work
    <3>3. ciRevisits' = [ciRevisits EXCEPT ![b.ticket] = Ship!Counted(@)]
      BY <2>11 DEF Ship!handleRevisit
    <3>4. /\ ShipLoop!RunLoad(wt, sk, shipWorker, w) = wt[b]
          /\ ShipLoop!RunLoad(wt, sj, shipWorker', w) = ShipLeft(t, b, step'[w])
      BY <1>4, <3>2 DEF ShipLoop!RunLoad
    <3>5. /\ ShipLoop!Finite(g) /\ ShipLoop!Total(g) \in Nat
          /\ ShipLoop!RunLoad(wt, sk, shipWorker, w) \in Nat
          /\ ShipLoop!RunLoad(wt, sj, shipWorker', w) \in Nat
          /\ ShipLoop!Total(g) + ShipLoop!RunLoad(wt, sk, shipWorker, w)
               <= ShipLoop!Total(f) + ShipLoop!RunLoad(wt, sj, shipWorker', w)
      BY <2>2, <3>2
    <3> HIDE DEF b
    <3>6. CASE Follows(b, t)
      <4>1. ciRevisits'[t] = Ship!Counted(ciRevisits[t])
        BY <1>1, <3>1, <3>3, <3>6 DEF Follows
      <4>2. ciRevisits'[t] <= ciRevisits[t] + 1
        BY <1>8, <4>1 DEF Ship!Counted
      <4>3. ShipLeft(t, b, step'[w]) = wt[b] - 1 /\ wt[b] \in Nat
        BY <1>4, <3>1, <3>6 DEF ShipLeft, wt
      <4>4. QED BY <1>8, <1>9, <3>2, <3>4, <3>5, <4>2, <4>3
    <3>7. CASE ~Follows(b, t)
      <4>1. ciRevisits'[t] = ciRevisits[t]
        BY <1>1, <3>1, <3>3, <3>7 DEF Follows
      <4>2. ShipLeft(t, b, step'[w]) = 0 /\ wt[b] = 0
        BY <1>11, <3>1, <3>7 DEF ShipLeft
      <4>3. QED BY <1>8, <1>9, <3>2, <3>4, <3>5, <4>1, <4>2
    <3>8. QED BY <3>6, <3>7
  <2>12. CASE Ship!RevisitReturns(w)
    <3> DEFINE b == shipWorker[w].body
               c == Ship!Revisit(b.ticket, b.count + 1)
    <3>1. b \in Ship!Body /\ b.stage = "revisit" /\ b.ticket \in Ship!Ticket
          /\ b.count \in Nat /\ shipWorker[w].pc = "skill"
      BY <1>2, <2>12, ShipBodies, PublishersAssumption DEF Ship!RevisitReturns, Ship!At
    <3>2. Ship!NextRevisit(b) \subseteq Ship!Body
      BY <3>1, ShipNextRevisit
    <3>3. Ship!NextRevisit(b) = {} \/ Ship!NextRevisit(b) = {c}
      BY DEF Ship!NextRevisit
    <3>4. ShipLoop!RunLoad(wt, sk, shipWorker, w) = ShipLeft(t, b, step[w])
      BY <1>4, <3>1 DEF ShipLoop!RunLoad
    <3>5. UNCHANGED <<step, codeRuns, ciRevisits>>
      BY <2>12 DEF Ship!RevisitReturns, Ship!agentVars
    <3>6. Ship!SP!Decide(w, Ship!NextRevisit(b)) \/ Ship!SP!Decide(w, {})
      BY <2>12 DEF Ship!RevisitReturns
    <3>7. ASSUME Ship!SP!Decide(w, Ship!NextRevisit(b)), Ship!NextRevisit(b) = {c} PROVE Pays
      <4>1. c \in Ship!Body /\ c.count = b.count + 1 /\ (Follows(c, t) <=> Follows(b, t))
        BY <3>1, <3>2, <3>7 DEF Ship!Revisit, Follows
      <4>2. wt[c] <= ShipLeft(t, b, step[w])
        <5>1. CASE Follows(b, t)
          <6>1. wt[c] = K - c.count /\ wt[b] = K - b.count
            BY <1>12, <3>1, <4>1, <5>1
          <6>2. ShipLeft(t, b, step[w]) = wt[b] - 1
            BY <5>1 DEF ShipLeft, wt
          <6>3. QED BY <1>8, <3>1, <4>1, <6>1, <6>2
        <5>2. CASE ~Follows(b, t)
          <6>1. wt[c] = 0
            BY <1>11, <4>1, <5>2
          <6>2. ShipLeft(t, b, step[w]) = 0
            BY <3>1, <5>2 DEF ShipLeft
          <6>3. QED BY <6>1, <6>2
        <5>3. QED BY <5>1, <5>2
      <4> HIDE DEF b, c
      <4>3. QED BY <2>1, <3>4, <3>5, <3>7, <4>1, <4>2
    <3>8. QED BY <2>3, <3>3, <3>5, <3>6, <3>7
  <2>13. ASSUME NEW b \in Ship!Body, Ship!SP!Publish(w, b), UNCHANGED Ship!agentVars
         PROVE  Pays
    <3>1. /\ b \in shipWorker[w].todo /\ shipFaults' = shipFaults
          /\ \A v \in Worker : v # w => shipWorker'[v] = shipWorker[v]
          /\ shipWorker'[w].pc = shipWorker[w].pc /\ shipWorker'[w].body = shipWorker[w].body
          /\ shipWorker'[w].todo = shipWorker[w].todo \ {b}
      BY <1>1, <2>13 DEF Ship!SP!Publish, ShipLoop!Work
    <3>2. \/ /\ shipSchedules' \subseteq shipSchedules \cup {b}
             /\ \A d \in Ship!Body : shipQueue'[d] = shipQueue[d]
          \/ /\ shipQueue'[b] = shipQueue[b] + 1 /\ shipSchedules' \subseteq shipSchedules
             /\ \A d \in Ship!Body : d # b => shipQueue'[d] = shipQueue[d]
      BY <1>1, <2>13 DEF Ship!SP!Publish, Ship!SP!HandOn, Ship!SP!Sent, Ship!SP!Scheduled
    <3>3. UNCHANGED <<step, codeRuns, ciRevisits>>
      BY <2>13 DEF Ship!agentVars
    <3>4. \A v \in Worker : shipWorker'[v].body = shipWorker[v].body
      BY <3>1
    <3>5. sj = sk
      BY <3>3, <3>4 DEF sj, sk, ShipAfterSkill
    <3>6. ShipLoop!Claims(g, wt, sk, shipQueue', shipSchedules', shipWorker')
      BY <1>5, <3>5
    <3>7. ShipLoop!HandedOn(shipWorker, shipWorker', w, b)
      BY <3>1 DEF ShipLoop!HandedOn
    <3>8. /\ ShipLoop!Finite(g) /\ ShipLoop!Total(g) \in Nat
          /\ ShipLoop!Total(g) <= ShipLoop!Total(f)
      <4>1. CASE /\ shipSchedules' \subseteq shipSchedules \cup {b}
                 /\ \A d \in Ship!Body : shipQueue'[d] = shipQueue[d]
        BY <1>14, <1>15, <3>6, <3>7, <4>1, ShipLoop!ScheduleCredit
      <4>2. CASE /\ ShipLoop!OneMoreOf(shipQueue, shipQueue', b)
                 /\ shipSchedules' \subseteq shipSchedules
        BY <1>14, <1>15, <3>6, <3>7, <4>2, ShipLoop!SendCredit
      <4>3. QED BY <3>2, <4>1, <4>2 DEF ShipLoop!OneMoreOf
    <3>9. QED BY <1>8, <1>9, <3>1, <3>3, <3>8
  <2>14. QED
    BY <1>22, <2>5, <2>6, <2>7, <2>8, <2>9, <2>10, <2>11, <2>12, <2>13 DEF Ship!Handle
<1>23. QED
  BY <1>17, <1>18, <1>19, <1>20, <1>21, <1>22 DEF Ship!Next

(* The budgets, with what they rest on. *)
BudgetsInv ==
  LoopsInv /\ ShipHistories /\ \A t \in Ship!Ticket : ShipWithinBudget(t)

(* At first nothing is claimed. *)
LEMMA BudgetsInitially == AgentsInit => BudgetsInv
<1> SUFFICES ASSUME AgentsInit PROVE BudgetsInv
  OBVIOUS
<1>1. LoopsInv
  BY LoopsInitially
<1>2. /\ step = [w \in Worker |-> "none"] /\ shipFaults = 0
      /\ codeRuns = [t \in Ship!Ticket |-> 0] /\ ciRevisits = [t \in Ship!Ticket |-> 0]
  BY DEF AgentsInit, Ship!Init, Ship!SP!DeliveryInit
<1>3. ShipHistories
  BY <1>2, PublishersAssumption DEF ShipHistories
<1> SUFFICES ASSUME NEW t \in Ship!Ticket PROVE ShipWithinBudget(t)
  BY <1>1, <1>3 DEF BudgetsInv
<1> DEFINE sk == ShipAfterSkill(t, shipWorker, step)
           f == ShipLoop!Load(ShipWorth(t), sk, shipQueue, shipSchedules, shipWorker)
<1>4. /\ shipQueue \in [Ship!Body -> Nat] /\ shipWorker \in [Worker -> ShipLoop!Work]
      /\ \A b \in Ship!Body : shipQueue[b] = 0 /\ b \notin shipSchedules
      /\ \A w \in Worker : shipWorker[w].pc = "idle" /\ shipWorker[w].todo = {}
  BY <1>1 DEF LoopsInv, ShipLoop!PInv, ShipLoop!DeliveryTypeOK, AgentsInit, Ship!Init,
              Ship!SP!DeliveryInit, Ship!SP!NoWork
<1>5. ShipWorth(t) \in [Ship!Body -> Nat] /\ sk \in [Worker -> Nat]
  <2>1. \A w \in Worker : shipWorker[w].body \in Ship!Body
    BY <1>4 DEF ShipLoop!Work
  <2>2. QED BY <2>1, ShipWorthValues DEF ShipAfterSkill
<1>6. ShipLoop!Claims(f, ShipWorth(t), sk, shipQueue, shipSchedules, shipWorker)
  BY <1>4, <1>5, ShipLoop!LoadValues
<1> HIDE DEF f
<1>7. ShipLoop!Finite(f) /\ ShipLoop!Total(f) = 0
  BY <1>4, <1>6, ShipLoop!NoClaims
<1>8. ciRevisits[t] = 0 /\ codeRuns[t] = 0
  BY <1>2
<1>9. MAX_REVISIT_COUNT + 1 \in Nat
  BY PublishersAssumption
<1>10. QED
  BY <1>2, <1>7, <1>8, <1>9
     DEF ShipWithinBudget, ShipLoop!CreditIsFinite, ShipLoop!Credit, f

(* A PR that ship-it opened is revisited no more often than code-it runs   *)
(* and mishaps give it chains of revisits, for any tickets, releases and   *)
(* cap: no interleaving of events, retries and duplicates multiplies them. *)
THEOREM ShipItRevisitBudgetHolds == AgentsSpec => []ShipItRevisitBudget
<1>1. BudgetsInv /\ [AgentsNext]_allVars => BudgetsInv'
  <2> SUFFICES ASSUME BudgetsInv, [AgentsNext]_allVars PROVE BudgetsInv'
    OBVIOUS
  <2>1. LoopsInv /\ LoopsInv' /\ ShipHistories /\ \A t \in Ship!Ticket : ShipWithinBudget(t)
    BY LoopsStep DEF BudgetsInv
  <2>2. CASE UNCHANGED shipVars
    BY <2>1, <2>2
       DEF shipVars, BudgetsInv, ShipHistories, ShipWithinBudget, ShipAfterSkill,
           ShipLoop!CreditIsFinite, ShipLoop!Credit
  <2>3. CASE Ship!Next
    <3>1. ShipHistories'
      BY <2>1, <2>3, ShipHistoriesStep
    <3>2. \A t \in Ship!Ticket : ShipWithinBudget(t)'
      BY <2>1, <2>3, ShipBudgetStep
    <3>3. QED BY <2>1, <3>1, <3>2 DEF BudgetsInv
  <2>4. QED
    BY <2>2, <2>3 DEF AgentsNext, ReplyStep, ShipItStep, DocumentItStep, allVars
<1>2. BudgetsInv => ShipItRevisitBudget
  <2> SUFFICES ASSUME BudgetsInv, NEW t \in Ship!Ticket
               PROVE  ciRevisits[t] <= (MAX_REVISIT_COUNT + 1) * (codeRuns[t] + shipFaults)
    BY DEF ShipItRevisitBudget, Ship!ShipItRevisitBudget
  <2> DEFINE c == ShipLoop!Credit(ShipWorth(t), ShipAfterSkill(t, shipWorker, step))
             m == codeRuns[t] + shipFaults
  <2>1. /\ ciRevisits[t] \in 0 .. MaxRevisits /\ codeRuns[t] \in 0 .. MaxRevisits
        /\ shipFaults \in Nat
    BY DEF BudgetsInv, ShipHistories, LoopsInv, ShipLoop!PInv, ShipLoop!DeliveryTypeOK
  <2>2. c \in Nat
    BY ShipLoop!TotalType
       DEF BudgetsInv, ShipWithinBudget, ShipLoop!CreditIsFinite, ShipLoop!Credit
  <2>3. codeRuns[t] = MaxRevisits \/ ciRevisits[t] + c <= (MAX_REVISIT_COUNT + 1) * m
    BY DEF BudgetsInv, ShipWithinBudget
  <2>4. m \in Nat /\ (codeRuns[t] = MaxRevisits => ciRevisits[t] <= m)
    BY <2>1, PublishersAssumption
  <2>5. (MAX_REVISIT_COUNT + 1) * m = MAX_REVISIT_COUNT * m + m
        /\ MAX_REVISIT_COUNT * m \in Nat
    BY <2>4, PublishersAssumption
  <2> HIDE DEF c, m
  <2>6. ciRevisits[t] <= (MAX_REVISIT_COUNT + 1) * m
    BY <2>1, <2>2, <2>3, <2>4, <2>5, PublishersAssumption
  <2>7. QED BY <2>6 DEF m
<1>3. QED BY <1>1, <1>2, BudgetsInitially, PTL DEF AgentsSpec
===============================================================================
