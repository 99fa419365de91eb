--------------------------- MODULE SelfPublishProofs ---------------------------
(***************************************************************************)
(* Proofs about SelfPublish, for every set of bodies, every set of workers *)
(* and every number of faults: nothing that is owed is lost, and what its  *)
(* messages may still lead to (Credit) only grows where a tick or a fault  *)
(* adds to it.                                                             *)
(***************************************************************************)
EXTENDS SelfPublish, FiniteSetTheorems, TLAPS

PInv == DeliveryTypeOK /\ RunsInOrder /\ NothingOwedIsLost

(* The idle worker is a worker. *)
LEMMA NoWorkType ==
  ASSUME SelfPublishAssumption
  PROVE  /\ NoWork \in Work /\ NoWork.pc = "idle"
         /\ NoWork.targets = {} /\ NoWork.todo = {}
  BY DEF SelfPublishAssumption, NoWork, Work

(* Effects of publish and publishDelayed keep the queue and the schedules  *)
(* well typed.                                                             *)
LEMMA EffectType ==
  ASSUME DeliveryTypeOK, NEW b \in Body
  PROVE  /\ Sent(b) \in [Body -> Nat]
         /\ \A c \in Body : Sent(b)[c] = IF c = b THEN queue[c] + 1 ELSE queue[c]
         /\ b \in Delayed => Scheduled(b) \subseteq Delayed
         /\ schedules \subseteq Scheduled(b) /\ b \in Scheduled(b)
  BY DEF DeliveryTypeOK, Sent, Scheduled, deriveScheduleName

(* Every step of the loop keeps the types. *)
LEMMA DeliveryTypeStep ==
  ASSUME SelfPublishAssumption
  PROVE  DeliveryTypeOK /\ [DeliveryNext]_deliveryVars => DeliveryTypeOK'
<1> SUFFICES ASSUME DeliveryTypeOK, [DeliveryNext]_deliveryVars PROVE DeliveryTypeOK'
  OBVIOUS
<1> USE NoWorkType DEF SelfPublishAssumption
<1>1. CASE UNCHANGED deliveryVars
  BY <1>1 DEF deliveryVars, DeliveryTypeOK
<1>2. ASSUME NEW b \in Body, Arrive(b) \/ Fire(b)
      PROVE  DeliveryTypeOK'
  BY <1>2, EffectType DEF Arrive, Fire, DeliveryTypeOK
<1>3. ASSUME NEW w \in Worker, Run(w)
      PROVE  DeliveryTypeOK'
  <2>0. worker[w] \in Work BY DEF DeliveryTypeOK
  <2>1. ASSUME NEW b \in Body, Deliver(w, b) PROVE DeliveryTypeOK'
    BY <2>0, <2>1 DEF Deliver, DeliveryTypeOK, Work
  <2>2. ASSUME NEW b \in Body, Publish(w, b) PROVE DeliveryTypeOK'
    <3>1. [worker[w] EXCEPT !.todo = @ \ {b}] \in Work
      BY <2>0 DEF Work
    <3>2. worker' \in [Worker -> Work]
      BY <2>2, <3>1 DEF Publish, DeliveryTypeOK
    <3>3. queue' \in [Body -> Nat] /\ schedules' \subseteq Delayed
      BY <2>2, EffectType DEF Publish, HandOn, DeliveryTypeOK
    <3>4. QED BY <2>2, <3>2, <3>3 DEF Publish, DeliveryTypeOK
  <2>3. ASSUME NEW b \in Body, PublishThrows(w, b) PROVE DeliveryTypeOK'
    <3>1. worker[w].body \in Body BY <2>0 DEF Work
    <3>2. queue' \in [Body -> Nat]
      BY <2>3, <3>1, EffectType DEF PublishThrows, DeliveryTypeOK
    <3>3. QED BY <2>3, <3>2, EffectType DEF PublishThrows, DeliveryTypeOK, Fault
  <2>4. CASE RunSkill(w)
    BY <2>0, <2>4 DEF RunSkill, DeliveryTypeOK, Work
  <2>5. CASE Finish(w)
    BY <2>0, <2>5 DEF Finish, DeliveryTypeOK, Work
  <2>6. CASE Fail(w)
    <3>1. worker[w].body \in Body BY <2>0 DEF Work
    <3>2. QED BY <2>6, <3>1, EffectType DEF Fail, DeliveryTypeOK, Fault
  <2>7. CASE Redeliver(w)
    <3>1. worker[w].body \in Body BY <2>0 DEF Work
    <3>2. QED BY <2>7, <3>1, EffectType DEF Redeliver, DeliveryTypeOK, Fault
  <2>8. ASSUME NEW targets \in SUBSET Body, Decide(w, targets) PROVE DeliveryTypeOK'
    BY <2>0, <2>8 DEF Decide, DeliveryTypeOK, Work
  <2>9. CASE Reject(w)
    BY <2>0, <2>9 DEF Reject, DeliveryTypeOK, Work
  <2>10. QED
    BY <1>3, <2>1, <2>2, <2>3, <2>4, <2>5, <2>6, <2>7, <2>8, <2>9 DEF Run
<1>4. QED BY <1>1, <1>2, <1>3 DEF DeliveryNext

(* A reached message stays reached: it moves from a schedule to the queue, *)
(* from the queue to a worker, and from there to the settled, back, or to  *)
(* the dead-letter queue.                                                  *)
LEMMA ReachedStays ==
  ASSUME SelfPublishAssumption, DeliveryTypeOK, [DeliveryNext]_deliveryVars,
         NEW c \in Body, Reached(c)
  PROVE  Reached(c)'
<1> USE NoWorkType DEF Reached, Pending, Busy
<1>1. CASE UNCHANGED deliveryVars
  BY <1>1 DEF deliveryVars
<1>2. ASSUME NEW b \in Body, Arrive(b) \/ Fire(b)
      PROVE  Reached(c)'
  BY <1>2, EffectType DEF Arrive, Fire, DeliveryTypeOK
<1>3. ASSUME NEW w \in Worker, Run(w)
      PROVE  Reached(c)'
  <2>0. worker[w] \in Work /\ worker \in [Worker -> Work] /\ worker[w].body \in Body
    BY DEF DeliveryTypeOK, Work
  <2>1. ASSUME NEW b \in Body, Deliver(w, b) PROVE Reached(c)'
    <3>1. worker'[w].pc = "started" /\ worker'[w].body = b
      BY <2>0, <2>1 DEF Deliver
    <3>2. \A v \in Worker : v # w => worker'[v] = worker[v]
      BY <2>0, <2>1 DEF Deliver
    <3>3. CASE c = b BY <3>1, <3>3
    <3>4. CASE c # b
      <4>1. queue'[c] = queue[c] BY <2>1, <3>4 DEF Deliver, DeliveryTypeOK
      <4>2. QED BY <2>1, <3>2, <4>1 DEF Deliver
    <3>5. QED BY <3>3, <3>4
  <2>2. ASSUME NEW b \in Body, Publish(w, b) PROVE Reached(c)'
    <3>1. \A v \in Worker : worker'[v].pc = worker[v].pc /\ worker'[v].body = worker[v].body
      BY <2>0, <2>2 DEF Publish
    <3>2. schedules \subseteq schedules' /\ (queue[c] > 0 => queue'[c] > 0)
      BY <2>2, EffectType DEF Publish, HandOn, DeliveryTypeOK
    <3>3. QED BY <2>2, <3>1, <3>2 DEF Publish
  <2>3. ASSUME NEW b \in Body, PublishThrows(w, b) PROVE Reached(c)'
    <3>1. \A v \in Worker : v # w => worker'[v] = worker[v]
      BY <2>0, <2>3 DEF PublishThrows
    <3>2. schedules \subseteq schedules' /\ (queue[c] > 0 => queue'[c] > 0)
          /\ queue'[worker[w].body] > 0
      BY <2>0, <2>3, EffectType DEF PublishThrows, DeliveryTypeOK
    <3>3. QED BY <2>3, <3>1, <3>2 DEF PublishThrows
  <2>4. CASE RunSkill(w)
    <3>1. \A v \in Worker : Busy(v) => Busy(v)' /\ worker'[v].body = worker[v].body
      BY <2>0, <2>4 DEF RunSkill
    <3>2. QED BY <2>4, <3>1 DEF RunSkill
  <2>5. CASE Finish(w)
    <3>1. \A v \in Worker : v # w => worker'[v] = worker[v]
      BY <2>0, <2>5 DEF Finish
    <3>2. QED BY <2>5, <3>1 DEF Finish
  <2>6. CASE Fail(w)
    <3>1. \A v \in Worker : v # w => worker'[v] = worker[v]
      BY <2>0, <2>6 DEF Fail
    <3>2. (queue[c] > 0 => queue'[c] > 0) /\ dead \subseteq dead'
          /\ (queue'[worker[w].body] > 0 \/ worker[w].body \in dead')
      BY <2>0, <2>6, EffectType DEF Fail, DeliveryTypeOK
    <3>3. QED BY <2>6, <3>1, <3>2 DEF Fail
  <2>7. CASE Redeliver(w)
    BY <2>0, <2>7, EffectType DEF Redeliver, DeliveryTypeOK
  <2>8. ASSUME NEW targets \in SUBSET Body, Decide(w, targets) PROVE Reached(c)'
    <3>1. \A v \in Worker : Busy(v) => Busy(v)' /\ worker'[v].body = worker[v].body
      BY <2>0, <2>8 DEF Decide
    <3>2. QED BY <2>8, <3>1 DEF Decide
  <2>9. CASE Reject(w)
    <3>1. \A v \in Worker : v # w => worker'[v] = worker[v]
      BY <2>0, <2>9 DEF Reject
    <3>2. QED BY <2>0, <2>9, <3>1 DEF Reject, DeliveryTypeOK
  <2>10. QED
    BY <1>3, <2>1, <2>2, <2>3, <2>4, <2>5, <2>6, <2>7, <2>8, <2>9 DEF Run
<1>4. QED BY <1>1, <1>2, <1>3 DEF DeliveryNext

(* A published message is reached: it is in the queue, or a schedule of its*)
(* name exists and delivers the same body.                                 *)
LEMMA PublishedIsReached ==
  ASSUME DeliveryTypeOK, NEW w \in Worker, NEW b \in Body, Publish(w, b)
  PROVE  Reached(b)'
  BY EffectType DEF Publish, HandOn, Reached, Pending, DeliveryTypeOK

(* Every step keeps the runs in order and what is owed reached. *)
LEMMA PInvStep ==
  ASSUME SelfPublishAssumption
  PROVE  PInv /\ [DeliveryNext]_deliveryVars => PInv'
<1> SUFFICES ASSUME PInv, [DeliveryNext]_deliveryVars PROVE PInv'
  OBVIOUS
<1>1. DeliveryTypeOK /\ DeliveryTypeOK'
  BY DeliveryTypeStep DEF PInv
<1>2. \A c \in Body : Reached(c) => Reached(c)'
  BY <1>1, ReachedStays
<1>3. worker \in [Worker -> Work] /\ \A v \in Worker : worker[v] \in Work
  BY <1>1 DEF DeliveryTypeOK
<1>4. \A v \in Worker : worker[v].targets \subseteq Body
  BY <1>3 DEF Work
<1>5. owed \subseteq Body
  BY <1>1 DEF DeliveryTypeOK
<1> DEFINE InOrder(v) ==
      /\ worker[v].pc # "publishing" => worker[v].targets = {} /\ worker[v].todo = {}
      /\ \A b \in worker[v].targets : b \in worker[v].todo \/ Reached(b)
<1>6. \A v \in Worker : InOrder(v) BY DEF PInv, RunsInOrder
<1>7. \A v \in Worker : worker'[v] = worker[v] => InOrder(v)'
  BY <1>2, <1>4, <1>6
<1>8. \A v \in Worker : worker'[v] = NoWork => InOrder(v)'
  BY NoWorkType
<1>9. owed' = owed => NothingOwedIsLost'
  BY <1>2, <1>5 DEF PInv, NothingOwedIsLost, Reached
<1>10. CASE UNCHANGED deliveryVars
  BY <1>1, <1>7, <1>9, <1>10 DEF deliveryVars, PInv, RunsInOrder
<1>11. ASSUME NEW b \in Body, Arrive(b) \/ Fire(b)
       PROVE  PInv'
  BY <1>1, <1>7, <1>9, <1>11 DEF Arrive, Fire, PInv, RunsInOrder
<1>12. ASSUME NEW w \in Worker, Run(w)
       PROVE  PInv'
  <2>1. SUFFICES ASSUME \A v \in Worker : v # w => worker'[v] = worker[v]
                 PROVE  InOrder(w)' /\ NothingOwedIsLost'
    <3>1. \A v \in Worker : v # w => worker'[v] = worker[v]
      BY <1>3, <1>12 DEF Run, Deliver, Publish, PublishThrows, RunSkill, Finish, Fail,
                         Redeliver, Reject, Decide
    <3>2. QED BY <1>1, <1>7, <2>1, <3>1 DEF PInv, RunsInOrder
  <2>2. ASSUME NEW b \in Body, Deliver(w, b) PROVE InOrder(w)' /\ NothingOwedIsLost'
    BY <1>3, <1>9, <2>2 DEF Deliver
  <2>3. ASSUME NEW b \in Body, Publish(w, b) PROVE InOrder(w)' /\ NothingOwedIsLost'
    <3>1. worker'[w].pc = "publishing" /\ worker'[w].targets = worker[w].targets
          /\ worker'[w].todo = worker[w].todo \ {b}
      BY <1>3, <2>3 DEF Publish, Work
    <3>2. Reached(b)' BY <1>1, <2>3, PublishedIsReached
    <3>3. InOrder(w)' BY <1>2, <1>4, <1>6, <3>1, <3>2
    <3>4. QED BY <1>9, <2>3, <3>3 DEF Publish
  <2>4. ASSUME NEW b \in Body, PublishThrows(w, b) PROVE InOrder(w)' /\ NothingOwedIsLost'
    BY <1>3, <1>8, <1>9, <2>4 DEF PublishThrows
  <2>5. CASE RunSkill(w)
    <3>1. worker'[w].pc = "skill" /\ worker'[w].targets = {} /\ worker'[w].todo = {}
      BY <1>3, <1>6, <2>5 DEF RunSkill, Work
    <3>2. QED BY <1>9, <2>5, <3>1 DEF RunSkill
  <2>6. CASE Finish(w)
    <3>1. InOrder(w)' BY <1>3, <1>8, <2>6 DEF Finish
    <3>2. \A b \in worker[w].targets : Reached(b) BY <1>6, <2>6 DEF Finish
    <3>3. \A b \in owed : Reached(b) BY DEF PInv, NothingOwedIsLost, Reached
    <3>4. \A b \in owed' : Reached(b)'
      BY <1>2, <1>4, <1>5, <2>6, <3>2, <3>3 DEF Finish
    <3>5. QED BY <3>1, <3>4 DEF NothingOwedIsLost, Reached
  <2>7. CASE Fail(w)
    BY <1>3, <1>8, <1>9, <2>7 DEF Fail
  <2>8. CASE Redeliver(w)
    BY <1>7, <1>9, <2>8 DEF Redeliver
  <2>9. ASSUME NEW targets \in SUBSET Body, Decide(w, targets)
        PROVE  InOrder(w)' /\ NothingOwedIsLost'
    BY <1>3, <1>9, <2>9 DEF Decide
  <2>10. CASE Reject(w)
    BY <1>3, <1>8, <1>9, <2>10 DEF Reject
  <2>11. QED
    BY <1>12, <2>2, <2>3, <2>4, <2>5, <2>6, <2>7, <2>8, <2>9, <2>10 DEF Run
<1>13. QED BY <1>10, <1>11, <1>12 DEF DeliveryNext

(* Nothing an acknowledged handler run had to hand on is lost, whatever    *)
(* handlers decide, fail and repeat.                                       *)
THEOREM NothingOwedIsLostHolds ==
  ASSUME SelfPublishAssumption
  PROVE  DeliverySpec => []NothingOwedIsLost
<1>1. DeliveryInit => PInv
  BY NoWorkType DEF DeliveryInit, PInv, DeliveryTypeOK, RunsInOrder, NothingOwedIsLost
<1>2. PInv => NothingOwedIsLost
  BY DEF PInv
<1>3. PInv /\ [DeliveryNext]_deliveryVars => PInv'
  BY PInvStep
<1>4. QED BY <1>1, <1>2, <1>3, PTL DEF DeliverySpec
---------------------------------------------------------------------------
(* Budgets: counting what a loop may still do *)

(* The sum of a function into Nat, as the number of points below it.       *)
Spread(f) == {p \in (DOMAIN f) \X Nat : 1 <= p[2] /\ p[2] <= f[p[1]]}

Total(f) == Cardinality(Spread(f))

(* The points below a function. *)
LEMMA SpreadPoints ==
  ASSUME NEW H, NEW f \in [H -> Nat]
  PROVE  /\ Spread(f) \subseteq H \X Nat
         /\ \A z \in H, j \in Nat : <<z, j>> \in Spread(f) <=> 1 <= j /\ j <= f[z]
<1>1. DOMAIN f = H
  OBVIOUS
<1>2. QED BY <1>1 DEF Spread

(* One argument contributes its value. *)
LEMMA SpreadAt ==
  ASSUME NEW x, NEW n \in Nat
  PROVE  /\ IsFiniteSet({x} \X (1 .. n))
         /\ Cardinality({x} \X (1 .. n)) = n
<1> DEFINE g == [j \in 1 .. n |-> <<x, j>>]
<1>1. g \in Bijection(1 .. n, {x} \X (1 .. n))
  <2>1. g \in [1 .. n -> {x} \X (1 .. n)]
    OBVIOUS
  <2>2. \A j, k \in 1 .. n : g[j] = g[k] => j = k
    OBVIOUS
  <2>3. \A p \in {x} \X (1 .. n) : \E j \in 1 .. n : g[j] = p
    OBVIOUS
  <2>4. QED BY <2>1, <2>2, <2>3 DEF Bijection, Injection, Surjection, IsInjective
<1>2. IsFiniteSet(1 .. n) /\ Cardinality(1 .. n) = n
  BY FS_Interval
<1>3. QED BY <1>1, <1>2, FS_Bijection DEF ExistsBijection

(* Where one argument may grow and the others only shrink, the total grows *)
(* by what that argument does.                                             *)
LEMMA TotalChange ==
  ASSUME NEW H, NEW f \in [H -> Nat], NEW g \in [H -> Nat], NEW x \in H,
         IsFiniteSet(Spread(f)), \A z \in H : z # x => g[z] <= f[z]
  PROVE  /\ IsFiniteSet(Spread(g)) /\ Total(g) \in Nat /\ Total(f) \in Nat
         /\ Total(g) + f[x] <= Total(f) + g[x]
<1> DEFINE Fx == {x} \X (1 .. f[x])
           Gx == {x} \X (1 .. g[x])
           F == Spread(f) \ Fx
           G == Spread(g) \ Gx
<1>1. f[x] \in Nat /\ g[x] \in Nat
  OBVIOUS
<1>2. Fx \subseteq Spread(f) /\ Gx \subseteq Spread(g)
  <2>1. \A j \in 1 .. f[x] : <<x, j>> \in Spread(f)
    BY <1>1, SpreadPoints
  <2>2. \A j \in 1 .. g[x] : <<x, j>> \in Spread(g)
    BY <1>1, SpreadPoints
  <2>3. QED BY <2>1, <2>2
<1>3. G \subseteq F
  <2> SUFFICES ASSUME NEW p \in Spread(g), p \notin Gx
               PROVE  p \in Spread(f) /\ p \notin Fx
    OBVIOUS
  <2>1. PICK z \in H, j \in Nat : p = <<z, j>>
    BY SpreadPoints
  <2>2. 1 <= j /\ j <= g[z]
    BY <2>1, SpreadPoints
  <2>3. z # x
    BY <1>1, <2>1, <2>2
  <2>4. f[z] \in Nat /\ g[z] \in Nat /\ g[z] <= f[z]
    BY <2>3
  <2>5. 1 <= j /\ j <= f[z]
    BY <2>2, <2>4
  <2>6. p \in Spread(f)
    BY <2>1, <2>5, SpreadPoints
  <2>7. QED BY <2>1, <2>3, <2>6
<1>4. /\ IsFiniteSet(Fx) /\ Cardinality(Fx) = f[x]
      /\ IsFiniteSet(Gx) /\ Cardinality(Gx) = g[x]
  BY <1>1, SpreadAt
<1>5. /\ IsFiniteSet(F) /\ Cardinality(F) \in Nat
      /\ Cardinality(F) = Total(f) - f[x] /\ Total(f) \in Nat
  <2>1. Spread(f) \cap Fx = Fx
    BY <1>2
  <2>2. /\ IsFiniteSet(F)
        /\ Cardinality(F) = Cardinality(Spread(f)) - Cardinality(Spread(f) \cap Fx)
    BY FS_Difference
  <2>3. Cardinality(F) \in Nat /\ Cardinality(Spread(f)) \in Nat
    BY <2>2, FS_CardinalityType
  <2>4. QED BY <1>4, <2>1, <2>2, <2>3 DEF Total
<1>6. /\ IsFiniteSet(G) /\ Cardinality(G) <= Cardinality(F) /\ Cardinality(G) \in Nat
  BY <1>3, <1>5, FS_Subset, FS_CardinalityType
<1>7. /\ IsFiniteSet(Spread(g)) /\ Total(g) = Cardinality(G) + g[x]
  <2>1. Spread(g) = G \cup Gx /\ G \cap Gx = {}
    BY <1>2
  <2>2. /\ IsFiniteSet(G \cup Gx)
        /\ Cardinality(G \cup Gx) = Cardinality(G) + Cardinality(Gx) - Cardinality(G \cap Gx)
    BY <1>4, <1>6, FS_Union
  <2>3. Cardinality(G \cap Gx) = 0
    BY <2>1, FS_EmptySet
  <2>4. QED BY <1>1, <1>4, <1>6, <2>1, <2>2, <2>3 DEF Total
<1>8. QED BY <1>1, <1>5, <1>6, <1>7

(* What one argument gives, another may take. *)
LEMMA TotalShift ==
  ASSUME NEW H, NEW f \in [H -> Nat], NEW g \in [H -> Nat], NEW x \in H, NEW y \in H,
         x # y, IsFiniteSet(Spread(f)),
         g[x] + g[y] <= f[x] + f[y], \A z \in H : z # x /\ z # y => g[z] <= f[z]
  PROVE  IsFiniteSet(Spread(g)) /\ Total(g) \in Nat /\ Total(f) \in Nat
         /\ Total(g) <= Total(f)
<1> DEFINE h == [f EXCEPT ![y] = g[y]]
<1>1. /\ h \in [H -> Nat] /\ h[y] = g[y] /\ h[x] = f[x]
      /\ \A z \in H : z # y => h[z] = f[z]
  OBVIOUS
<1>2. f[x] \in Nat /\ f[y] \in Nat /\ g[x] \in Nat /\ g[y] \in Nat
  OBVIOUS
<1> HIDE DEF h
<1>3. \A z \in H : z # y => h[z] <= f[z]
  BY <1>1
<1>4. /\ IsFiniteSet(Spread(h)) /\ Total(h) \in Nat /\ Total(f) \in Nat
      /\ Total(h) + f[y] <= Total(f) + g[y]
  BY <1>1, <1>3, TotalChange
<1>5. \A z \in H : z # x => g[z] <= h[z]
  BY <1>1
<1>6. /\ IsFiniteSet(Spread(g)) /\ Total(g) \in Nat
      /\ Total(g) + f[x] <= Total(h) + g[x]
  BY <1>1, <1>4, <1>5, TotalChange
<1>7. QED BY <1>2, <1>4, <1>6

(* A total that counts. *)
Finite(f) == IsFiniteSet(Spread(f))

(* Then it is a number. *)
LEMMA TotalType == ASSUME NEW f, Finite(f) PROVE Total(f) \in Nat
  BY FS_CardinalityType DEF Finite, Total

(* Who holds a claim on future work: the copies of a body in the queue, a  *)
(* schedule, a run before its skill has returned, and what a run has still *)
(* to hand on.                                                             *)
InQueue(b, k) == <<"queue", <<b, k>>>>
InSchedule(b) == <<"schedule", b>>
InRun(w) == <<"run", w>>
InTodo(w, b) == <<"todo", <<w, b>>>>

Holder ==
  ({"queue"} \X (Body \X Nat)) \cup ({"schedule"} \X Body)
    \cup ({"run"} \X Worker) \cup ({"todo"} \X (Worker \X Body))

(* What each of them holds, when a copy of body b is worth wt[b] and the   *)
(* skill of worker w is worth sk[w].                                       *)
RunLoad(wt, sk, wk, w) ==
  IF wk[w].pc = "started" THEN wt[wk[w].body]
  ELSE IF wk[w].pc = "skill" THEN sk[w] ELSE 0

LoadAt(wt, sk, q, s, wk, h) ==
  IF h[1] = "queue"
    THEN IF 1 <= h[2][2] /\ h[2][2] <= q[h[2][1]] THEN wt[h[2][1]] ELSE 0
  ELSE IF h[1] = "schedule" THEN IF h[2] \in s THEN wt[h[2]] ELSE 0
  ELSE IF h[1] = "run" THEN RunLoad(wt, sk, wk, h[2])
  ELSE IF h[2][2] \in wk[h[2][1]].todo THEN wt[h[2][2]] ELSE 0

Load(wt, sk, q, s, wk) == [h \in Holder |-> LoadAt(wt, sk, q, s, wk, h)]

(* All of it together. *)
CreditIsFinite(wt, sk) == Finite(Load(wt, sk, queue, schedules, worker))

Credit(wt, sk) == Total(Load(wt, sk, queue, schedules, worker))

(* The kinds of holders, and that none is another. *)
LEMMA HolderKinds ==
  /\ \A h \in Holder :
       \/ \E b \in Body, k \in Nat : h = InQueue(b, k)
       \/ \E b \in Body : h = InSchedule(b)
       \/ \E w \in Worker : h = InRun(w)
       \/ \E w \in Worker, b \in Body : h = InTodo(w, b)
  /\ \A b \in Body : InSchedule(b) \in Holder /\ \A k \in Nat : InQueue(b, k) \in Holder
  /\ \A w \in Worker : InRun(w) \in Holder /\ \A b \in Body : InTodo(w, b) \in Holder
<1>1. \A h \in Holder :
       \/ \E b \in Body, k \in Nat : h = InQueue(b, k)
       \/ \E b \in Body : h = InSchedule(b)
       \/ \E w \in Worker : h = InRun(w)
       \/ \E w \in Worker, b \in Body : h = InTodo(w, b)
  BY DEF Holder, InQueue, InSchedule, InRun, InTodo
<1>2. QED BY <1>1 DEF Holder, InQueue, InSchedule, InRun, InTodo

(* A function that gives every holder its claim.                           *)
Claims(f, wt, sk, q, s, wk) ==
  /\ f \in [Holder -> Nat]
  /\ \A d \in Body, k \in Nat : f[InQueue(d, k)] =
       IF 1 <= k /\ k <= q[d] THEN wt[d] ELSE 0
  /\ \A d \in Body : f[InSchedule(d)] = IF d \in s THEN wt[d] ELSE 0
  /\ \A v \in Worker : f[InRun(v)] = RunLoad(wt, sk, wk, v)
  /\ \A v \in Worker, d \in Body : f[InTodo(v, d)] =
       IF d \in wk[v].todo THEN wt[d] ELSE 0
  /\ \A v \in Worker : RunLoad(wt, sk, wk, v) \in Nat

(* The load is that function. *)
LEMMA LoadValues ==
  ASSUME NEW wt \in [Body -> Nat], NEW sk \in [Worker -> Nat],
         NEW q, NEW s, NEW wk \in [Worker -> Work]
  PROVE  Claims(Load(wt, sk, q, s, wk), wt, sk, q, s, wk)
<1>1. \A h \in Holder : Load(wt, sk, q, s, wk)[h] = LoadAt(wt, sk, q, s, wk, h)
  BY DEF Load
<1>2. \A b \in Body, k \in Nat : LoadAt(wt, sk, q, s, wk, InQueue(b, k)) =
        IF 1 <= k /\ k <= q[b] THEN wt[b] ELSE 0
  BY DEF LoadAt, InQueue
<1>3. \A b \in Body : LoadAt(wt, sk, q, s, wk, InSchedule(b)) =
        IF b \in s THEN wt[b] ELSE 0
  BY DEF LoadAt, InSchedule
<1>4. \A w \in Worker : LoadAt(wt, sk, q, s, wk, InRun(w)) = RunLoad(wt, sk, wk, w)
  BY DEF LoadAt, InRun
<1>5. \A w \in Worker, b \in Body : LoadAt(wt, sk, q, s, wk, InTodo(w, b)) =
        IF b \in wk[w].todo THEN wt[b] ELSE 0
  BY DEF LoadAt, InTodo
<1>6. \A w \in Worker : wk[w].body \in Body
  BY DEF Work
<1>7. \A w \in Worker : RunLoad(wt, sk, wk, w) \in Nat
  BY <1>6 DEF RunLoad
<1>8. \A h \in Holder : LoadAt(wt, sk, q, s, wk, h) \in Nat
  <2> SUFFICES ASSUME NEW h \in Holder PROVE LoadAt(wt, sk, q, s, wk, h) \in Nat
    OBVIOUS
  <2>1. CASE \E b \in Body, k \in Nat : h = InQueue(b, k)
    BY <1>2, <2>1
  <2>2. CASE \E b \in Body : h = InSchedule(b)
    BY <1>3, <2>2
  <2>3. CASE \E w \in Worker : h = InRun(w)
    BY <1>4, <1>7, <2>3
  <2>4. CASE \E w \in Worker, b \in Body : h = InTodo(w, b)
    BY <1>5, <2>4
  <2>5. QED BY <2>1, <2>2, <2>3, <2>4, HolderKinds
<1>9. Load(wt, sk, q, s, wk) \in [Holder -> Nat]
  BY <1>8 DEF Load
<1>10. QED BY <1>1, <1>2, <1>3, <1>4, <1>5, <1>7, <1>9, HolderKinds DEF Claims

(* Claims compare kind by kind. *)
LEMMA KindByKind ==
  ASSUME NEW wt, NEW sk, NEW sj, NEW q, NEW r, NEW s, NEW t, NEW wk, NEW vk,
         NEW f, NEW g, Claims(f, wt, sk, q, s, wk), Claims(g, wt, sj, r, t, vk),
         NEW z \in Holder,
         \A d \in Body, k \in Nat :
           z = InQueue(d, k) /\ 1 <= k /\ k <= r[d] => k <= q[d],
         \A d \in Body : z = InSchedule(d) /\ d \in t => d \in s,
         \A v \in Worker :
           z = InRun(v) => RunLoad(wt, sj, vk, v) <= RunLoad(wt, sk, wk, v),
         \A v \in Worker, d \in Body :
           z = InTodo(v, d) /\ d \in vk[v].todo => d \in wk[v].todo \/ wt[d] = 0
  PROVE  g[z] <= f[z]
<1>1. f[z] \in Nat /\ g[z] \in Nat
  BY DEF Claims
<1>2. CASE \E d \in Body, k \in Nat : z = InQueue(d, k)
  <2>1. PICK d \in Body, k \in Nat : z = InQueue(d, k)
    BY <1>2
  <2>2. /\ f[z] = IF 1 <= k /\ k <= q[d] THEN wt[d] ELSE 0
        /\ g[z] = IF 1 <= k /\ k <= r[d] THEN wt[d] ELSE 0
    BY <2>1 DEF Claims
  <2>3. 1 <= k /\ k <= r[d] => k <= q[d]
    BY <2>1
  <2>4. QED BY <1>1, <2>2, <2>3
<1>3. CASE \E d \in Body : z = InSchedule(d)
  <2>1. PICK d \in Body : z = InSchedule(d)
    BY <1>3
  <2>2. /\ f[z] = IF d \in s THEN wt[d] ELSE 0
        /\ g[z] = IF d \in t THEN wt[d] ELSE 0
    BY <2>1 DEF Claims
  <2>3. QED BY <1>1, <2>1, <2>2
<1>4. CASE \E v \in Worker : z = InRun(v)
  BY <1>4 DEF Claims
<1>5. CASE \E v \in Worker, d \in Body : z = InTodo(v, d)
  <2>1. PICK v \in Worker, d \in Body : z = InTodo(v, d)
    BY <1>5
  <2>2. /\ f[z] = IF d \in wk[v].todo THEN wt[d] ELSE 0
        /\ g[z] = IF d \in vk[v].todo THEN wt[d] ELSE 0
    BY <2>1 DEF Claims
  <2>3. QED BY <1>1, <2>1, <2>2
<1>6. QED BY <1>2, <1>3, <1>4, <1>5, HolderKinds

(* A run has handed b on, and a queue has one more copy of it. *)
HandedOn(wk, vk, w, b) ==
  /\ b \in wk[w].todo
  /\ \A v \in Worker : v # w => vk[v] = wk[v]
  /\ vk[w].pc = wk[w].pc /\ vk[w].body = wk[w].body /\ vk[w].todo = wk[w].todo \ {b}

OneMoreOf(q, r, b) == r[b] = q[b] + 1 /\ \A d \in Body : d # b => r[d] = q[d]

(* No worker claims more than before: each either stands where it stood or  *)
(* has put down all it held.                                                *)
NoNewClaims(sk, sj, wk, vk) ==
  \A v \in Worker :
    \/ vk[v] = wk[v] /\ sj[v] = sk[v]
    \/ vk[v].pc \in {"idle", "publishing"} /\ vk[v].todo = {}

(* A copy that arrives is worth its body. *)
LEMMA ArriveCredit ==
  ASSUME NEW wt \in [Body -> Nat], NEW sk, NEW sj,
         NEW q \in [Body -> Nat], NEW r, NEW s, NEW t, NEW wk, NEW vk,
         NEW f, NEW g, Claims(f, wt, sk, q, s, wk), Claims(g, wt, sj, r, t, vk),
         Finite(f),
         NEW b \in Body, OneMoreOf(q, r, b), t \subseteq s, NoNewClaims(sk, sj, wk, vk)
  PROVE  /\ Finite(g) /\ Total(g) \in Nat /\ Total(f) \in Nat
         /\ Total(g) <= Total(f) + wt[b]
<1>1. f \in [Holder -> Nat] /\ g \in [Holder -> Nat]
  BY DEF Claims
<1>2. /\ q[b] \in Nat /\ q[b] + 1 \in Nat /\ r[b] = q[b] + 1
      /\ \A d \in Body : d # b => r[d] = q[d]
  BY DEF OneMoreOf
<1>3. PICK x \in Holder : x = InQueue(b, q[b] + 1)
  BY <1>2, HolderKinds
<1>4. f[x] = 0 /\ g[x] = wt[b] /\ wt[b] \in Nat
  BY <1>2, <1>3 DEF Claims
<1>5. \A z \in Holder : z # x => g[z] <= f[z]
  <2> SUFFICES ASSUME NEW z \in Holder, z # x PROVE g[z] <= f[z]
    OBVIOUS
  <2>1. \A d \in Body, k \in Nat : InQueue(d, k) # x /\ 1 <= k /\ k <= r[d] => k <= q[d]
    <3> SUFFICES ASSUME NEW d \in Body, NEW k \in Nat, InQueue(d, k) # x, k <= r[d]
                 PROVE  k <= q[d]
      OBVIOUS
    <3>1. d # b \/ k # q[b] + 1
      BY <1>3
    <3>2. QED BY <1>2, <3>1
  <2>2. \A v \in Worker : RunLoad(wt, sj, vk, v) <= RunLoad(wt, sk, wk, v)
    <3> SUFFICES ASSUME NEW v \in Worker
                 PROVE  RunLoad(wt, sj, vk, v) <= RunLoad(wt, sk, wk, v)
      OBVIOUS
    <3>1. RunLoad(wt, sj, vk, v) \in Nat /\ RunLoad(wt, sk, wk, v) \in Nat
      BY DEF Claims
    <3>2. \/ RunLoad(wt, sj, vk, v) = RunLoad(wt, sk, wk, v)
          \/ RunLoad(wt, sj, vk, v) = 0
      BY DEF RunLoad, NoNewClaims
    <3>3. QED BY <3>1, <3>2
  <2>3. \A v \in Worker, d \in Body : d \in vk[v].todo => d \in wk[v].todo
    BY DEF NoNewClaims
  <2>4. \A d \in Body : d \in t => d \in s
    OBVIOUS
  <2>5. QED BY <2>1, <2>2, <2>3, <2>4, KindByKind
<1>6. /\ Finite(g) /\ Total(g) \in Nat /\ Total(f) \in Nat
      /\ Total(g) + f[x] <= Total(f) + g[x]
  BY <1>1, <1>5, TotalChange DEF Finite
<1>7. QED BY <1>4, <1>6

(* A schedule that fires hands its claim to the queue. *)
LEMMA FireCredit ==
  ASSUME NEW wt \in [Body -> Nat], NEW sk, NEW sj,
         NEW q \in [Body -> Nat], NEW r, NEW s, NEW t, NEW wk, NEW vk,
         NEW f, NEW g, Claims(f, wt, sk, q, s, wk), Claims(g, wt, sj, r, t, vk),
         Finite(f),
         NEW b \in s, b \in Body, r[b] = q[b] + 1, \A d \in Body : d # b => r[d] = q[d],
         t = s \ {b}, vk = wk, sj = sk
  PROVE  /\ Finite(g) /\ Total(g) \in Nat /\ Total(f) \in Nat
         /\ Total(g) <= Total(f)
<1>1. f \in [Holder -> Nat] /\ g \in [Holder -> Nat]
  BY DEF Claims
<1>2. /\ q[b] \in Nat /\ q[b] + 1 \in Nat /\ r[b] = q[b] + 1
      /\ \A d \in Body : d # b => r[d] = q[d]
  OBVIOUS
<1>3. PICK x \in Holder : x = InQueue(b, q[b] + 1)
  BY <1>2, HolderKinds
<1>4. PICK y \in Holder : y = InSchedule(b)
  BY HolderKinds
<1>5. x # y
  BY <1>3, <1>4 DEF InQueue, InSchedule
<1>6. /\ f[x] = 0 /\ g[x] = wt[b] /\ f[y] = wt[b] /\ g[y] = 0 /\ wt[b] \in Nat
  BY <1>2, <1>3, <1>4 DEF Claims
<1>7. \A z \in Holder : z # x /\ z # y => g[z] <= f[z]
  <2> SUFFICES ASSUME NEW z \in Holder, z # x, z # y PROVE g[z] <= f[z]
    OBVIOUS
  <2>1. \A d \in Body, k \in Nat : InQueue(d, k) # x /\ 1 <= k /\ k <= r[d] => k <= q[d]
    <3> SUFFICES ASSUME NEW d \in Body, NEW k \in Nat, InQueue(d, k) # x, k <= r[d]
                 PROVE  k <= q[d]
      OBVIOUS
    <3>1. d # b \/ k # q[b] + 1
      BY <1>3
    <3>2. QED BY <1>2, <3>1
  <2>2. \A v \in Worker : RunLoad(wt, sj, vk, v) <= RunLoad(wt, sk, wk, v)
    BY DEF Claims
  <2>3. QED BY <2>1, <2>2, KindByKind
<1>8. g[x] + g[y] <= f[x] + f[y]
  BY <1>6
<1>9. QED BY <1>1, <1>5, <1>7, <1>8, TotalShift DEF Finite

(* A delivery moves a claim from the queue to the run. *)
LEMMA DeliverCredit ==
  ASSUME NEW wt \in [Body -> Nat], NEW sk, NEW sj,
         NEW q \in [Body -> Nat], NEW r, NEW s, NEW t, NEW wk, NEW vk,
         NEW f, NEW g, Claims(f, wt, sk, q, s, wk), Claims(g, wt, sj, r, t, vk),
         Finite(f),
         NEW b \in Body, NEW w \in Worker, q[b] > 0, t = s,
         r[b] = q[b] - 1, \A d \in Body : d # b => r[d] = q[d],
         \A v \in Worker : v # w => vk[v] = wk[v] /\ sj[v] = sk[v],
         vk[w].pc = "started", vk[w].body = b, vk[w].todo = {}
  PROVE  /\ Finite(g) /\ Total(g) \in Nat /\ Total(f) \in Nat
         /\ Total(g) <= Total(f)
<1>1. f \in [Holder -> Nat] /\ g \in [Holder -> Nat]
  BY DEF Claims
<1>2. /\ q[b] \in Nat /\ r[b] = q[b] - 1
      /\ \A d \in Body : q[d] \in Nat /\ (d # b => r[d] = q[d])
  OBVIOUS
<1>3. PICK x \in Holder : x = InRun(w)
  BY HolderKinds
<1>4. PICK y \in Holder : y = InQueue(b, q[b])
  BY <1>2, HolderKinds
<1>5. x # y
  BY <1>3, <1>4 DEF InQueue, InRun
<1>6. /\ f[y] = wt[b] /\ g[y] = 0 /\ wt[b] \in Nat
  BY <1>2, <1>4 DEF Claims
<1>7. g[x] = wt[b] /\ f[x] \in Nat
  BY <1>1, <1>3 DEF Claims, RunLoad
<1>8. \A z \in Holder : z # x /\ z # y => g[z] <= f[z]
  <2> SUFFICES ASSUME NEW z \in Holder, z # x, z # y PROVE g[z] <= f[z]
    OBVIOUS
  <2>1. \A d \in Body, k \in Nat : 1 <= k /\ k <= r[d] => k <= q[d]
    BY <1>2
  <2>2. \A v \in Worker : InRun(v) # x
                            => RunLoad(wt, sj, vk, v) <= RunLoad(wt, sk, wk, v)
    <3> SUFFICES ASSUME NEW v \in Worker, v # w
                 PROVE  RunLoad(wt, sj, vk, v) <= RunLoad(wt, sk, wk, v)
      BY <1>3
    <3>1. RunLoad(wt, sj, vk, v) = RunLoad(wt, sk, wk, v)
      BY DEF RunLoad
    <3>2. QED BY <3>1 DEF Claims
  <2>3. \A v \in Worker, d \in Body : d \in vk[v].todo => d \in wk[v].todo
    OBVIOUS
  <2>4. QED BY <2>1, <2>2, <2>3, KindByKind
<1>9. g[x] + g[y] <= f[x] + f[y]
  BY <1>6, <1>7
<1>10. QED BY <1>1, <1>5, <1>8, <1>9, TotalShift DEF Finite

(* A run that hands nothing new on changes what it holds itself. *)
LEMMA RunCredit ==
  ASSUME NEW wt \in [Body -> Nat], NEW sk, NEW sj,
         NEW q, NEW r, NEW s, NEW t, NEW wk, NEW vk,
         NEW f, NEW g, Claims(f, wt, sk, q, s, wk), Claims(g, wt, sj, r, t, vk),
         Finite(f),
         NEW w \in Worker, t = s, \A d \in Body : r[d] = q[d],
         vk[w].todo \subseteq wk[w].todo,
         \A v \in Worker : v # w => vk[v] = wk[v] /\ sj[v] = sk[v]
  PROVE  /\ Finite(g) /\ Total(g) \in Nat /\ Total(f) \in Nat
         /\ RunLoad(wt, sk, wk, w) \in Nat /\ RunLoad(wt, sj, vk, w) \in Nat
         /\ Total(g) + RunLoad(wt, sk, wk, w) <= Total(f) + RunLoad(wt, sj, vk, w)
<1>1. f \in [Holder -> Nat] /\ g \in [Holder -> Nat]
  BY DEF Claims
<1>2. PICK x \in Holder : x = InRun(w)
  BY HolderKinds
<1>3. /\ f[x] = RunLoad(wt, sk, wk, w) /\ g[x] = RunLoad(wt, sj, vk, w)
      /\ f[x] \in Nat /\ g[x] \in Nat
  BY <1>2 DEF Claims
<1>4. \A z \in Holder : z # x => g[z] <= f[z]
  <2> SUFFICES ASSUME NEW z \in Holder, z # x PROVE g[z] <= f[z]
    OBVIOUS
  <2>1. \A v \in Worker : InRun(v) # x
                            => RunLoad(wt, sj, vk, v) <= RunLoad(wt, sk, wk, v)
    <3> SUFFICES ASSUME NEW v \in Worker, v # w
                 PROVE  RunLoad(wt, sj, vk, v) <= RunLoad(wt, sk, wk, v)
      BY <1>2
    <3>1. RunLoad(wt, sj, vk, v) = RunLoad(wt, sk, wk, v)
      BY DEF RunLoad
    <3>2. QED BY <3>1 DEF Claims
  <2>2. \A v \in Worker, d \in Body : d \in vk[v].todo => d \in wk[v].todo
    OBVIOUS
  <2>3. QED BY <2>1, <2>2, KindByKind
<1>5. /\ Finite(g) /\ Total(g) \in Nat /\ Total(f) \in Nat
      /\ Total(g) + f[x] <= Total(f) + g[x]
  BY <1>1, <1>4, TotalChange DEF Finite
<1>6. QED BY <1>3, <1>5

(* A decision may claim what the run held, for one body that counts. *)
LEMMA DecideCredit ==
  ASSUME NEW wt \in [Body -> Nat], NEW sk, NEW sj,
         NEW q, NEW r, NEW s, NEW t, NEW wk, NEW vk,
         NEW f, NEW g, Claims(f, wt, sk, q, s, wk), Claims(g, wt, sj, r, t, vk),
         Finite(f),
         NEW w \in Worker, NEW c \in Body, t = s, \A d \in Body : r[d] = q[d],
         vk[w].pc = "publishing",
         \A v \in Worker : v # w => vk[v] = wk[v] /\ sj[v] = sk[v],
         \A b \in vk[w].todo : b # c => wt[b] = 0,
         c \in vk[w].todo => wt[c] <= RunLoad(wt, sk, wk, w)
  PROVE  /\ Finite(g) /\ Total(g) \in Nat /\ Total(f) \in Nat
         /\ Total(g) <= Total(f)
<1>1. f \in [Holder -> Nat] /\ g \in [Holder -> Nat]
  BY DEF Claims
<1>2. PICK x \in Holder : x = InTodo(w, c)
  BY HolderKinds
<1>3. PICK y \in Holder : y = InRun(w)
  BY HolderKinds
<1>4. x # y
  BY <1>2, <1>3 DEF InRun, InTodo
<1>5. f[y] = RunLoad(wt, sk, wk, w) /\ g[y] = 0
  BY <1>3 DEF Claims, RunLoad
<1>6. g[x] = IF c \in vk[w].todo THEN wt[c] ELSE 0
  BY <1>2 DEF Claims
<1>7. \A z \in Holder : z # x /\ z # y => g[z] <= f[z]
  <2> SUFFICES ASSUME NEW z \in Holder, z # x, z # y PROVE g[z] <= f[z]
    OBVIOUS
  <2>1. \A v \in Worker : InRun(v) # y
                            => RunLoad(wt, sj, vk, v) <= RunLoad(wt, sk, wk, v)
    <3> SUFFICES ASSUME NEW v \in Worker, v # w
                 PROVE  RunLoad(wt, sj, vk, v) <= RunLoad(wt, sk, wk, v)
      BY <1>3
    <3>1. RunLoad(wt, sj, vk, v) = RunLoad(wt, sk, wk, v)
      BY DEF RunLoad
    <3>2. QED BY <3>1 DEF Claims
  <2>2. \A v \in Worker, d \in Body :
          InTodo(v, d) # x /\ d \in vk[v].todo => d \in wk[v].todo \/ wt[d] = 0
    BY <1>2
  <2>3. QED BY <2>1, <2>2, KindByKind
<1>8. g[x] + g[y] <= f[x] + f[y]
  BY <1>1, <1>5, <1>6
<1>9. QED BY <1>1, <1>4, <1>7, <1>8, TotalShift DEF Finite

(* What is published at once is claimed by the queue. *)
LEMMA SendCredit ==
  ASSUME NEW wt \in [Body -> Nat], NEW sk,
         NEW q \in [Body -> Nat], NEW r, NEW s, NEW t, NEW wk, NEW vk,
         NEW f, NEW g, Claims(f, wt, sk, q, s, wk), Claims(g, wt, sk, r, t, vk),
         Finite(f), NEW w \in Worker, NEW b \in Body, HandedOn(wk, vk, w, b),
         t \subseteq s, OneMoreOf(q, r, b)
  PROVE  Finite(g) /\ Total(g) \in Nat /\ Total(f) \in Nat /\ Total(g) <= Total(f)
<1>1. f \in [Holder -> Nat] /\ g \in [Holder -> Nat]
  BY DEF Claims
<1>2. PICK y \in Holder : y = InTodo(w, b)
  BY HolderKinds
<1>3. f[y] = wt[b] /\ g[y] = 0
  BY <1>2 DEF Claims, HandedOn
<1>4. wt[b] \in Nat
  OBVIOUS
<1>5. \A v \in Worker : RunLoad(wt, sk, vk, v) <= RunLoad(wt, sk, wk, v)
  <2> SUFFICES ASSUME NEW v \in Worker
               PROVE  RunLoad(wt, sk, vk, v) <= RunLoad(wt, sk, wk, v)
    OBVIOUS
  <2>1. RunLoad(wt, sk, vk, v) = RunLoad(wt, sk, wk, v)
    BY DEF RunLoad, HandedOn
  <2>2. QED BY <2>1 DEF Claims
<1>6. \A v \in Worker, d \in Body : d \in vk[v].todo => d \in wk[v].todo
  BY DEF HandedOn
<1>7. q[b] \in Nat /\ q[b] + 1 \in Nat
  OBVIOUS
<1>8. PICK x \in Holder : x = InQueue(b, q[b] + 1)
  BY <1>7, HolderKinds
<1>9. x # y
  BY <1>2, <1>8 DEF InQueue, InTodo
<1>10. g[x] = wt[b] /\ f[x] = 0
  BY <1>7, <1>8 DEF Claims, OneMoreOf
<1>11. \A d \in Body, k \in Nat : InQueue(d, k) # x /\ 1 <= k /\ k <= r[d] => k <= q[d]
  <2> SUFFICES ASSUME NEW d \in Body, NEW k \in Nat, InQueue(d, k) # x, k <= r[d]
               PROVE  k <= q[d]
    OBVIOUS
  <2>1. d # b \/ k # q[b] + 1
    BY <1>8
  <2>2. QED BY <1>7, <2>1 DEF OneMoreOf
<1>12. \A z \in Holder : z # x /\ z # y => g[z] <= f[z]
  <2> SUFFICES ASSUME NEW z \in Holder, z # x, z # y PROVE g[z] <= f[z]
    OBVIOUS
  <2>1. QED BY <1>5, <1>6, <1>11, KindByKind
<1>13. g[x] + g[y] <= f[x] + f[y]
  BY <1>3, <1>4, <1>10
<1>14. QED BY <1>1, <1>9, <1>12, <1>13, TotalShift DEF Finite

(* What is published through a schedule is claimed by it; one that exists  *)
(* already claims nothing more.                                            *)
LEMMA ScheduleCredit ==
  ASSUME NEW wt \in [Body -> Nat], NEW sk,
         NEW q, NEW r, NEW s, NEW t, NEW wk, NEW vk,
         NEW f, NEW g, Claims(f, wt, sk, q, s, wk), Claims(g, wt, sk, r, t, vk),
         Finite(f), NEW w \in Worker, NEW b \in Body, HandedOn(wk, vk, w, b),
         t \subseteq s \cup {b}, \A d \in Body : r[d] = q[d]
  PROVE  Finite(g) /\ Total(g) \in Nat /\ Total(f) \in Nat /\ Total(g) <= Total(f)
<1>1. f \in [Holder -> Nat] /\ g \in [Holder -> Nat]
  BY DEF Claims
<1>2. PICK y \in Holder : y = InTodo(w, b)
  BY HolderKinds
<1>3. f[y] = wt[b] /\ g[y] = 0
  BY <1>2 DEF Claims, HandedOn
<1>4. wt[b] \in Nat
  OBVIOUS
<1>5. \A v \in Worker : RunLoad(wt, sk, vk, v) <= RunLoad(wt, sk, wk, v)
  <2> SUFFICES ASSUME NEW v \in Worker
               PROVE  RunLoad(wt, sk, vk, v) <= RunLoad(wt, sk, wk, v)
    OBVIOUS
  <2>1. RunLoad(wt, sk, vk, v) = RunLoad(wt, sk, wk, v)
    BY DEF RunLoad, HandedOn
  <2>2. QED BY <2>1 DEF Claims
<1>6. \A v \in Worker, d \in Body : d \in vk[v].todo => d \in wk[v].todo
  BY DEF HandedOn
<1>7. PICK x \in Holder : x = InSchedule(b)
  BY HolderKinds
<1>8. x # y
  BY <1>2, <1>7 DEF InSchedule, InTodo
<1>9. g[x] = 0 \/ g[x] = wt[b]
  BY <1>7 DEF Claims
<1>10. \A d \in Body : InSchedule(d) # x /\ d \in t => d \in s
  BY <1>7
<1>11. \A z \in Holder : z # x /\ z # y => g[z] <= f[z]
  <2> SUFFICES ASSUME NEW z \in Holder, z # x, z # y PROVE g[z] <= f[z]
    OBVIOUS
  <2>1. QED BY <1>5, <1>6, <1>10, KindByKind
<1>12. g[x] + g[y] <= f[x] + f[y]
  BY <1>1, <1>3, <1>4, <1>9
<1>13. QED BY <1>1, <1>8, <1>11, <1>12, TotalShift DEF Finite

(* Where nothing is queued, scheduled or running, nothing is claimed. *)
LEMMA NoClaims ==
  ASSUME NEW wt, NEW sk, NEW q \in [Body -> Nat], NEW s, NEW wk,
         NEW f, Claims(f, wt, sk, q, s, wk),
         \A d \in Body : q[d] = 0 /\ d \notin s,
         \A v \in Worker : wk[v].pc = "idle" /\ wk[v].todo = {}
  PROVE  Finite(f) /\ Total(f) = 0
<1>1. f \in [Holder -> Nat]
  BY DEF Claims
<1>2. \A z \in Holder : f[z] = 0
  <2>1. \A d \in Body, k \in Nat : f[InQueue(d, k)] = 0
    BY DEF Claims
  <2>2. \A d \in Body : f[InSchedule(d)] = 0
    BY DEF Claims
  <2>3. \A v \in Worker : f[InRun(v)] = 0
    BY DEF Claims, RunLoad
  <2>4. \A v \in Worker, d \in Body : f[InTodo(v, d)] = 0
    BY DEF Claims
  <2>5. QED BY <2>1, <2>2, <2>3, <2>4, HolderKinds
<1>3. Spread(f) = {}
  <2> SUFFICES ASSUME NEW e \in Spread(f) PROVE FALSE
    OBVIOUS
  <2>1. PICK z \in Holder, j \in Nat : e = <<z, j>>
    BY <1>1, SpreadPoints
  <2>2. 1 <= j /\ j <= f[z]
    BY <1>1, <2>1, SpreadPoints
  <2>3. QED BY <1>2, <2>1, <2>2
<1>4. QED BY <1>3, FS_EmptySet DEF Total, Finite

===============================================================================
