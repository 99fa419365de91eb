------------------------------ MODULE SelfPublish ------------------------------
(***************************************************************************)
(* An agent that feeds its own input queue: a delivered message is handled *)
(* by a worker, which computes the messages to hand on and then publishes  *)
(* them one await at a time, runtime.publish to the queue at once and      *)
(* runtime.publishDelayed through a one-shot schedule.                     *)
(*                                                                         *)
(* Delivery is what SqsShim shows of the shim: a message is acknowledged   *)
(* after its handler returned; it comes back, or goes to the dead-letter   *)
(* queue, when the handler throws or dies; and now and then it is handled  *)
(* again although a run of it is going on or was successful.  The receive  *)
(* count is abstracted: any failed delivery may be the last one.           *)
(***************************************************************************)
EXTENDS Naturals

CONSTANTS
  Body,      \* message bodies: stage and payload
  Delayed,   \* those handed on with publishDelayed
  Worker,    \* concurrent handler runs
  MaxFaults  \* bound on failed and repeated deliveries

(* What an agent that uses the loop gives for its constants. *)
SelfPublishAssumption ==
  Body # {} /\ Delayed \subseteq Body /\ MaxFaults \in Nat

VARIABLES
  queue,      \* queue[b]: visible copies of b in the input queue
  schedules,  \* pending one-shot schedules, by the body they deliver
  dead,       \* bodies in the dead-letter queue
  worker,     \* worker[w]: one handler run
  settled,    \* bodies a handler run of which was acknowledged (history)
  owed,       \* bodies an acknowledged run had to hand on (history)
  faults

deliveryVars == <<queue, schedules, dead, worker, settled, owed, faults>>

Work == [pc : {"idle", "started", "skill", "publishing"},
         body : Body, targets : SUBSET Body, todo : SUBSET Body]

NoWork == [pc |-> "idle", body |-> CHOOSE b \in Body : TRUE,
           targets |-> {}, todo |-> {}]

DeliveryTypeOK ==
  /\ queue \in [Body -> Nat]
  /\ schedules \subseteq Delayed /\ dead \subseteq Body
  /\ worker \in [Worker -> Work]
  /\ settled \subseteq Body /\ owed \subseteq Body
  /\ faults \in Nat

DeliveryInit ==
  /\ queue = [b \in Body |-> 0]
  /\ schedules = {} /\ dead = {}
  /\ worker = [w \in Worker |-> NoWork]
  /\ settled = {} /\ owed = {} /\ faults = 0

Busy(w) == worker[w].pc # "idle"

---------------------------------------------------------------------------
(* The publisher *)

(* Seeded fault: a name that forgets the payload. *)
deriveScheduleNameOfStage(b) == b.stage

(* The schedule's name hashes agent, stage and payload: one name per body. *)
deriveScheduleName(b) == b

(* Effect of publish: one more copy in the queue. *)
Sent(b) == [queue EXCEPT ![b] = @ + 1]

(* Effect of publishDelayed: CreateSchedule, a conflict counts as success. *)
Scheduled(b) ==
  IF \E s \in schedules : deriveScheduleName(s) = deriveScheduleName(b)
    THEN schedules ELSE schedules \cup {b}

HandOn(b) ==
  \/ b \in Delayed /\ schedules' = Scheduled(b) /\ UNCHANGED queue
  \/ b \notin Delayed /\ queue' = Sent(b) /\ UNCHANGED schedules

(* Seeded fault: a schedule that outlives its firing. *)
FireKeeps(b) ==
  /\ b \in schedules
  /\ queue' = Sent(b)
  /\ UNCHANGED <<schedules, dead, worker, settled, owed, faults>>

(* A one-shot schedule fires and deletes itself. *)
Fire(b) ==
  /\ b \in schedules
  /\ schedules' = schedules \ {b}
  /\ queue' = Sent(b)
  /\ UNCHANGED <<dead, worker, settled, owed, faults>>

(* Someone else puts a message into the queue. *)
Arrive(b) ==
  /\ queue' = Sent(b)
  /\ UNCHANGED <<schedules, dead, worker, settled, owed, faults>>

---------------------------------------------------------------------------
(* One handler run *)

Deliver(w, b) ==
  /\ ~Busy(w) /\ queue[b] > 0
  /\ queue' = [queue EXCEPT ![b] = @ - 1]
  /\ worker' = [worker EXCEPT ![w] =
                 [pc |-> "started", body |-> b, targets |-> {}, todo |-> {}]]
  /\ UNCHANGED <<schedules, dead, settled, owed, faults>>

(* The handler awaits a working copy and a coding agent. *)
RunSkill(w) ==
  /\ worker[w].pc = "started"
  /\ worker' = [worker EXCEPT ![w].pc = "skill"]
  /\ UNCHANGED <<queue, schedules, dead, settled, owed, faults>>

(* The handler knows what it hands on. *)
Decide(w, targets) ==
  /\ worker[w].pc \in {"started", "skill"}
  /\ worker' = [worker EXCEPT ![w] =
                 [pc |-> "publishing", body |-> @.body,
                  targets |-> targets, todo |-> targets]]
  /\ UNCHANGED <<queue, schedules, dead, settled, owed, faults>>

Publish(w, b) ==
  /\ worker[w].pc = "publishing" /\ b \in worker[w].todo
  /\ HandOn(b)
  /\ worker' = [worker EXCEPT ![w].todo = @ \ {b}]
  /\ UNCHANGED <<dead, settled, owed, faults>>

Finish(w) ==
  /\ worker[w].pc = "publishing" /\ worker[w].todo = {}
  /\ worker' = [worker EXCEPT ![w] = NoWork]
  /\ settled' = settled \cup {worker[w].body}
  /\ owed' = owed \cup worker[w].targets
  /\ UNCHANGED <<queue, schedules, dead, faults>>

Fault ==
  /\ faults < MaxFaults
  /\ faults' = faults + 1

(* Seeded fault: a failed run counts as done, its message does not return. *)
FailAcknowledged(w) ==
  /\ Busy(w) /\ Fault
  /\ worker' = [worker EXCEPT ![w] = NoWork]
  /\ UNCHANGED <<queue, schedules, dead, settled, owed>>

(* The run throws or dies: its message comes back or is dead-lettered.     *)
Fail(w) ==
  /\ Busy(w) /\ Fault
  /\ \/ queue' = Sent(worker[w].body) /\ UNCHANGED dead
     \/ dead' = dead \cup {worker[w].body} /\ UNCHANGED queue
  /\ worker' = [worker EXCEPT ![w] = NoWork]
  /\ UNCHANGED <<schedules, settled, owed>>

(* The run throws on every delivery of its message alike (a payload that   *)
(* does not parse): the last delivery takes it to the dead-letter queue.   *)
Reject(w) ==
  /\ worker[w].pc = "started"
  /\ dead' = dead \cup {worker[w].body}
  /\ worker' = [worker EXCEPT ![w] = NoWork]
  /\ UNCHANGED <<queue, schedules, settled, owed, faults>>

(* A publish is applied but throws: what was handed on stays handed on.    *)
PublishThrows(w, b) ==
  /\ worker[w].pc = "publishing" /\ b \in worker[w].todo /\ Fault
  /\ \/ b \in Delayed /\ schedules' = Scheduled(b) /\ queue' = Sent(worker[w].body)
     \/ /\ b \notin Delayed /\ UNCHANGED schedules
        /\ queue' = [Sent(b) EXCEPT ![worker[w].body] = @ + 1]
  /\ worker' = [worker EXCEPT ![w] = NoWork]
  /\ UNCHANGED <<dead, settled, owed>>

(* The message becomes visible although this run of it goes on, or will    *)
(* have been successful.                                                   *)
Redeliver(w) ==
  /\ Busy(w) /\ Fault
  /\ queue' = Sent(worker[w].body)
  /\ UNCHANGED <<schedules, dead, worker, settled, owed>>

---------------------------------------------------------------------------
(* The loop, whatever the handlers decide *)

Run(w) ==
  \/ \E b \in Body : Deliver(w, b) \/ Publish(w, b) \/ PublishThrows(w, b)
  \/ RunSkill(w) \/ Finish(w) \/ Reject(w) \/ Fail(w) \/ Redeliver(w)
  \/ \E targets \in SUBSET Body : Decide(w, targets)

DeliveryNext ==
  \/ \E b \in Body : Arrive(b) \/ Fire(b)
  \/ \E w \in Worker : Run(w)

DeliverySpec == DeliveryInit /\ [][DeliveryNext]_deliveryVars

---------------------------------------------------------------------------
(* Properties *)

Pending(b) ==
  \/ queue[b] > 0 \/ b \in schedules \/ b \in dead
  \/ \E w \in Worker : Busy(w) /\ worker[w].body = b

(* What an acknowledged run had to hand on is on its way, was handled, or  *)
(* lies in the dead-letter queue: neither a failed publish, nor a retry    *)
(* that starts over, nor a schedule that already exists drops a message.   *)
Reached(b) == b \in settled \/ Pending(b)

NothingOwedIsLost == \A b \in owed : Reached(b)

(* Why: in a run that goes on, each target is still to be handed on or was *)
(* reached, whatever other runs, failures and repeated deliveries did to   *)
(* it meanwhile; nothing takes a message out of the loop but a run of it.  *)
RunsInOrder ==
  \A w \in Worker :
    /\ worker[w].pc # "publishing" => worker[w].targets = {} /\ worker[w].todo = {}
    /\ \A b \in worker[w].targets : b \in worker[w].todo \/ Reached(b)
=================================================================================
