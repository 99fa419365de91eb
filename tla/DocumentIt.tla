------------------------------- MODULE DocumentIt -------------------------------
(***************************************************************************)
(* document-it: a recurring tick fans out one breakdown per opted-in       *)
(* project, and a breakdown has a skill audit the project's documents; its *)
(* report is logged and nothing follows.  Delivery and publishing are      *)
(* SelfPublish; the catalog and the skill are external.                    *)
(***************************************************************************)
EXTENDS Naturals

CONSTANTS
  Project, Worker, MaxFaults,
  MaxTicks,   \* bound on scheduler ticks
  MaxToggles  \* bound on changes of the catalog

VARIABLES
  docQueue, docSchedules, docDead, docWorker,
  docSettled, docOwed, docFaults,  \* as in SelfPublish
  enabled,  \* projects with extensions["document-it"].enabled === true
  docTicks, docToggles

agentVars == <<enabled, docTicks, docToggles>>
vars == <<docQueue, docSchedules, docDead, docWorker, docSettled, docOwed, docFaults,
          enabled, docTicks, docToggles>>

InitBody == [stage |-> "init"]
Breakdown(p) == [stage |-> "breakdown", project |-> p]

Body == {InitBody} \cup {Breakdown(p) : p \in Project}

(* Nothing is handed on with a delay. *)
Delayed == {}

SP == INSTANCE SelfPublish WITH
  queue <- docQueue, schedules <- docSchedules, dead <- docDead, worker <- docWorker,
  settled <- docSettled, owed <- docOwed, faults <- docFaults

TypeOK ==
  /\ SP!DeliveryTypeOK
  /\ enabled \subseteq Project
  /\ docTicks \in Nat /\ docToggles \in Nat

Init ==
  /\ SP!DeliveryInit
  /\ enabled \in SUBSET Project
  /\ docTicks = 0 /\ docToggles = 0

Tick ==
  /\ docTicks < MaxTicks
  /\ docTicks' = docTicks + 1
  /\ SP!Arrive(InitBody)
  /\ UNCHANGED <<enabled, docToggles>>

Toggle(p) ==
  /\ docToggles < MaxToggles
  /\ docToggles' = docToggles + 1
  /\ enabled' = IF p \in enabled THEN enabled \ {p} ELSE enabled \cup {p}
  /\ UNCHANGED <<docQueue, docSchedules, docDead, docWorker, docSettled, docOwed, docFaults, docTicks>>

---------------------------------------------------------------------------
(* The handler *)

At(w, pc, stage) == docWorker[w].pc = pc /\ docWorker[w].body.stage = stage

handleInit(w) ==
  /\ At(w, "started", "init")
  /\ SP!Decide(w, {Breakdown(p) : p \in enabled})
  /\ UNCHANGED agentVars

(* Not in the catalog's view, or no longer opted in: skipped, not failed.  *)
SkipBreakdown(w) ==
  /\ At(w, "started", "breakdown") /\ docWorker[w].body.project \notin enabled
  /\ SP!Decide(w, {})
  /\ UNCHANGED agentVars

handleBreakdown(w) ==
  /\ At(w, "started", "breakdown") /\ docWorker[w].body.project \in enabled
  /\ SP!RunSkill(w)
  /\ UNCHANGED agentVars

(* Seeded fault: an audit hands its project on to be audited again. *)
AuditRepeats(w) ==
  /\ At(w, "skill", "breakdown")
  /\ SP!Decide(w, {docWorker[w].body})
  /\ UNCHANGED agentVars

AuditReturns(w) ==
  /\ At(w, "skill", "breakdown")
  /\ SP!Decide(w, {})
  /\ UNCHANGED agentVars

Handle(w) ==
  \/ handleInit(w) \/ SkipBreakdown(w) \/ handleBreakdown(w) \/ AuditReturns(w)
  \/ (\E b \in Body : SP!Publish(w, b)) /\ UNCHANGED agentVars
  \/ SP!Finish(w) /\ UNCHANGED agentVars

Deliver(w, b) == SP!Deliver(w, b) /\ UNCHANGED agentVars

Disturb(w) ==
  /\ SP!Fail(w) \/ SP!Redeliver(w) \/ \E b \in Body : SP!PublishThrows(w, b)
  /\ UNCHANGED agentVars

Next ==
  \/ Tick
  \/ \E p \in Project : Toggle(p)
  \/ \E w \in Worker : Handle(w) \/ Disturb(w) \/ \E b \in Body : Deliver(w, b)

Spec == Init /\ [][Next]_vars

(* The queue is polled, a handler run goes on or fails. *)
Fairness ==
  /\ \A b \in Body : WF_vars(\E w \in Worker : Deliver(w, b))
  /\ \A w \in Worker : WF_vars(Handle(w) \/ Disturb(w))
---------------------------------------------------------------------------
(* Properties *)

(* Every breakdown of a tick is through. *)
Quiet == \A w \in Worker : ~SP!Busy(w) /\ \A b \in Body : docQueue[b] = 0
=================================================================================
