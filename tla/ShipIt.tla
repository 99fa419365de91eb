--------------------------------- MODULE ShipIt ---------------------------------
(***************************************************************************)
(* ship-it: ticket events come in from the webhook normalizer; the handler *)
(* gates them by the project's opt-in and the ticket's own, picks a step by*)
(* the ticket's status, and runs the step's skill if the step is released. *)
(* code-it may open a draft PR, which a chain of revisits then follows.    *)
(* Delivery and publishing are SelfPublish; catalog, tickets, GitHub and   *)
(* skills are external.  A PR is named by its ticket: code-it works on the *)
(* branch ship-it/<ticketKey>.                                             *)
(***************************************************************************)
EXTENDS Naturals

CONSTANTS
  TicketRequest,  \* ticket events: [ticket, status, admitted, pr, valid]
  Slice,          \* the project in the catalog view: [inView, enabled, overrides, map]
  Release,        \* deployed settings of the release switches: sets of steps
  MAX_REVISIT_COUNT,
  Worker, MaxFaults,
  MaxEvents,      \* bound on ticket events, catalog changes and deployments
  MaxRevisits     \* the histories count no further

VARIABLES
  shipQueue, shipSchedules, shipDead, shipWorker,
  shipSettled, shipOwed, shipFaults,  \* as in SelfPublish
  slice,       \* the project's extensions["ship-it"] in the snapshot
  released,    \* SHIP_IT_STEPS of the deployed code
  step,        \* step[w]: the step whose skill run w awaits
  codeRuns,    \* codeRuns[t]: code-it runs of a ticket (history)
  ciRevisits,  \* ciRevisits[t]: revisit skill runs of its PR (history)
  events

agentVars == <<slice, released, step, codeRuns, ciRevisits, events>>
vars == <<shipQueue, shipSchedules, shipDead, shipWorker, shipSettled, shipOwed, shipFaults,
          slice, released, step, codeRuns, ciRevisits, events>>

Ticket == {r.ticket : r \in TicketRequest}

InitBody(r) == [stage |-> "init", request |-> r]
Revisit(t, n) == [stage |-> "revisit", ticket |-> t, count |-> n]

Delayed == {Revisit(t, n) : t \in Ticket, n \in 0 .. MAX_REVISIT_COUNT}

Body == {InitBody(r) : r \in TicketRequest} \cup Delayed

SP == INSTANCE SelfPublish WITH
  queue <- shipQueue, schedules <- shipSchedules, dead <- shipDead, worker <- shipWorker,
  settled <- shipSettled, owed <- shipOwed, faults <- shipFaults

(* The steps a runner is registered for; mock-it-up has none. *)
STEP_RUNNERS == {"code-it", "groom-it", "spec-it", "review-it", "validate-it"}

TypeOK ==
  /\ SP!DeliveryTypeOK
  /\ slice \in Slice
  /\ released \in Release
  /\ step \in [Worker -> STEP_RUNNERS \cup {"none"}]
  /\ codeRuns \in [Ticket -> Nat] /\ ciRevisits \in [Ticket -> Nat]
  /\ events \in Nat

Init ==
  /\ SP!DeliveryInit
  /\ slice \in Slice
  /\ released \in Release
  /\ step = [w \in Worker |-> "none"]
  /\ codeRuns = [t \in Ticket |-> 0] /\ ciRevisits = [t \in Ticket |-> 0]
  /\ events = 0

---------------------------------------------------------------------------
(* The environment *)

(* The normalizer sends an event. *)
TicketEvent(r) ==
  /\ events < MaxEvents
  /\ events' = events + 1
  /\ SP!Arrive(InitBody(r))
  /\ UNCHANGED <<slice, released, step, codeRuns, ciRevisits>>

(* The container's snapshot changes, or another release is deployed. *)
Toggle ==
  /\ events < MaxEvents
  /\ events' = events + 1
  /\ \/ slice' \in Slice \ {slice} /\ UNCHANGED released
     \/ released' \in Release \ {released} /\ UNCHANGED slice
  /\ UNCHANGED <<shipQueue, shipSchedules, shipDead, shipWorker, shipSettled, shipOwed, shipFaults,
                 step, codeRuns, ciRevisits>>

---------------------------------------------------------------------------
(* init *)

At(w, pc, stage) == shipWorker[w].pc = pc /\ shipWorker[w].body.stage = stage

request(w) == shipWorker[w].body.request

(* A map the project brings replaces the default, it does not extend it.   *)
DEFAULT_STATUS_SKILL_MAP ==
  [status \in {"To Groom", "Ready for Implementation"} |->
     IF status = "To Groom" THEN "groom-it" ELSE "code-it"]

statusSkillMap ==
  IF slice.overrides THEN slice.map ELSE DEFAULT_STATUS_SKILL_MAP

(* Gate 1: the project opted in; gate 2: the ticket did, by label, mention *)
(* or because the event is a pull request's.                               *)
Admitted(r) == slice.inView /\ slice.enabled /\ r.admitted

(* The status maps to a step that is registered, released and has a runner.*)
Routed(r) ==
  /\ r.status \in DOMAIN statusSkillMap
  /\ statusSkillMap[r.status] \in released \cap STEP_RUNNERS

(* review-it without a pull request is skipped by its runner. *)
Runs(r) ==
  /\ Admitted(r) /\ Routed(r)
  /\ statusSkillMap[r.status] = "review-it" => r.pr

Counted(n) == IF n < MaxRevisits THEN n + 1 ELSE n

(* A request that does not parse throws, on every delivery alike.          *)
RejectInit(w) ==
  /\ At(w, "started", "init") /\ ~request(w).valid
  /\ SP!Reject(w)
  /\ UNCHANGED agentVars

(* A gate that does not hold is no failure: the message is done. *)
SkipInit(w) ==
  /\ At(w, "started", "init") /\ request(w).valid
  /\ ~Runs(request(w))
  /\ SP!Decide(w, {})
  /\ UNCHANGED agentVars

(* The step's runner syncs the working copy, if it wants one, and awaits   *)
(* its skill.                                                              *)
handleInit(w) ==
  /\ At(w, "started", "init") /\ request(w).valid
  /\ Runs(request(w))
  /\ SP!RunSkill(w)
  /\ step' = [step EXCEPT ![w] = statusSkillMap[request(w).status]]
  /\ codeRuns' = IF step'[w] = "code-it"
                   THEN [codeRuns EXCEPT ![request(w).ticket] = Counted(@)]
                   ELSE codeRuns
  /\ UNCHANGED <<slice, released, ciRevisits, events>>

(* groom-it, spec-it, review-it, validate-it: nothing follows. *)
AdvisoryReturns(w) ==
  /\ At(w, "skill", "init") /\ step[w] # "code-it"
  /\ SP!Decide(w, {})
  /\ step' = [step EXCEPT ![w] = "none"]
  /\ UNCHANGED <<slice, released, codeRuns, ciRevisits, events>>

FirstRevisit(t) == Revisit(t, 0)

(* code-it opened a PR and says which, or did not.                         *)
CodeItReturns(w) ==
  /\ At(w, "skill", "init") /\ step[w] = "code-it"
  /\ \E opened \in BOOLEAN :
       SP!Decide(w, IF opened THEN {FirstRevisit(request(w).ticket)} ELSE {})
  /\ step' = [step EXCEPT ![w] = "none"]
  /\ UNCHANGED <<slice, released, codeRuns, ciRevisits, events>>

---------------------------------------------------------------------------
(* revisit: neither the gates nor the release switch are asked again *)

handleRevisit(w) ==
  /\ At(w, "started", "revisit")
  /\ SP!RunSkill(w)
  /\ ciRevisits' = [ciRevisits EXCEPT ![shipWorker[w].body.ticket] = Counted(@)]
  /\ UNCHANGED <<slice, released, step, codeRuns, events>>

NextRevisit(b) ==
  IF b.count >= MAX_REVISIT_COUNT THEN {} ELSE {Revisit(b.ticket, b.count + 1)}

RevisitReturns(w) ==
  /\ At(w, "skill", "revisit")
  /\ \E again \in BOOLEAN :
       SP!Decide(w, IF again THEN NextRevisit(shipWorker[w].body) ELSE {})
  /\ UNCHANGED agentVars

---------------------------------------------------------------------------

Handle(w) ==
  \/ RejectInit(w) \/ SkipInit(w) \/ handleInit(w)
  \/ AdvisoryReturns(w) \/ CodeItReturns(w)
  \/ handleRevisit(w) \/ RevisitReturns(w)
  \/ (\E b \in Body : SP!Publish(w, b)) /\ UNCHANGED agentVars
  \/ SP!Finish(w) /\ UNCHANGED agentVars

Deliver(w, b) == SP!Deliver(w, b) /\ UNCHANGED agentVars

Fire(b) == SP!Fire(b) /\ UNCHANGED agentVars

Disturb(w) ==
  /\ \/ SP!Fail(w) /\ step' = [step EXCEPT ![w] = "none"]
     \/ SP!Redeliver(w) /\ UNCHANGED step
     \/ (\E b \in Body : SP!PublishThrows(w, b)) /\ UNCHANGED step
  /\ UNCHANGED <<slice, released, codeRuns, ciRevisits, events>>

Next ==
  \/ \E r \in TicketRequest : TicketEvent(r)
  \/ Toggle
  \/ \E b \in Body : Fire(b)
  \/ \E w \in Worker : Handle(w) \/ Disturb(w) \/ \E b \in Body : Deliver(w, b)

Spec == Init /\ [][Next]_vars

(* Schedules fire, the queue is polled, a handler run goes on or fails.    *)
Fairness ==
  /\ \A b \in Body : WF_vars(Fire(b)) /\ WF_vars(\E w \in Worker : Deliver(w, b))
  /\ \A w \in Worker : WF_vars(Handle(w) \/ Disturb(w))

---------------------------------------------------------------------------
(* Properties *)

(* Whatever repeats, fails or overlaps, each code-it run and each mishap   *)
(* gives a PR one chain of revisits at most.                               *)
ShipItRevisitBudget ==
  \A t \in Ticket :
    ciRevisits[t] <= (MAX_REVISIT_COUNT + 1) * (codeRuns[t] + shipFaults)

(* The loop ends once events and failures stop. *)
Quiet ==
  /\ \A b \in Body : shipQueue[b] = 0
  /\ shipSchedules = {}
  /\ \A w \in Worker : ~SP!Busy(w)
=================================================================================
