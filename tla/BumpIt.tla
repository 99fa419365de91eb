--------------------------------- MODULE BumpIt ---------------------------------
(***************************************************************************)
(* bump-it: a recurring tick fans out one breakdown per opted-in project;  *)
(* a breakdown lets a skill open draft PRs and schedules a revisit of each;*)
(* a revisit reschedules itself while its skill asks for it and the cap    *)
(* allows.  Delivery and publishing are SelfPublish; the catalog, GitHub   *)
(* and the skills are external.  A PR is named by project and alertRef; its*)
(* branch follows from them.                                               *)
(***************************************************************************)
EXTENDS Naturals, FiniteSets

CONSTANTS
  Project, Alert,
  REVISIT_CAP,
  Worker, MaxFaults,
  MaxTicks,    \* bound on scheduler ticks
  MaxToggles,  \* bound on changes of the catalog
  MaxRevisits  \* the history of revisits counts no further

ASSUME CapAssumption == REVISIT_CAP \in Nat /\ MaxRevisits \in Nat /\ MaxFaults \in Nat

VARIABLES
  queue, schedules, dead, worker, settled, owed, faults,  \* SelfPublish
  optedIn,   \* projects with extensions["bump-it"].enabled === true
  revisits,  \* revisits[p][a]: revisit skill runs of the PR (history)
  ticks, toggles

agentVars == <<optedIn, revisits, ticks, toggles>>
vars == <<queue, schedules, dead, worker, settled, owed, faults,
          optedIn, revisits, ticks, toggles>>

InitBody == [stage |-> "init"]
Breakdown(p) == [stage |-> "breakdown", project |-> p]
Revisit(p, a, n) == [stage |-> "revisit", project |-> p, alert |-> a, count |-> n]

Delayed == {Revisit(p, a, n) : p \in Project, a \in Alert, n \in 0 .. REVISIT_CAP}

Body == {InitBody} \cup {Breakdown(p) : p \in Project} \cup Delayed

SP == INSTANCE SelfPublish

TypeOK ==
  /\ SP!DeliveryTypeOK
  /\ optedIn \subseteq Project
  /\ revisits \in [Project -> [Alert -> Nat]]
  /\ ticks \in Nat /\ toggles \in Nat

Init ==
  /\ SP!DeliveryInit
  /\ optedIn \in SUBSET Project
  /\ revisits = [p \in Project |-> [a \in Alert |-> 0]]
  /\ ticks = 0 /\ toggles = 0

---------------------------------------------------------------------------
(* The environment *)

Tick ==
  /\ ticks < MaxTicks
  /\ ticks' = ticks + 1
  /\ SP!Arrive(InitBody)
  /\ UNCHANGED <<optedIn, revisits, toggles>>

(* The container's catalog snapshot changes. *)
Toggle(p) ==
  /\ toggles < MaxToggles
  /\ toggles' = toggles + 1
  /\ optedIn' = IF p \in optedIn THEN optedIn \ {p} ELSE optedIn \cup {p}
  /\ UNCHANGED <<queue, schedules, dead, worker, settled, owed, faults,
                 revisits, ticks>>

---------------------------------------------------------------------------
(* The handler *)

At(w, pc, stage) == worker[w].pc = pc /\ worker[w].body.stage = stage

(* List the catalog once, keep the opted-in, publish to each.              *)
handleInit(w) ==
  /\ At(w, "started", "init")
  /\ SP!Decide(w, {Breakdown(p) : p \in optedIn})
  /\ UNCHANGED agentVars

(* The opt-in is read again; a project that is out is skipped.             *)
handleBreakdown(w) ==
  /\ At(w, "started", "breakdown")
  /\ \/ worker[w].body.project \in optedIn /\ SP!RunSkill(w)
     \/ worker[w].body.project \notin optedIn /\ SP!Decide(w, {})
  /\ UNCHANGED agentVars

(* The skill reports the PRs it opened or updated. *)
BreakdownSkillReturns(w) ==
  /\ At(w, "skill", "breakdown")
  /\ \E alerts \in SUBSET Alert :
       SP!Decide(w, {Revisit(worker[w].body.project, a, 0) : a \in alerts})
  /\ UNCHANGED agentVars

Counted(n) == IF n < MaxRevisits THEN n + 1 ELSE n

(* Seeded fault: the next revisit is scheduled before the skill has run.   *)
handleRevisitEager(w) ==
  /\ At(w, "started", "revisit")
  /\ schedules' = SP!Scheduled(worker[w].body)
  /\ worker' = [worker EXCEPT ![w].pc = "skill"]
  /\ revisits' = [revisits EXCEPT
       ![worker[w].body.project][worker[w].body.alert] = Counted(@)]
  /\ UNCHANGED <<queue, dead, settled, owed, faults, optedIn, ticks, toggles>>

handleRevisit(w) ==
  /\ At(w, "started", "revisit")
  /\ SP!RunSkill(w)
  /\ revisits' = [revisits EXCEPT
       ![worker[w].body.project][worker[w].body.alert] = Counted(@)]
  /\ UNCHANGED <<optedIn, ticks, toggles>>

(* Seeded fault: the count a revisit carries is not bumped. *)
NextRevisitUnbumped(b) == IF b.count >= REVISIT_CAP THEN {} ELSE {b}

(* Seeded fault: the cap is tested with > instead of >=. *)
NextRevisitPastCap(b) ==
  IF b.count > REVISIT_CAP THEN {} ELSE {Revisit(b.project, b.alert, b.count + 1)}

(* The revisit to schedule next, none once the cap is reached.             *)
NextRevisit(b) ==
  IF b.count >= REVISIT_CAP THEN {} ELSE {Revisit(b.project, b.alert, b.count + 1)}

(* The skill asks for another check, or does not. *)
RevisitSkillReturns(w) ==
  /\ At(w, "skill", "revisit")
  /\ \E again \in BOOLEAN :
       SP!Decide(w, IF again THEN NextRevisit(worker[w].body) ELSE {})
  /\ UNCHANGED agentVars

Handle(w) ==
  \/ handleInit(w) \/ handleBreakdown(w) \/ BreakdownSkillReturns(w)
  \/ handleRevisit(w) \/ RevisitSkillReturns(w)
  \/ (\E b \in Body : SP!Publish(w, b)) /\ UNCHANGED agentVars
  \/ SP!Finish(w) /\ UNCHANGED agentVars

Deliver(w, b) == SP!Deliver(w, b) /\ UNCHANGED agentVars

Fire(b) == SP!Fire(b) /\ UNCHANGED agentVars

Disturb(w) ==
  /\ SP!Fail(w) \/ SP!Redeliver(w) \/ \E b \in Body : SP!PublishThrows(w, b)
  /\ UNCHANGED agentVars

Next ==
  \/ Tick
  \/ \E p \in Project : Toggle(p)
  \/ \E b \in Body : Fire(b)
  \/ \E w \in Worker : Handle(w) \/ Disturb(w) \/ \E b \in Body : Deliver(w, b)

Spec == Init /\ [][Next]_vars

(* Schedules fire, the queue is polled, a handler run goes on or fails.    *)
Fairness ==
  /\ \A b \in Body : WF_vars(Fire(b)) /\ WF_vars(\E w \in Worker : Deliver(w, b))
  /\ \A w \in Worker : WF_vars(Handle(w) \/ Disturb(w))

FairSpec == Spec /\ Fairness

---------------------------------------------------------------------------
(* Properties *)

(* bump-it implements the publisher loop: a run hands on only what it      *)
(* decided once its skill returned, and no stage bypasses the publisher.   *)
FollowsSelfPublish == SP!DeliverySpec

(* What an acknowledged run had to hand on is not lost. *)
FollowUpsAreNotLost == SP!NothingOwedIsLost

(* The cap holds a PR to REVISIT_CAP + 1 revisit runs for each tick and    *)
(* each failed or repeated delivery: no interleaving of rescheduled, fired,*)
(* retried and duplicated revisits multiplies the follow-up.               *)
RevisitBudget ==
  \A p \in Project, a \in Alert :
    revisits[p][a] <= (REVISIT_CAP + 1) * (ticks + faults)

(* The loop terminates: once ticks and failures stop, queue, schedules and *)
(* handlers come to rest.                                                  *)
Quiet ==
  /\ \A b \in Body : queue[b] = 0
  /\ schedules = {}
  /\ \A w \in Worker : ~SP!Busy(w)

LoopEnds == <>[]Quiet

---------------------------------------------------------------------------
(* What the documentation says, and the code does not keep. *)

(* "cap (2 revisits per PR) enforced by the handler": one tick, no failure,*)
(* no more revisits of a PR than the cap.                                  *)
CapIsRevisitsPerPr ==
  faults = 0 /\ ticks <= 1 =>
    \A p \in Project, a \in Alert : revisits[p][a] <= REVISIT_CAP
=================================================================================
