------------------------------- MODULE AskTheCode -------------------------------
(***************************************************************************)
(* ask-the-code's handler: validate, resolve execution and project scope,  *)
(* materialise attachments, sync working copies, run the skill, and tell   *)
(* the bus each stage once.  How a run ends: TerminalReply.                *)
(***************************************************************************)
EXTENDS TerminalReply

CONSTANTS
  ScopeOnly,  \* requests that ask for the project scope only
  NoSync      \* requests that skip the working copies

Event == {"started", "project-resolution", "working-copy-sync", "coding-agent-execution"}

Step == {"validating", "scoping", "skippingSync", "skippingAgent", "materializing",
         "planning", "syncing", "asking", "running", "completing"}

(* A request without attachments has no directory, as if it were gone.     *)
Start(r) == At(r, "starting") /\ Emit(r, "started", "validating")

(* Seeded fault: the first stage is announced before the override is       *)
(* resolved.                                                               *)
ValidateLate(r) ==
  /\ At(r, "validating")
  /\ Emit(r, "project-resolution", IF r \in Invalid THEN "failing" ELSE "scoping")

(* parseAtcRequest and execution.resolve come before any stage is told.    *)
Validate(r) ==
  /\ At(r, "validating")
  /\ \/ r \in Invalid /\ Fails(r) /\ NoFault /\ UNCHANGED dir
     \/ r \notin Invalid /\ Emit(r, "project-resolution", "scoping")

(* An unknown id fails validation; the router or the catalog may fail too. *)
resolveProjectScope(r) ==
  /\ At(r, "scoping")
  /\ Await(r, IF r \in ScopeOnly THEN "skippingSync" ELSE "materializing")

SkipSync(r) == At(r, "skippingSync") /\ Emit(r, "working-copy-sync", "skippingAgent")

SkipAgent(r) == At(r, "skippingAgent") /\ Emit(r, "coding-agent-execution", "completing")

(* On failure materializeAttachments removes its directory itself. *)
materializeAttachments(r) ==
  /\ At(r, "materializing")
  /\ \/ Fails(r) /\ UNCHANGED dir
     \/ Goto(r, "planning") /\ dir' = [dir EXCEPT ![r] = "there"]
  /\ NoFault

(* Seeded fault: the sync stage is told again when the sync begins. *)
PlanTwice(r) ==
  /\ At(r, "planning")
  /\ \/ Emit(r, "working-copy-sync", "asking")
     \/ /\ r \notin NoSync
        /\ Emit(r, "working-copy-sync",
                IF Len(run[r].events) < 5 THEN "planning" ELSE "syncing")

(* Working copies are skipped on request or when no project was resolved.  *)
Plan(r) ==
  /\ At(r, "planning")
  /\ \/ Emit(r, "working-copy-sync", "asking")
     \/ r \notin NoSync /\ Emit(r, "working-copy-sync", "syncing")

syncWorkingCopies(r) == At(r, "syncing") /\ Await(r, "asking")

Ask(r) == At(r, "asking") /\ Emit(r, "coding-agent-execution", "running")

runSkill(r) == At(r, "running") /\ Await(r, "completing")

Complete(r) ==
  At(r, "completing") /\ Completes(r, IF r \in ScopeOnly THEN "replying" ELSE "cleaning")

handleAtcMessage(r) ==
  \/ Start(r) \/ Validate(r) \/ resolveProjectScope(r) \/ SkipSync(r) \/ SkipAgent(r)
  \/ materializeAttachments(r) \/ Plan(r) \/ syncWorkingCopies(r) \/ Ask(r) \/ runSkill(r)
  \/ Complete(r) \/ Settle(r)

NeedsFiles(r) == run[r].pc \in {"planning", "syncing", "asking", "running"}

---------------------------------------------------------------------------
(* Properties, of the requests to ask-the-code *)

Rank(e) ==
  CASE e = "started" -> 1
    [] e = "project-resolution" -> 2
    [] e = "working-copy-sync" -> 3
    [] e = "coding-agent-execution" -> 4
    [] OTHER -> 5

(* What reaches the bus of a run is in protocol order, each stage at most  *)
(* once, whatever was dropped and wherever the run failed; a run that      *)
(* completes with nothing dropped has told every stage.                    *)
ToldInOrder(r) ==
  /\ \A m, n \in 1 .. Len(run[r].events) :
       m < n => Rank(run[r].events[m]) < Rank(run[r].events[n])
  /\ faults = 0 /\ run[r].outcome = "completed" => Len(run[r].events) = 5

(* An invalid request or a malformed override fails "after started but     *)
(* before any status events": it never gets to tell the bus a stage.       *)
FailsCleanly(r) ==
  r \in Invalid =>
    \A n \in 1 .. Len(run[r].events) : run[r].events[n] \in {"started", "failed"}
=================================================================================
