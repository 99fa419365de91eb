--------------------------------- MODULE Agents ---------------------------------
(***************************************************************************)
(* The handlers of four agents side by side: ask-the-code and triage-it    *)
(* (ReplyAgents), ship-it and document-it.  Each has a queue, workers and  *)
(* a catalog snapshot of its own and they share nothing, so a behaviour    *)
(* feeds one of them and leaves the others at rest.                        *)
(***************************************************************************)
EXTENDS ReplyAgents

CONSTANTS
  TicketRequest, Slice, Release, MAX_REVISIT_COUNT, MaxEvents, MaxRevisits,
  Project, MaxTicks, MaxToggles,
  Worker, MaxMishaps  \* see ShipIt, DocumentIt; MaxMishaps is their MaxFaults

ASSUME PublishersAssumption ==
  /\ MAX_REVISIT_COUNT \in Nat /\ MaxMishaps \in Nat /\ MaxRevisits \in Nat
  /\ TicketRequest # {}

VARIABLES
  agent,  \* the agent that is fed
  shipQueue, shipSchedules, shipDead, shipWorker, shipSettled, shipOwed,
  shipFaults, slice, released, step, codeRuns, ciRevisits, events,
  docQueue, docSchedules, docDead, docWorker, docSettled, docOwed, docFaults,
  enabled, docTicks, docToggles

Ship == INSTANCE ShipIt WITH MaxFaults <- MaxMishaps
Doc == INSTANCE DocumentIt WITH MaxFaults <- MaxMishaps

shipVars == <<shipQueue, shipSchedules, shipDead, shipWorker, shipSettled,
  shipOwed, shipFaults, slice, released, step, codeRuns, ciRevisits, events>>
docVars == <<docQueue, docSchedules, docDead, docWorker, docSettled, docOwed,
  docFaults, enabled, docTicks, docToggles>>
allVars == <<agent, vars, shipVars, docVars>>

AgentsInit ==
  /\ agent \in {"replies", "ship-it", "document-it"}
  /\ Init /\ Ship!Init /\ Doc!Init
  /\ agent # "replies" => \A r \in Request : place[r] = "absent"
  /\ agent # "ship-it" =>
       slice = (CHOOSE s \in Slice : TRUE) /\ released = (CHOOSE s \in Release : TRUE)
  /\ agent # "document-it" => enabled = {}

ReplyStep ==
  agent = "replies" /\ Next /\ UNCHANGED <<agent, shipVars, docVars>>

ShipItStep ==
  agent = "ship-it" /\ Ship!Next /\ UNCHANGED <<agent, vars, docVars>>

DocumentItStep ==
  agent = "document-it" /\ Doc!Next /\ UNCHANGED <<agent, vars, shipVars>>

AgentsNext == ReplyStep \/ ShipItStep \/ DocumentItStep

AgentsSpec ==
  /\ AgentsInit /\ [][AgentsNext]_allVars
  /\ ReplyFairness /\ Ship!Fairness /\ Doc!Fairness

---------------------------------------------------------------------------
(* Properties *)

(* What an acknowledged run of ship-it or document-it had to hand on, a    *)
(* PR's revisit or a project's breakdown, is not lost: a failed publish, a *)
(* retry or an existing schedule drops no message.                         *)
NothingOwedIsLost == Ship!SP!NothingOwedIsLost /\ Doc!SP!NothingOwedIsLost

(* Each code-it run and each mishap gives a PR one chain of revisits.      *)
ShipItRevisitBudget == Ship!ShipItRevisitBudget

(* The loops come to rest once events, ticks and failures stop: whatever   *)
(* was handed on is then handled or dead-lettered.                         *)
LoopsEnd == <>[](Ship!Quiet /\ Doc!Quiet)
=================================================================================
