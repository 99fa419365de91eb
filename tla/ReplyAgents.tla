------------------------------- MODULE ReplyAgents -------------------------------
(***************************************************************************)
(* The two agents that answer consumers, each with requests of its own.    *)
(* Runs of different requests share nothing but the faults that hit them.  *)
(***************************************************************************)
EXTENDS TerminalReply

CONSTANTS
  AskRequest, TriageRequest,       \* the requests of each agent
  ScopeOnly, NoSync, BadEvidence,  \* see AskTheCode, TriageIt
  MaxArrivals                      \* bound on the requests that arrive

ASSUME AgentsAssumption ==
  /\ Request = AskRequest \cup TriageRequest /\ AskRequest \cap TriageRequest = {}
  /\ Invalid \subseteq Request /\ ScopeOnly \subseteq AskRequest
  /\ NoSync \subseteq AskRequest /\ BadEvidence \subseteq TriageRequest
  /\ MaxFaults \in Nat /\ MaxArrivals \in Nat

Atc == INSTANCE AskTheCode
Triage == INSTANCE TriageIt

TypeOK == ReplyTypeOK(Atc!Step \cup Triage!Step, Atc!Event \cup Triage!Event)

Init ==
  \E arrived \in SUBSET Request :
    Cardinality(arrived) <= MaxArrivals /\ ReplyInit(arrived)

Handle(r) ==
  \/ r \in AskRequest /\ Atc!handleAtcMessage(r)
  \/ r \in TriageRequest /\ Triage!handleTriageMessage(r)

Next == \E r \in Request : Handle(r) \/ Delivery(r)

Spec == Init /\ [][Next]_vars

(* The queue redelivers; a run goes on or dies. *)
ReplyFairness == \A r \in Request : WF_vars(Handle(r)) /\ WF_vars(Deliver(r))

---------------------------------------------------------------------------
(* Properties *)

(* Every run of ask-the-code tells its stages in order, each once; one of  *)
(* an invalid request fails before any stage is told.                      *)
StagesInOrder == \A r \in AskRequest : Atc!ToldInOrder(r) /\ Atc!FailsCleanly(r)

(* Attachments and vetted evidence are on disk as long as the work needs   *)
(* them, and gone when the run is over, but for a crash or a removal that  *)
(* failed.                                                                 *)
FilesLiveAsTheWork ==
  /\ \A r \in AskRequest : Atc!NeedsFiles(r) => dir[r] = "there"
  /\ \A r \in TriageRequest :
       Triage!NeedsEvidence(r) => dir[r] = "there" /\ r \notin BadEvidence
  /\ \A r \in Request : ~Running(r) => dir[r] # "there"
=================================================================================
