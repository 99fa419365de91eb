-------------------------------- MODULE TriageIt --------------------------------
(***************************************************************************)
(* triage-it's handler: validate, fetch the evidence archive and extract   *)
(* it to a fresh directory, sync working copies when projects are named,   *)
(* run the skill over both.  How a run ends: TerminalReply.                *)
(***************************************************************************)
EXTENDS TerminalReply

CONSTANT BadEvidence  \* requests whose archive breaks a cap or a rule

Event == {"received"}

Step == {"validating", "fetching", "extracting", "writing", "scoping", "syncing",
         "running", "completing"}

Start(r) == At(r, "starting") /\ Emit(r, "received", "validating")

(* Nothing is awaited between the two validations and the fetch. *)
Validate(r) ==
  /\ At(r, "validating")
  /\ \/ r \in Invalid /\ Fails(r)
     \/ r \notin Invalid /\ Goto(r, "fetching")
  /\ NoFault /\ UNCHANGED dir

Fetch(r) == At(r, "fetching") /\ Await(r, "extracting")

(* Seeded fault: the skill runs on an archive that was not vetted.         *)
extractEvidenceArchiveUnvetted(r) ==
  \/ /\ At(r, "extracting") /\ Goto(r, "writing")
     /\ NoFault /\ dir' = [dir EXCEPT ![r] = "there"]
  \/ At(r, "writing") /\ Goto(r, "scoping") /\ NoFault /\ UNCHANGED dir

(* The temp directory is made before the entries are looked at; whatever   *)
(* fails then, an unsafe entry or the disk, takes the directory with it.   *)
extractEvidenceArchive(r) ==
  /\ \/ /\ At(r, "extracting")
        /\ \/ Fails(r) /\ UNCHANGED dir
           \/ Goto(r, "writing") /\ dir' = [dir EXCEPT ![r] = "there"]
     \/ /\ At(r, "writing")
        /\ \/ Fails(r) /\ dir' = [dir EXCEPT ![r] = "gone"]
           \/ r \notin BadEvidence /\ Goto(r, "scoping") /\ UNCHANGED dir
  /\ NoFault

(* Without projectIds the run is evidence-only; an unknown id is invalid.  *)
Scope(r) == At(r, "scoping") /\ (Await(r, "running") \/ Await(r, "syncing"))

syncWorkingCopies(r) == At(r, "syncing") /\ Await(r, "running")

runSkill(r) == At(r, "running") /\ Await(r, "completing")

Complete(r) == At(r, "completing") /\ Completes(r, "cleaning")

handleTriageMessage(r) ==
  \/ Start(r) \/ Validate(r) \/ Fetch(r) \/ extractEvidenceArchive(r) \/ Scope(r)
  \/ syncWorkingCopies(r) \/ runSkill(r) \/ Complete(r) \/ Settle(r)

(* The skill reads the vetted archive from disk, lazily. *)
NeedsEvidence(r) == run[r].pc \in {"scoping", "syncing", "running"}
=================================================================================
