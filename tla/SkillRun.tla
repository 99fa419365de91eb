------------------------------- MODULE SkillRun -------------------------------
(***************************************************************************)
(* One runSkill call once its credentials are resolved: the runner stages  *)
(* the skills in a temporary directory of the run, spawns the coding agent *)
(* and waits for the pipes of its output to close or for the timer; then   *)
(* the directory is removed and the answer is checked.                     *)
(*                                                                         *)
(* "close" comes when every process that holds the pipes is gone, not when *)
(* the agent exits: a process it left behind keeps the run waiting, and is *)
(* not killed by the timer, which kills the agent only.                    *)
(***************************************************************************)
EXTENDS Sequences

CONSTANTS Record, Answer

VARIABLES
  pc,
  call,    \* call[r]: the entry point is declared and the input fits its schema
  staged,  \* runs whose staging directory is on disk
  child,   \* child[r]: the coding agent of r
  left     \* runs that left a process behind (it may work on in the copies)

(* What runSkill makes of the text a run answered with: the last json      *)
(* fence must be the end of it, parse, and fit the output schema.          *)
Text == [fence : BOOLEAN, trailing : BOOLEAN, parses : BOOLEAN, conforms : BOOLEAN]

Sound(text) ==
  text.fence /\ ~text.trailing /\ text.parses /\ text.conforms

Child == {"none", "runs", "exited"}

SkillTypeOK ==
  /\ staged \subseteq Record /\ child \in [Record -> Child] /\ left \subseteq Record

SkillInit ==
  staged = {} /\ child = [r \in Record |-> "none"] /\ left = {}

(* An entry point the descriptor does not list or an input that does not   *)
(* fit its schema ends the run before anything is resolved.                *)
RefuseCall(r) ==
  /\ pc[r] = "credentials" /\ ~call[r]
  /\ pc' = [pc EXCEPT ![r] = "failed"]
  /\ UNCHANGED <<staged, child, left>>

(* stageSkills removes what it has written when it fails. *)
Stage(r) ==
  /\ pc[r] = "equipped"
  /\ \/ staged' = staged \cup {r} /\ pc' = [pc EXCEPT ![r] = "staged"]
     \/ UNCHANGED staged /\ pc' = [pc EXCEPT ![r] = "failed"]
  /\ UNCHANGED <<child, left>>

(* Seeded fault: the staging directory goes without waiting for the agent. *)
SpawnUnawaited(r) ==
  /\ pc[r] = "staged"
  /\ child' = [child EXCEPT ![r] = "runs"]
  /\ pc' = [pc EXCEPT ![r] = "skill"]
  /\ staged' = staged \ {r}
  /\ UNCHANGED left

Spawn(r) ==
  /\ pc[r] = "staged"
  /\ \/ /\ child' = [child EXCEPT ![r] = "runs"]
        /\ pc' = [pc EXCEPT ![r] = "skill"]
     \/ /\ pc' = [pc EXCEPT ![r] = "threw"]  \* ENOENT
        /\ UNCHANGED child
  /\ UNCHANGED <<staged, left>>

LeaveBehind(r) ==
  /\ pc[r] = "skill" /\ child[r] = "runs" /\ r \notin left
  /\ left' = left \cup {r}
  /\ UNCHANGED <<pc, staged, child>>

(* The processes that were left behind come to their end. *)
Reap(r) ==
  /\ r \in left
  /\ left' = left \ {r}
  /\ UNCHANGED <<pc, staged, child>>

Exit(r) ==
  /\ pc[r] = "skill" /\ child[r] = "runs"
  /\ child' = [child EXCEPT ![r] = "exited"]
  /\ UNCHANGED <<pc, staged, left>>

(* A code other than 0 rejects, 0 resolves with the answer. *)
Close(r) ==
  /\ pc[r] = "skill" /\ child[r] = "exited" /\ r \notin left
  /\ \E text \in Answer :
       pc' = [pc EXCEPT ![r] = IF Sound(text) THEN "answered" ELSE "threw"]
  /\ UNCHANGED <<staged, child, left>>

Timeout(r) ==
  /\ pc[r] = "skill"
  /\ child' = [child EXCEPT ![r] = "exited"]
  /\ pc' = [pc EXCEPT ![r] = "threw"]
  /\ UNCHANGED <<staged, left>>

(* The runner's finally. *)
Cleanup(r) ==
  /\ pc[r] \in {"answered", "threw"}
  /\ staged' = staged \ {r}
  /\ pc' = [pc EXCEPT ![r] = IF pc[r] = "answered" THEN "done" ELSE "failed"]
  /\ UNCHANGED <<child, left>>
===============================================================================
