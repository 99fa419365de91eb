------------------------------ MODULE AtLeastOnce ------------------------------
(***************************************************************************)
(* What the runtime promises about a message of an agent's input queue:    *)
(* the work is done before the message is marked completed and before it   *)
(* is acknowledged, a mark is never taken back, and a message leaves the   *)
(* queue once, acknowledged or dead-lettered.  How often the work is done  *)
(* is not promised.                                                        *)
(***************************************************************************)
CONSTANT Msg

VARIABLES
  place,   \* place[m]: "queued", "deleted" (acknowledged) or "dead"
  done,    \* messages whose handler has succeeded
  marked   \* messages recorded as completed

vars == <<place, done, marked>>

Init ==
  /\ place = [m \in Msg |-> "queued"]
  /\ done = {} /\ marked = {}

Work(m) ==
  /\ done' = done \cup {m}
  /\ UNCHANGED <<place, marked>>

Mark(m) ==
  /\ m \in done
  /\ marked' = marked \cup {m}
  /\ UNCHANGED <<place, done>>

(* One answer may acknowledge several messages. *)
Acknowledge(S) ==
  /\ \A m \in S : m \in done /\ place[m] = "queued"
  /\ place' = [m \in Msg |-> IF m \in S THEN "deleted" ELSE place[m]]
  /\ UNCHANGED <<done, marked>>

GiveUp(m) ==
  /\ place[m] = "queued"
  /\ place' = [place EXCEPT ![m] = "dead"]
  /\ UNCHANGED <<done, marked>>

Next ==
  \/ \E m \in Msg : Work(m) \/ Mark(m) \/ GiveUp(m)
  \/ \E S \in SUBSET Msg : Acknowledge(S)

Spec == Init /\ [][Next]_vars
=================================================================================
