------------------------------- MODULE MCSqsShim -------------------------------
(* Model-checking instances of SqsShim. *)
EXTENDS SqsShim, TLC

Symmetry == Permutations(Inv) \cup Permutations(Msg \ (Signed \cup Malformed))

(* At most two things go wrong in a run, of whichever kind. *)
CONSTANT MaxMishaps

Sparse == storeFaults + crashes + duplicates <= MaxMishaps

SparseSpec == Init /\ [][Next /\ Sparse']_vars

(* The event source polls without pause: time does not pass a message that *)
(* can be taken, nor run on once every message has left the queue.  With   *)
(* it the receive counts bound the clock, and MaxTime never stops it.      *)
Prompt ==
  /\ \A m \in Msg : Visible(m) =>
       queue[m].receives < MaxReceive /\ \A i \in Inv : inv[i].status = "open"
  /\ \/ \E m \in Msg : queue[m].place = "queued"
     \/ \E i \in Inv : inv[i].status = "open"

PromptNext ==
  \/ Prompt /\ Tick
  \/ \E m \in Msg : DeadLetter(m)
  \/ \E i \in Inv : Service(i)
  \/ \E i \in Inv, m \in Msg : processRecord(i, m)

PromptSpec == Init /\ [][PromptNext]_vars

PromptFairSpec == PromptSpec /\ WF_vars(Prompt /\ Tick) /\ ServiceFairness
=================================================================================
