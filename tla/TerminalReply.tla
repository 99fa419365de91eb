------------------------------ MODULE TerminalReply ------------------------------
(***************************************************************************)
(* What ask-the-code and triage-it share: one handler run per delivery of  *)
(* a consumer's request, which tells the event bus how far it is (best     *)
(* effort), keeps files in a temp directory while it works, and ends with  *)
(* one terminal reply to the consumer's queue.                             *)
(*                                                                         *)
(* Delivery is what SqsShim shows of the shim: a run that returns          *)
(* acknowledges the message, one that throws or dies does not, and no two  *)
(* runs of a message are live at once.  A redelivery may reach the handler *)
(* again, or be rejected because the envelope is too old.                  *)
(***************************************************************************)
EXTENDS Sequences, Naturals, FiniteSets

CONSTANTS
  Request,   \* consumer requests, by message
  Invalid,   \* those whose payload fails validation
  MaxFaults  \* bound on lost events, failed sends, crashes and lost acknowledgements

VARIABLES
  place,    \* place[r]: "absent", "queued", "acked" or "dead"
  run,      \* run[r]: the handler run in progress
  dir,      \* dir[r]: the temp directory of r's last run
  replies,  \* replies[r]: statuses of the terminal replies in the consumer's queue
  ended,    \* ended[r]: outcomes of the runs that returned (history)
  faults

vars == <<place, run, dir, replies, ended, faults>>

Outcome == {"completed", "failed"}

(* Never made or removed, there, or left behind by a crash or a removal    *)
(* that failed.  Each run makes its own.                                   *)
Directory == {"gone", "there", "left"}

NoRun == [pc |-> "idle", outcome |-> "none", events |-> <<>>]

ReplyTypeOK(Step, Event) ==
  /\ place \in [Request -> {"absent", "queued", "acked", "dead"}]
  /\ \A r \in Request :
       /\ run[r].pc \in Step \cup {"idle", "starting", "failing", "replyingFailed",
                                   "cleaning", "replying", "returned", "threw"}
       /\ run[r].outcome \in Outcome \cup {"none"}
       /\ Len(run[r].events) <= Cardinality(Event) + 1
       /\ \A n \in 1 .. Len(run[r].events) : run[r].events[n] \in Event \cup Outcome
  /\ dir \in [Request -> Directory]
  /\ replies \in [Request -> SUBSET Outcome] /\ ended \in [Request -> SUBSET Outcome]
  /\ faults \in Nat

ReplyInit(arrived) ==
  /\ place = [r \in Request |-> IF r \in arrived THEN "queued" ELSE "absent"]
  /\ run = [r \in Request |-> NoRun]
  /\ dir = [r \in Request |-> "gone"]
  /\ replies = [r \in Request |-> {}] /\ ended = [r \in Request |-> {}]
  /\ faults = 0

Running(r) == run[r].pc # "idle"

Fault == faults < MaxFaults /\ faults' = faults + 1

NoFault == UNCHANGED faults

---------------------------------------------------------------------------
(* Steps of a run *)

At(r, pc) == run[r].pc = pc

Goto(r, pc) ==
  /\ run' = [run EXCEPT ![r].pc = pc]
  /\ UNCHANGED <<place, replies, ended>>

(* An event reaches the bus, or is dropped and only logged. *)
Emit(r, event, pc) ==
  /\ \/ NoFault /\ run' = [run EXCEPT ![r].pc = pc, ![r].events = Append(@, event)]
     \/ Fault /\ run' = [run EXCEPT ![r].pc = pc]
  /\ UNCHANGED <<place, dir, replies, ended>>

(* A work step fails: failTerminal is called. *)
Fails(r) ==
  /\ run' = [run EXCEPT ![r].pc = "failing", ![r].outcome = "failed"]
  /\ UNCHANGED <<place, replies, ended>>

(* An awaited piece of work either fails or goes on. *)
Await(r, pc) == (Fails(r) \/ Goto(r, pc)) /\ UNCHANGED dir /\ NoFault

(* The work is done; the completed event comes before the reply. *)
Completes(r, pc) ==
  /\ \/ NoFault /\ run' = [run EXCEPT ![r].pc = pc, ![r].outcome = "completed",
                                      ![r].events = Append(@, "completed")]
     \/ Fault /\ run' = [run EXCEPT ![r].pc = pc, ![r].outcome = "completed"]
  /\ UNCHANGED <<place, dir, replies, ended>>

(* Seeded fault: the cleanup is awaited, but only a success starts it. *)
CleanupOnSuccess(r) ==
  /\ At(r, "cleaning") /\ Goto(r, "replying")
  /\ dir' = [dir EXCEPT ![r] = "gone"]
  /\ NoFault

(* finally: on success before the reply is sent, after a failure beside    *)
(* failTerminal, which is on its way; an error is only logged.             *)
Cleanup(r) ==
  /\ \/ At(r, "cleaning") /\ Goto(r, "replying")
     \/ /\ dir[r] = "there" /\ run[r].pc \in {"failing", "replyingFailed", "returned"}
        /\ UNCHANGED <<place, run, replies, ended>>
  /\ \/ dir' = [dir EXCEPT ![r] = "gone"]
     \/ dir' = [dir EXCEPT ![r] = "left"] /\ dir[r] = "there"
  /\ NoFault

EmitFailed(r) == At(r, "failing") /\ Emit(r, "failed", "replyingFailed")

(* A request of the model names a queue for its reply and its agent has a  *)
(* client for it: without either, nothing is sent and the run returns.     *)
Sent(r, status) == [replies EXCEPT ![r] = @ \cup {status}]

(* A failure reply that cannot be delivered is logged; the run returns all *)
(* the same.                                                               *)
ReplyFailed(r) ==
  /\ At(r, "replyingFailed")
  /\ \/ NoFault /\ replies' = Sent(r, "failed")
     \/ Fault /\ replies' \in {replies, Sent(r, "failed")}
  /\ run' = [run EXCEPT ![r].pc = "returned"]
  /\ UNCHANGED <<place, dir, ended>>

(* Seeded faults: the delivery inside the try of the work, and a delivery  *)
(* error that is swallowed as that of a failure reply is.                  *)
ReplyInsideTry(r) ==
  /\ At(r, "replying")
  /\ \/ NoFault /\ replies' = Sent(r, "completed") /\ run' = [run EXCEPT ![r].pc = "returned"]
     \/ /\ Fault /\ replies' \in {replies, Sent(r, "completed")}
        /\ run' = [run EXCEPT ![r].pc = "failing", ![r].outcome = "failed"]
  /\ UNCHANGED <<place, dir, ended>>

ReplySwallowed(r) ==
  /\ At(r, "replying")
  /\ \/ NoFault /\ replies' = Sent(r, "completed")
     \/ Fault /\ replies' \in {replies, Sent(r, "completed")}
  /\ run' = [run EXCEPT ![r].pc = "returned"]
  /\ UNCHANGED <<place, dir, ended>>

(* A completed reply that cannot be delivered, or whose send was applied   *)
(* but answered with an error, makes the run throw.                        *)
Reply(r) ==
  /\ At(r, "replying")
  /\ \/ NoFault /\ replies' = Sent(r, "completed") /\ run' = [run EXCEPT ![r].pc = "returned"]
     \/ /\ Fault /\ replies' \in {replies, Sent(r, "completed")}
        /\ run' = [run EXCEPT ![r].pc = "threw"]
  /\ UNCHANGED <<place, dir, ended>>

---------------------------------------------------------------------------
(* Delivery *)

(* A delivery reaches the handler: the first one, or a repeated one that   *)
(* is still within the envelope's accepted age.                            *)
Deliver(r) ==
  /\ place[r] = "queued" /\ ~Running(r)
  /\ run' = [run EXCEPT ![r] = [NoRun EXCEPT !.pc = "starting"]]
  /\ UNCHANGED <<place, dir, replies, ended, faults>>

Ended(r) ==
  /\ \/ NoFault /\ place' = [place EXCEPT ![r] = "acked"]
     \/ Fault /\ UNCHANGED place
  /\ run' = [run EXCEPT ![r] = NoRun]
  /\ ended' = [ended EXCEPT ![r] = @ \cup {run[r].outcome}]
  /\ UNCHANGED <<dir, replies>>

(* The run returns when failTerminal and the cleanup are both through.     *)
Return(r) == At(r, "returned") /\ dir[r] # "there" /\ Ended(r)

Throw(r) ==
  /\ At(r, "threw")
  /\ run' = [run EXCEPT ![r] = NoRun]
  /\ UNCHANGED <<place, dir, replies, ended, faults>>

(* A crash may leave the directory; no later run looks at it. *)
Crash(r) ==
  /\ Running(r) /\ Fault
  /\ run' = [run EXCEPT ![r] = NoRun]
  /\ dir' = [dir EXCEPT ![r] = IF @ = "there" THEN "left" ELSE @]
  /\ UNCHANGED <<place, replies, ended>>

(* Redeliveries that are rejected, or never handled, end here. *)
DeadLetter(r) ==
  /\ place[r] = "queued" /\ ~Running(r) /\ faults > 0
  /\ place' = [place EXCEPT ![r] = "dead"]
  /\ UNCHANGED <<run, dir, replies, ended, faults>>

(* A repeated delivery of a message marked as completed is acknowledged    *)
(* without a run.                                                          *)
Duplicate(r) ==
  /\ place[r] = "queued" /\ ~Running(r) /\ ended[r] # {}
  /\ place' = [place EXCEPT ![r] = "acked"]
  /\ UNCHANGED <<run, dir, replies, ended, faults>>

(* How every run ends, whatever its agent. *)
Settle(r) ==
  Cleanup(r) \/ EmitFailed(r) \/ ReplyFailed(r) \/ Reply(r) \/ Return(r) \/ Throw(r)

Delivery(r) == Deliver(r) \/ Crash(r) \/ DeadLetter(r) \/ Duplicate(r)

---------------------------------------------------------------------------
(* Properties *)

(* A run has one verdict: it emits at most one terminal event, as its last *)
(* event, and that event and the run's reply agree.  A completed event is  *)
(* never followed by a failure because the reply could not be delivered.   *)
OneVerdict ==
  \A r \in Request : \A n \in 1 .. Len(run[r].events) :
    run[r].events[n] \in Outcome =>
      n = Len(run[r].events) /\ run[r].events[n] = run[r].outcome

(* A request whose run completed is acknowledged only once its reply is    *)
(* in the consumer's queue; whatever a run that returned claims is there,  *)
(* except a failure.                                                       *)
CompletedIsDelivered ==
  \A r \in Request :
    /\ "completed" \in ended[r] => "completed" \in replies[r]
    /\ place[r] = "acked" /\ replies[r] = {} => "failed" \in ended[r]

(* Every request leaves the queue. *)
EventuallySettled == <>(\A r \in Request : place[r] # "queued")

(* What the documentation says, and the code does not keep: "terminal      *)
(* reply ... via SQS (at-least-once)".  An acknowledged request has one.   *)
ReplyAtLeastOnce == \A r \in Request : place[r] = "acked" => replies[r] # {}
=================================================================================
