--------------------------- MODULE ReplyAgentsProofs ---------------------------
(***************************************************************************)
(* Theorems about the two agents that answer consumers, for any set of     *)
(* requests and any number of faults.                                      *)
(***************************************************************************)
EXTENDS ReplyAgents, TLAPS, FiniteSetTheorems

---------------------------------------------------------------------------
(* Invariants *)

Bus == Atc!Event \cup Triage!Event \cup Outcome
Steps == Atc!Step \cup Triage!Step
Settling == {"failing", "replyingFailed", "cleaning", "replying", "returned", "threw"}
HandlerRuns == [pc : Steps \cup Settling \cup {"idle", "starting"},
                outcome : Outcome \cup {"none"}, events : Seq(Bus)]

RunShape ==
  /\ place \in [Request -> {"absent", "queued", "acked", "dead"}]
  /\ run \in [Request -> HandlerRuns]
  /\ dir \in [Request -> Directory]
  /\ replies \in [Request -> SUBSET Outcome] /\ ended \in [Request -> SUBSET Outcome]
  /\ faults \in Nat

(* A run at work has no verdict; one that settles has one, which the last  *)
(* event tells if any does.                                                *)
VerdictInv(r) ==
  /\ run[r].pc \in Steps \cup {"idle", "starting"} => run[r].outcome = "none"
  /\ run[r].pc \in {"failing", "replyingFailed"} => run[r].outcome = "failed"
  /\ run[r].pc \in {"cleaning", "replying", "threw"} => run[r].outcome = "completed"
  /\ run[r].pc = "returned" => run[r].outcome \in Outcome
  /\ run[r].pc \in Steps \cup {"idle", "starting", "failing"} =>
       \A n \in 1..Len(run[r].events) : run[r].events[n] \notin Outcome
  /\ \A n \in 1..Len(run[r].events) :
       run[r].events[n] \in Outcome =>
         n = Len(run[r].events) /\ run[r].events[n] = run[r].outcome

DeliveredInv(r) ==
  /\ run[r].pc = "returned" /\ run[r].outcome = "completed" => "completed" \in replies[r]
  /\ "completed" \in ended[r] => "completed" \in replies[r]
  /\ place[r] = "acked" /\ replies[r] = {} => "failed" \in ended[r]

(* How many of its events a run of ask-the-code has told by then.          *)
Stage(pc) ==
  CASE pc = "starting" -> 0
    [] pc = "validating" -> 1
    [] pc \in {"scoping", "materializing", "planning", "skippingSync"} -> 2
    [] pc \in {"syncing", "asking", "skippingAgent"} -> 3
    [] pc \in {"running", "completing", "failing"} -> 4
    [] OTHER -> 5

StageInv(r) ==
  /\ run[r].events \in Seq(Atc!Event \cup Outcome)
  /\ run[r].pc \notin Triage!Step \ Atc!Step
  /\ \A m, n \in 1..Len(run[r].events) :
       m < n => Atc!Rank(run[r].events[m]) < Atc!Rank(run[r].events[n])
  /\ \A n \in 1..Len(run[r].events) : Atc!Rank(run[r].events[n]) <= Stage(run[r].pc)
  /\ faults = 0 =>
       /\ run[r].pc \in Atc!Step \cup {"starting"} => Len(run[r].events) = Stage(run[r].pc)
       /\ run[r].outcome = "completed" => Len(run[r].events) = 5
  /\ r \in Invalid =>
       run[r].pc \in {"idle", "starting", "validating", "failing", "replyingFailed", "returned"}
  /\ Atc!FailsCleanly(r)

(* The files are made before they are needed, and no run forgets them.     *)
AskFilesInv(r) ==
  /\ run[r].pc \in {"starting", "validating", "scoping", "skippingSync", "skippingAgent",
                    "materializing"} => dir[r] # "there"
  /\ run[r].pc \in {"materializing", "planning", "syncing", "asking", "running"} =>
       r \notin ScopeOnly
  /\ run[r].pc = "completing" /\ r \in ScopeOnly => dir[r] # "there"
  /\ Atc!NeedsFiles(r) => dir[r] = "there"

TriageFilesInv(r) ==
  /\ run[r].pc \notin Atc!Step \ Triage!Step
  /\ run[r].pc \in {"starting", "validating", "fetching", "extracting"} => dir[r] # "there"
  /\ run[r].pc = "writing" => dir[r] = "there"
  /\ Triage!NeedsEvidence(r) => dir[r] = "there" /\ r \notin BadEvidence

FilesInv(r) == run[r].pc \in {"idle", "replying", "threw"} => dir[r] # "there"

RunInv(r) ==
  /\ VerdictInv(r) /\ DeliveredInv(r) /\ FilesInv(r)
  /\ r \in AskRequest => StageInv(r) /\ AskFilesInv(r)
  /\ r \in TriageRequest => TriageFilesInv(r)

ReplyInv == RunShape /\ \A r \in Request : RunInv(r)

---------------------------------------------------------------------------
(* One run moves *)

Becomes(r, x) == run' = [run EXCEPT ![r] = x]

(* What a step of r leaves of the other requests.                          *)
OthersRest(r) ==
  /\ faults' \in Nat /\ (faults' = 0 => faults = 0)
  /\ \A q \in Request \ {r} :
       /\ run'[q] = run[q] /\ place'[q] = place[q] /\ dir'[q] = dir[q]
       /\ replies'[q] = replies[q] /\ ended'[q] = ended[q]

(* A step of one request keeps the invariant of every other.               *)
LEMMA OneRun ==
  ASSUME ReplyInv, NEW r \in Request, RunShape', OthersRest(r), RunInv(r)'
  PROVE  ReplyInv'
<1>1. ASSUME NEW q \in Request, q # r PROVE RunInv(q)'
  <2>1. RunInv(q) BY DEF ReplyInv
  <2>2. /\ run'[q] = run[q] /\ place'[q] = place[q] /\ dir'[q] = dir[q]
        /\ replies'[q] = replies[q] /\ ended'[q] = ended[q] /\ (faults' = 0 => faults = 0)
    BY <1>1 DEF OthersRest
  <2>3. VerdictInv(q)' /\ DeliveredInv(q)' /\ FilesInv(q)'
    BY <2>1, <2>2 DEF RunInv, VerdictInv, DeliveredInv, FilesInv
  <2>4. StageInv(q) => StageInv(q)'
    BY <2>2 DEF StageInv, Atc!FailsCleanly
  <2>5. AskFilesInv(q) => AskFilesInv(q)'
    BY <2>2 DEF AskFilesInv, Atc!NeedsFiles
  <2>6. TriageFilesInv(q) => TriageFilesInv(q)'
    BY <2>2 DEF TriageFilesInv, Triage!NeedsEvidence
  <2>7. QED BY <2>1, <2>3, <2>4, <2>5, <2>6 DEF RunInv
<1>2. QED BY <1>1 DEF ReplyInv

(* The record of r moves, its directory may: the rest follows.             *)
LEMMA Moves ==
  ASSUME RunShape, NEW r \in Request, NEW x \in HandlerRuns, Becomes(r, x),
         dir' = dir \/ \E d \in Directory : dir' = [dir EXCEPT ![r] = d],
         faults' = faults \/ faults' = faults + 1,
         UNCHANGED <<place, replies, ended>>
  PROVE  RunShape' /\ OthersRest(r) /\ run'[r] = x
BY DEF RunShape, OthersRest, Becomes

(* An event is appended, or lost at the cost of a fault.                   *)
LEMMA EmitEffect ==
  ASSUME RunShape, NEW r \in Request, NEW e \in Bus,
         NEW pc \in Steps \cup Settling, Emit(r, e, pc)
  PROVE  /\ RunShape' /\ OthersRest(r)
         /\ run'[r].pc = pc /\ run'[r].outcome = run[r].outcome
         /\ \/ faults' = faults /\ run'[r].events = Append(run[r].events, e)
            \/ faults' # 0 /\ run'[r].events = run[r].events
         /\ UNCHANGED <<place, dir, replies, ended>>
<1>1. run[r] \in HandlerRuns /\ faults \in Nat BY DEF RunShape
<1>2. CASE NoFault /\ run' = [run EXCEPT ![r].pc = pc, ![r].events = Append(@, e)]
  <2> DEFINE x == [run[r] EXCEPT !.pc = pc, !.events = Append(run[r].events, e)]
  <2>0. Append(run[r].events, e) \in Seq(Bus) BY <1>1 DEF HandlerRuns
  <2>1. x \in HandlerRuns
    <3>1. ASSUME NEW es \in Seq(Bus) PROVE [run[r] EXCEPT !.pc = pc, !.events = es] \in HandlerRuns
      BY <1>1 DEF HandlerRuns
    <3>2. QED BY <2>0, <3>1
  <2>2. Becomes(r, x) BY <1>1, <1>2 DEF Becomes, HandlerRuns, RunShape
  <2>3. UNCHANGED <<place, dir, replies, ended, faults>> BY <1>2 DEF Emit, NoFault
  <2> HIDE DEF x
  <2>4. RunShape' /\ OthersRest(r) /\ run'[r] = x BY <2>1, <2>2, <2>3, Moves
  <2>5. QED BY <2>3, <2>4 DEF x
<1>3. CASE Fault /\ run' = [run EXCEPT ![r].pc = pc]
  <2> DEFINE x == [run[r] EXCEPT !.pc = pc]
  <2>1. x \in HandlerRuns BY <1>1 DEF HandlerRuns
  <2>2. Becomes(r, x) BY <1>1, <1>3 DEF Becomes, HandlerRuns, RunShape
  <2>3. UNCHANGED <<place, dir, replies, ended>> /\ faults' = faults + 1
    BY <1>3 DEF Emit, Fault
  <2> HIDE DEF x
  <2>4. RunShape' /\ OthersRest(r) /\ run'[r] = x BY <2>1, <2>2, <2>3, Moves
  <2>5. QED BY <1>1, <2>3, <2>4 DEF x
<1>4. QED BY <1>2, <1>3 DEF Emit

(* A silent step moves the program counter of one run.                     *)
LEMMA GotoEffect ==
  ASSUME RunShape, NEW r \in Request, NEW pc \in Steps \cup Settling, Goto(r, pc), NoFault,
         dir' = dir \/ \E d \in Directory : dir' = [dir EXCEPT ![r] = d]
  PROVE  /\ RunShape' /\ OthersRest(r)
         /\ run'[r].pc = pc /\ run'[r].outcome = run[r].outcome
         /\ run'[r].events = run[r].events
         /\ UNCHANGED <<place, replies, ended, faults>>
<1>1. run[r] \in HandlerRuns BY DEF RunShape
<1> DEFINE x == [run[r] EXCEPT !.pc = pc]
<1>2. x \in HandlerRuns BY <1>1 DEF HandlerRuns
<1>3. Becomes(r, x) BY <1>1 DEF Becomes, HandlerRuns, RunShape, Goto
<1>4. UNCHANGED <<place, replies, ended, faults>> BY DEF Goto, NoFault
<1> HIDE DEF x
<1>5. RunShape' /\ OthersRest(r) /\ run'[r] = x BY <1>2, <1>3, <1>4, Moves
<1>6. QED BY <1>4, <1>5 DEF x

(* A failed step decides the verdict of its run.                           *)
LEMMA FailsEffect ==
  ASSUME RunShape, NEW r \in Request, Fails(r), NoFault,
         dir' = dir \/ \E d \in Directory : dir' = [dir EXCEPT ![r] = d]
  PROVE  /\ RunShape' /\ OthersRest(r)
         /\ run'[r].pc = "failing" /\ run'[r].outcome = "failed"
         /\ run'[r].events = run[r].events
         /\ UNCHANGED <<place, replies, ended, faults>>
<1>1. run[r] \in HandlerRuns BY DEF RunShape
<1> DEFINE x == [run[r] EXCEPT !.pc = "failing", !.outcome = "failed"]
<1>2. x \in HandlerRuns BY <1>1 DEF HandlerRuns, Settling, Outcome
<1>3. Becomes(r, x) BY <1>1 DEF Becomes, HandlerRuns, RunShape, Fails
<1>4. UNCHANGED <<place, replies, ended, faults>> BY DEF Fails, NoFault
<1> HIDE DEF x
<1>5. RunShape' /\ OthersRest(r) /\ run'[r] = x BY <1>2, <1>3, <1>4, Moves
<1>6. QED BY <1>4, <1>5 DEF x

(* The last step of the work decides and tells.                            *)
LEMMA CompletesEffect ==
  ASSUME RunShape, NEW r \in Request, NEW pc \in Settling, Completes(r, pc)
  PROVE  /\ RunShape' /\ OthersRest(r)
         /\ run'[r].pc = pc /\ run'[r].outcome = "completed"
         /\ \/ faults' = faults /\ run'[r].events = Append(run[r].events, "completed")
            \/ faults' # 0 /\ run'[r].events = run[r].events
         /\ UNCHANGED <<place, dir, replies, ended>>
<1>1. run[r] \in HandlerRuns /\ faults \in Nat BY DEF RunShape
<1>2. CASE /\ NoFault
           /\ run' = [run EXCEPT ![r].pc = pc, ![r].outcome = "completed",
                                 ![r].events = Append(@, "completed")]
  <2> DEFINE x == [run[r] EXCEPT !.pc = pc, !.outcome = "completed",
                              !.events = Append(run[r].events, "completed")]
  <2>0. Append(run[r].events, "completed") \in Seq(Bus)
    BY <1>1 DEF HandlerRuns, Bus, Outcome
  <2>1. x \in HandlerRuns
    <3>1. ASSUME NEW es \in Seq(Bus)
          PROVE  [run[r] EXCEPT !.pc = pc, !.outcome = "completed", !.events = es] \in HandlerRuns
      BY <1>1 DEF HandlerRuns, Outcome
    <3>2. QED BY <2>0, <3>1
  <2>2. Becomes(r, x) BY <1>1, <1>2 DEF Becomes, HandlerRuns, RunShape
  <2>3. UNCHANGED <<place, dir, replies, ended, faults>> BY <1>2 DEF Completes, NoFault
  <2> HIDE DEF x
  <2>4. RunShape' /\ OthersRest(r) /\ run'[r] = x BY <2>1, <2>2, <2>3, Moves
  <2>5. QED BY <2>3, <2>4 DEF x
<1>3. CASE Fault /\ run' = [run EXCEPT ![r].pc = pc, ![r].outcome = "completed"]
  <2> DEFINE x == [run[r] EXCEPT !.pc = pc, !.outcome = "completed"]
  <2>1. x \in HandlerRuns BY <1>1 DEF HandlerRuns, Outcome
  <2>2. Becomes(r, x) BY <1>1, <1>3 DEF Becomes, HandlerRuns, RunShape
  <2>3. UNCHANGED <<place, dir, replies, ended>> /\ faults' = faults + 1
    BY <1>3 DEF Completes, Fault
  <2> HIDE DEF x
  <2>4. RunShape' /\ OthersRest(r) /\ run'[r] = x BY <2>1, <2>2, <2>3, Moves
  <2>5. QED BY <1>1, <2>3, <2>4 DEF x
<1>4. QED BY <1>2, <1>3 DEF Completes

(* Both agents use the steps of TerminalReply, each its own instance.      *)
LEMMA AtcSteps ==
  ASSUME NEW r \in Request, NEW e, NEW pc
  PROVE  /\ Atc!Emit(r, e, pc) <=> Emit(r, e, pc)
         /\ Atc!Goto(r, pc) <=> Goto(r, pc)
         /\ Atc!Fails(r) <=> Fails(r)
         /\ Atc!Await(r, pc) <=> (Fails(r) \/ Goto(r, pc)) /\ UNCHANGED dir /\ NoFault
         /\ Atc!Completes(r, pc) <=> Completes(r, pc)
         /\ Atc!At(r, pc) <=> run[r].pc = pc
         /\ Atc!NoFault <=> NoFault
BY DEF Atc!Emit, Atc!Goto, Atc!Fails, Atc!Await, Atc!Completes, Atc!At, Atc!NoFault, Atc!Fault,
       Emit, Goto, Fails, Completes, NoFault, Fault

(* The same for triage-it.                                                 *)
LEMMA TriageSteps ==
  ASSUME NEW r \in Request, NEW e, NEW pc
  PROVE  /\ Triage!Emit(r, e, pc) <=> Emit(r, e, pc)
         /\ Triage!Goto(r, pc) <=> Goto(r, pc)
         /\ Triage!Fails(r) <=> Fails(r)
         /\ Triage!Await(r, pc) <=> (Fails(r) \/ Goto(r, pc)) /\ UNCHANGED dir /\ NoFault
         /\ Triage!Completes(r, pc) <=> Completes(r, pc)
         /\ Triage!At(r, pc) <=> run[r].pc = pc
         /\ Triage!NoFault <=> NoFault
BY DEF Triage!Emit, Triage!Goto, Triage!Fails, Triage!Await, Triage!Completes, Triage!At,
       Triage!NoFault, Triage!Fault, Emit, Goto, Fails, Completes, NoFault, Fault

(* How a run ends is the same in both instances.                           *)
LEMMA SettleSteps ==
  ASSUME NEW r \in Request
  PROVE  (Atc!Settle(r) <=> Settle(r)) /\ (Triage!Settle(r) <=> Settle(r))
<1>1. Atc!Settle(r) <=> Settle(r)
  BY DEF Atc!Settle, Atc!Cleanup, Atc!EmitFailed, Atc!ReplyFailed, Atc!Reply, Atc!Return,
         Atc!Throw, Atc!Emit, Atc!Goto, Atc!At, Atc!NoFault, Atc!Fault, Atc!Sent, Atc!Ended,
         Atc!NoRun, Settle, Cleanup, EmitFailed, ReplyFailed, Reply, Return, Throw, Emit,
         Goto, At, NoFault, Fault, Sent, Ended, NoRun
<1>2. Triage!Settle(r) <=> Settle(r)
  BY DEF Triage!Settle, Triage!Cleanup, Triage!EmitFailed, Triage!ReplyFailed, Triage!Reply,
         Triage!Return, Triage!Throw, Triage!Emit, Triage!Goto, Triage!At, Triage!NoFault,
         Triage!Fault, Triage!Sent, Triage!Ended, Triage!NoRun, Settle, Cleanup, EmitFailed,
         ReplyFailed, Reply, Return, Throw, Emit, Goto, At, NoFault, Fault, Sent, Ended, NoRun
<1>3. QED BY <1>1, <1>2

---------------------------------------------------------------------------
(* What a kind of step keeps *)

(* Appending to a history that has no verdict.                             *)
LEMMA Appended ==
  ASSUME NEW S, NEW es \in Seq(S), NEW e \in S
  PROVE  /\ Len(Append(es, e)) = Len(es) + 1 /\ Len(es) \in Nat
         /\ Append(es, e)[Len(es) + 1] = e
         /\ \A n \in 1..Len(es) : Append(es, e)[n] = es[n]
         /\ \A n \in 1..(Len(es) + 1) : n \in 1..Len(es) \/ n = Len(es) + 1
OBVIOUS

(* A step of the work: the run goes on or fails, and tells no verdict.     *)
LEMMA WorkKeeps ==
  ASSUME RunShape, NEW r \in Request, VerdictInv(r), DeliveredInv(r),
         run[r].pc \in Steps \cup {"starting"}, run'[r].pc \in Steps \cup {"failing"},
         run'[r].outcome = IF run'[r].pc = "failing" THEN "failed" ELSE run[r].outcome,
         \/ run'[r].events = run[r].events
         \/ \E e \in Atc!Event \cup Triage!Event : run'[r].events = Append(run[r].events, e),
         UNCHANGED <<place, replies, ended>>
  PROVE  VerdictInv(r)' /\ DeliveredInv(r)' /\ FilesInv(r)'
<1>1. run[r].events \in Seq(Bus) BY DEF RunShape, HandlerRuns
<1>2. \A n \in 1..Len(run[r].events) : run[r].events[n] \notin Outcome
  BY DEF VerdictInv
<1>3. \A n \in 1..Len(run'[r].events) : run'[r].events[n] \notin Outcome
  <2>1. CASE run'[r].events = run[r].events BY <1>2, <2>1
  <2>2. ASSUME NEW e \in Atc!Event \cup Triage!Event, run'[r].events = Append(run[r].events, e)
        PROVE  \A n \in 1..Len(run'[r].events) : run'[r].events[n] \notin Outcome
    <3>1. e \notin Outcome /\ e \in Bus BY DEF Atc!Event, Triage!Event, Outcome, Bus
    <3>2. QED BY <1>1, <1>2, <2>2, <3>1, Appended
  <2>3. QED BY <2>1, <2>2
<1>4. run[r].outcome = "none" BY DEF VerdictInv
<1>5. /\ run'[r].pc \notin {"idle", "starting", "replyingFailed", "cleaning", "replying",
                            "threw", "returned"}
      /\ (run'[r].pc = "failing" => run'[r].pc \notin Steps)
  BY DEF Steps, Atc!Step, Triage!Step
<1>6. VerdictInv(r)' BY <1>3, <1>4, <1>5 DEF VerdictInv
<1>7. DeliveredInv(r)' BY <1>5 DEF DeliveredInv
<1>8. FilesInv(r)' BY <1>5 DEF FilesInv
<1>9. QED BY <1>6, <1>7, <1>8

(* The work is done: the verdict and, if the bus has it, the event of it.  *)
LEMMA CompletionKeeps ==
  ASSUME RunShape, NEW r \in Request, VerdictInv(r), DeliveredInv(r), NEW pc \in {"cleaning", "replying"},
         run[r].pc = "completing", pc = "replying" => dir[r] # "there", Completes(r, pc)
  PROVE  /\ RunShape' /\ OthersRest(r)
         /\ VerdictInv(r)' /\ DeliveredInv(r)' /\ FilesInv(r)'
<1>1. run[r].events \in Seq(Bus) /\ "completed" \in Bus BY DEF RunShape, HandlerRuns, Bus, Outcome
<1>2. \A n \in 1..Len(run[r].events) : run[r].events[n] \notin Outcome
  BY DEF VerdictInv, Steps, Atc!Step
<1>3. /\ RunShape' /\ OthersRest(r)
      /\ run'[r].pc = pc /\ run'[r].outcome = "completed"
      /\ \/ run'[r].events = Append(run[r].events, "completed")
         \/ run'[r].events = run[r].events
      /\ UNCHANGED <<place, dir, replies, ended>>
  BY CompletesEffect DEF Settling
<1>4. \A n \in 1..Len(run'[r].events) :
        run'[r].events[n] \in Outcome =>
          n = Len(run'[r].events) /\ run'[r].events[n] = "completed"
  BY <1>1, <1>2, <1>3, Appended
<1>5. pc \notin Steps BY DEF Steps, Atc!Step, Triage!Step
<1>6. VerdictInv(r)' BY <1>3, <1>4, <1>5 DEF VerdictInv
<1>7. DeliveredInv(r)' BY <1>3 DEF DeliveredInv
<1>8. FilesInv(r)' BY <1>3 DEF FilesInv
<1>9. QED BY <1>3, <1>6, <1>7, <1>8

(* The place of each event in the protocol.                                *)
LEMMA Ranks ==
  /\ Atc!Rank("started") = 1 /\ Atc!Rank("project-resolution") = 2
  /\ Atc!Rank("working-copy-sync") = 3 /\ Atc!Rank("coding-agent-execution") = 4
  /\ \A e \in Outcome : Atc!Rank(e) = 5
  /\ \A e : Atc!Rank(e) \in 1..5
BY DEF Atc!Rank, Outcome

(* The number of events that each step has behind it.                      *)
LEMMA Stages ==
  /\ Stage("starting") = 0 /\ Stage("validating") = 1
  /\ \A pc \in {"scoping", "materializing", "planning", "skippingSync"} : Stage(pc) = 2
  /\ \A pc \in {"syncing", "asking", "skippingAgent"} : Stage(pc) = 3
  /\ \A pc \in {"running", "completing", "failing"} : Stage(pc) = 4
  /\ \A pc \in {"idle", "replyingFailed", "cleaning", "replying", "returned", "threw"} : Stage(pc) = 5
  /\ \A pc : Stage(pc) \in 0..5
BY DEF Stage

(* A step of ask-the-code that tells nothing.                              *)
LEMMA AskQuiet ==
  ASSUME NEW r \in AskRequest, StageInv(r), run'[r].events = run[r].events,
         run'[r].pc \notin Triage!Step \ Atc!Step,
         run'[r].outcome = "completed" => run[r].outcome = "completed",
         Stage(run[r].pc) <= Stage(run'[r].pc),
         run'[r].pc \in Atc!Step \cup {"starting"} =>
           run[r].pc \in Atc!Step \cup {"starting"} /\ Stage(run[r].pc) = Stage(run'[r].pc),
         faults' = 0 => faults = 0,
         r \in Invalid => run'[r].pc \in {"idle", "starting", "validating", "failing",
                                          "replyingFailed", "returned"}
  PROVE  StageInv(r)'
<1>1. \A n \in 1..Len(run'[r].events) : Atc!Rank(run'[r].events[n]) <= Stage(run'[r].pc)
  <2>1. Stage(run[r].pc) \in 0..5 /\ Stage(run'[r].pc) \in 0..5 BY Stages
  <2>2. \A n \in 1..Len(run[r].events) :
          Atc!Rank(run[r].events[n]) \in 1..5 /\ Atc!Rank(run[r].events[n]) <= Stage(run[r].pc)
    BY Ranks DEF StageInv
  <2>3. QED BY <2>1, <2>2
<1>2. Atc!FailsCleanly(r)' BY DEF StageInv, Atc!FailsCleanly
<1>3. QED BY <1>1, <1>2 DEF StageInv

(* A step of ask-the-code that tells the event whose turn it is.           *)
LEMMA AskTells ==
  ASSUME RunShape, NEW r \in AskRequest, r \in Request, StageInv(r), NEW e \in Atc!Event \cup Outcome,
         \/ faults' = faults /\ run'[r].events = Append(run[r].events, e)
         \/ faults' # 0 /\ run'[r].events = run[r].events,
         run'[r].pc \notin Triage!Step \ Atc!Step,
         Atc!Rank(e) = Stage(run[r].pc) + 1, Stage(run'[r].pc) = Atc!Rank(e),
         run'[r].pc \in Atc!Step \cup {"starting"} \/ run'[r].outcome = "completed" =>
           run[r].pc \in Atc!Step \cup {"starting"},
         run'[r].outcome = "completed" => Atc!Rank(e) = 5,
         r \in Invalid => /\ e \in {"started", "failed"}
                          /\ run'[r].pc \in {"validating", "replyingFailed"}
  PROVE  StageInv(r)'
<1> DEFINE es == run[r].events  new == run'[r].events  old == Stage(run[r].pc)
<1>0. es \in Seq(Atc!Event \cup Outcome) /\ Len(es) \in Nat BY DEF StageInv
<1>1. old \in 0..5 /\ Atc!Rank(e) = old + 1 /\ Stage(run'[r].pc) = old + 1 BY Stages
<1>2. \A n \in 1..Len(es) : Atc!Rank(es[n]) \in 1..5 /\ Atc!Rank(es[n]) <= old
  BY Ranks DEF StageInv
<1>3. /\ \A m, n \in 1..Len(es) : m < n => Atc!Rank(es[m]) < Atc!Rank(es[n])
      /\ faults = 0 /\ run[r].pc \in Atc!Step \cup {"starting"} => Len(es) = old
      /\ r \in Invalid => \A n \in 1..Len(es) : es[n] \in {"started", "failed"}
  BY DEF StageInv, Atc!FailsCleanly
<1>4. CASE faults' # 0 /\ new = es
  <2>1. \A n \in 1..Len(new) : Atc!Rank(new[n]) <= Stage(run'[r].pc) BY <1>1, <1>2, <1>4
  <2>2. Atc!FailsCleanly(r)' BY <1>3, <1>4 DEF Atc!FailsCleanly
  <2>3. QED BY <1>0, <1>3, <1>4, <2>1, <2>2 DEF StageInv
<1>5. CASE faults' = faults /\ new = Append(es, e)
  <2>1. /\ Len(new) = Len(es) + 1 /\ new[Len(es) + 1] = e
        /\ \A n \in 1..Len(es) : new[n] = es[n]
        /\ \A n \in 1..Len(new) : n \in 1..Len(es) \/ n = Len(es) + 1
        /\ new \in Seq(Atc!Event \cup Outcome)
    BY <1>0, <1>5, Appended
  <2>2. \A n \in 1..Len(new) : Atc!Rank(new[n]) <= Stage(run'[r].pc)
    <3> SUFFICES ASSUME NEW n \in 1..Len(new) PROVE Atc!Rank(new[n]) <= old + 1 BY <1>1
    <3>1. CASE n \in 1..Len(es)
      <4>1. new[n] = es[n] BY <2>1, <3>1
      <4>2. Atc!Rank(es[n]) \in 1..5 /\ Atc!Rank(es[n]) <= old BY <1>2, <3>1
      <4>3. QED BY <1>1, <4>1, <4>2
    <3>2. CASE n = Len(es) + 1
      <4>1. new[n] = e BY <2>1, <3>2
      <4>2. QED BY <1>1, <4>1
    <3>3. QED BY <2>1, <3>1, <3>2
  <2>3. \A m, n \in 1..Len(new) : m < n => Atc!Rank(new[m]) < Atc!Rank(new[n])
    <3> SUFFICES ASSUME NEW m \in 1..Len(new), NEW n \in 1..Len(new), m < n
                 PROVE  Atc!Rank(new[m]) < Atc!Rank(new[n])
      OBVIOUS
    <3>1. m \in 1..Len(es) /\ new[m] = es[m] BY <1>0, <2>1
    <3>2. CASE n \in 1..Len(es) BY <1>3, <2>1, <3>1, <3>2
    <3>3. CASE n = Len(es) + 1
      <4>1. new[n] = e BY <2>1, <3>3
      <4>2. Atc!Rank(es[m]) \in 1..5 /\ Atc!Rank(es[m]) <= old BY <1>2, <3>1
      <4>3. QED BY <1>1, <3>1, <4>1, <4>2
    <3>4. QED BY <2>1, <3>2, <3>3
  <2>4. faults' = 0 =>
          /\ run'[r].pc \in Atc!Step \cup {"starting"} => Len(new) = Stage(run'[r].pc)
          /\ run'[r].outcome = "completed" => Len(new) = 5
    BY <1>0, <1>1, <1>3, <1>5, <2>1
  <2>5. Atc!FailsCleanly(r)'
    BY <1>3, <2>1 DEF Atc!FailsCleanly
  <2>6. QED BY <2>1, <2>2, <2>3, <2>4, <2>5 DEF StageInv
<1>6. QED BY <1>4, <1>5

---------------------------------------------------------------------------
(* How a run ends *)

(* No files are needed once the work is over.                              *)
LEMMA PastWork ==
  ASSUME NEW r \in Request, run'[r].pc \in Settling \cup {"idle"}
  PROVE  AskFilesInv(r)' /\ TriageFilesInv(r)'
BY DEF Settling, AskFilesInv, TriageFilesInv, Atc!NeedsFiles, Triage!NeedsEvidence, Atc!Step

(* A run that is gone, or the one that a delivery starts.                  *)
LEMMA FreshRun ==
  ASSUME NEW r \in Request, run'[r] \in {NoRun, [NoRun EXCEPT !.pc = "starting"]}
  PROVE  /\ VerdictInv(r)' /\ StageInv(r)' /\ run'[r] \in HandlerRuns
         /\ run'[r].pc \in {"idle", "starting"}
<1>1. /\ run'[r].pc \in {"idle", "starting"} /\ run'[r].outcome = "none"
      /\ run'[r].events = <<>> /\ Len(run'[r].events) = 0
  BY DEF NoRun
<1>2. run'[r] \in HandlerRuns
  <2>1. <<>> \in Seq(Bus) OBVIOUS
  <2>2. NoRun \in HandlerRuns BY <2>1 DEF NoRun, HandlerRuns
  <2>3. [NoRun EXCEPT !.pc = "starting"] \in HandlerRuns BY <2>2 DEF HandlerRuns
  <2>4. QED BY <2>2, <2>3
<1>3. VerdictInv(r)' BY <1>1 DEF VerdictInv
<1>4. Stage(run'[r].pc) \in 0..5 /\ (run'[r].pc = "starting" => Stage(run'[r].pc) = 0) BY Stages
<1>5. run'[r].pc \notin Triage!Step /\ run'[r].pc \notin Atc!Step BY <1>1 DEF Triage!Step, Atc!Step
<1>6. StageInv(r)' BY <1>1, <1>4, <1>5 DEF StageInv, Atc!FailsCleanly
<1>7. QED BY <1>1, <1>2, <1>3, <1>6

(* The directory goes, or is left and known to be.                         *)
LEMMA CleanupKeeps ==
  ASSUME ReplyInv, NEW r \in Request, Cleanup(r)
  PROVE  RunShape' /\ OthersRest(r) /\ RunInv(r)'
<1>1. RunShape /\ VerdictInv(r) /\ DeliveredInv(r) /\ FilesInv(r) BY DEF ReplyInv, RunInv
<1>2. \E d \in Directory : dir' = [dir EXCEPT ![r] = d] BY DEF Cleanup, Directory
<1>3. r \in AskRequest => StageInv(r) BY DEF ReplyInv, RunInv
<1>4. CASE At(r, "cleaning") /\ Goto(r, "replying")
  <2>1. /\ RunShape' /\ OthersRest(r)
        /\ run'[r].pc = "replying" /\ run'[r].outcome = run[r].outcome
        /\ run'[r].events = run[r].events
        /\ UNCHANGED <<place, replies, ended, faults>>
    BY <1>1, <1>2, <1>4, GotoEffect DEF Cleanup, Settling
  <2>2. dir'[r] # "there"
    BY <1>1 DEF Cleanup, RunShape
  <2>3. run[r].pc = "cleaning" /\ run'[r].pc \notin Steps /\ run[r].pc \notin Steps
    BY <1>4, <2>1 DEF At, Steps, Atc!Step, Triage!Step
  <2>4. VerdictInv(r)' BY <1>1, <2>1, <2>3 DEF VerdictInv
  <2>5. DeliveredInv(r)' BY <1>1, <2>1 DEF DeliveredInv
  <2>6. FilesInv(r)' BY <2>2 DEF FilesInv
  <2>7. r \in AskRequest => StageInv(r)'
    <3> SUFFICES ASSUME r \in AskRequest PROVE StageInv(r)' OBVIOUS
    <3>1. Stage(run[r].pc) = 5 /\ Stage(run'[r].pc) = 5 BY <2>1, <2>3, Stages
    <3>2. r \notin Invalid BY <1>3, <2>3 DEF StageInv
    <3>3. run'[r].pc \notin Triage!Step /\ run'[r].pc \notin Atc!Step \cup {"starting"}
      BY <2>1, <2>3 DEF Steps
    <3>4. QED BY <1>3, <2>1, <3>1, <3>2, <3>3, AskQuiet
  <2>8. AskFilesInv(r)' /\ TriageFilesInv(r)' BY <2>1, PastWork DEF Settling
  <2>9. QED BY <2>1, <2>4, <2>5, <2>6, <2>7, <2>8 DEF RunInv
<1>5. CASE /\ run[r].pc \in {"failing", "replyingFailed", "returned"}
           /\ UNCHANGED <<place, run, replies, ended>>
  <2>1. RunShape' /\ OthersRest(r) /\ UNCHANGED faults
    BY <1>1, <1>2, <1>5 DEF RunShape, OthersRest, Cleanup, NoFault
  <2>2. VerdictInv(r)' /\ DeliveredInv(r)' /\ FilesInv(r)'
    BY <1>1, <1>5 DEF VerdictInv, DeliveredInv, FilesInv
  <2>3. r \in AskRequest => StageInv(r)'
    BY <1>3, <1>5, <2>1 DEF StageInv, Atc!FailsCleanly
  <2>4. AskFilesInv(r)' /\ TriageFilesInv(r)' BY <1>5, PastWork DEF Settling
  <2>5. QED BY <2>1, <2>2, <2>3, <2>4 DEF RunInv
<1>6. QED BY <1>4, <1>5 DEF Cleanup

(* The failure is told after everything else.                              *)
LEMMA EmitFailedKeeps ==
  ASSUME ReplyInv, NEW r \in Request, EmitFailed(r)
  PROVE  RunShape' /\ OthersRest(r) /\ RunInv(r)'
<1>1. RunShape /\ VerdictInv(r) /\ DeliveredInv(r) /\ FilesInv(r) BY DEF ReplyInv, RunInv
<1>2. run[r].pc = "failing" /\ run[r].outcome = "failed" BY <1>1 DEF EmitFailed, At, VerdictInv
<1>3. /\ RunShape' /\ OthersRest(r)
      /\ run'[r].pc = "replyingFailed" /\ run'[r].outcome = run[r].outcome
      /\ \/ faults' = faults /\ run'[r].events = Append(run[r].events, "failed")
         \/ faults' # 0 /\ run'[r].events = run[r].events
      /\ UNCHANGED <<place, dir, replies, ended>>
  BY <1>1, EmitEffect DEF EmitFailed, Bus, Outcome, Settling
<1>4. run[r].events \in Seq(Bus) /\ "failed" \in Bus BY <1>1 DEF RunShape, HandlerRuns, Bus, Outcome
<1>5. \A n \in 1..Len(run[r].events) : run[r].events[n] \notin Outcome
  BY <1>1, <1>2 DEF VerdictInv
<1>6. \A n \in 1..Len(run'[r].events) :
        run'[r].events[n] \in Outcome =>
          n = Len(run'[r].events) /\ run'[r].events[n] = "failed"
  <2>1. CASE run'[r].events = run[r].events BY <1>5, <2>1
  <2>2. CASE run'[r].events = Append(run[r].events, "failed")
    BY <1>4, <1>5, <2>2, Appended
  <2>3. QED BY <1>3, <2>1, <2>2
<1>7. run'[r].pc \notin Steps BY <1>3 DEF Steps, Atc!Step, Triage!Step
<1>8. VerdictInv(r)' BY <1>2, <1>3, <1>6, <1>7 DEF VerdictInv
<1>9. DeliveredInv(r)' /\ FilesInv(r)' BY <1>1, <1>3 DEF DeliveredInv, FilesInv
<1>10. r \in AskRequest => StageInv(r)'
  <2> SUFFICES ASSUME r \in AskRequest PROVE StageInv(r)' OBVIOUS
  <2>1. StageInv(r) BY DEF ReplyInv, RunInv
  <2>2. Stage(run[r].pc) = 4 /\ Stage(run'[r].pc) = 5 /\ Atc!Rank("failed") = 5
    BY <1>2, <1>3, Stages, Ranks DEF Outcome
  <2>3. run'[r].pc \notin Triage!Step /\ run'[r].pc \notin Atc!Step \cup {"starting"}
    BY <1>3, <1>7 DEF Steps
  <2>4. run'[r].outcome # "completed" BY <1>2, <1>3
  <2> DEFINE e == "failed"
  <2>5. e \in Atc!Event \cup Outcome BY DEF Outcome
  <2>6. QED BY <1>1, <1>3, <2>1, <2>2, <2>3, <2>4, <2>5, AskTells
<1>11. AskFilesInv(r)' /\ TriageFilesInv(r)' BY <1>3, PastWork DEF Settling
<1>12. QED BY <1>3, <1>8, <1>9, <1>10, <1>11 DEF RunInv

(* The reply and the record of a run are all that a reply step changes.    *)
LEMMA ReplyEffect ==
  ASSUME RunShape, NEW r \in Request, NEW pc \in {"returned", "threw"}, NEW status \in Outcome,
         run' = [run EXCEPT ![r].pc = pc],
         replies' \in {replies, Sent(r, status)}, faults' \in {faults, faults + 1},
         UNCHANGED <<place, dir, ended>>
  PROVE  /\ RunShape' /\ OthersRest(r)
         /\ run'[r].pc = pc /\ run'[r].outcome = run[r].outcome /\ run'[r].events = run[r].events
         /\ replies[r] \subseteq replies'[r]
         /\ replies' = Sent(r, status) => status \in replies'[r]
<1>1. run[r] \in HandlerRuns BY DEF RunShape
<1> DEFINE x == [run[r] EXCEPT !.pc = pc]
<1>2. x \in HandlerRuns BY <1>1 DEF HandlerRuns, Settling
<1>3. run' = [run EXCEPT ![r] = x] BY <1>1
<1>4. x.pc = pc /\ x.outcome = run[r].outcome /\ x.events = run[r].events
  BY <1>1 DEF HandlerRuns
<1> HIDE DEF x
<1>5. run' \in [Request -> HandlerRuns] /\ run'[r] = x /\ \A q \in Request \ {r} : run'[q] = run[q]
  BY <1>2, <1>3 DEF RunShape
<1>6. /\ replies' \in [Request -> SUBSET Outcome] /\ replies[r] \subseteq replies'[r]
      /\ (replies' = Sent(r, status) => status \in replies'[r])
      /\ \A q \in Request \ {r} : replies'[q] = replies[q]
  BY DEF RunShape, Sent
<1>7. faults \in Nat /\ faults' \in Nat /\ (faults' = 0 => faults = 0) BY DEF RunShape
<1>8. RunShape' BY <1>5, <1>6, <1>7 DEF RunShape
<1>9. OthersRest(r) BY <1>5, <1>6, <1>7 DEF OthersRest
<1>10. QED BY <1>4, <1>5, <1>6, <1>8, <1>9

(* A reply goes out after the verdict, and says the same.                  *)
LEMMA RepliesKeep ==
  ASSUME ReplyInv, NEW r \in Request, ReplyFailed(r) \/ Reply(r)
  PROVE  RunShape' /\ OthersRest(r) /\ RunInv(r)'
<1>1. RunShape /\ VerdictInv(r) /\ DeliveredInv(r) /\ FilesInv(r) BY DEF ReplyInv, RunInv
<1>2. PICK pc \in {"returned", "threw"}, status \in Outcome :
        /\ run' = [run EXCEPT ![r].pc = pc]
        /\ replies' \in {replies, Sent(r, status)} /\ faults' \in {faults, faults + 1}
        /\ UNCHANGED <<place, dir, ended>>
        /\ run[r].pc \in {"replyingFailed", "replying"} /\ run[r].outcome = status
        /\ pc = "threw" => run[r].pc = "replying"
        /\ pc = "returned" /\ status = "completed" => replies' = Sent(r, status)
  <2>1. CASE ReplyFailed(r)
    <3>1. run[r].pc = "replyingFailed" /\ run[r].outcome = "failed" BY <1>1, <2>1 DEF ReplyFailed, At, VerdictInv
    <3>2. "failed" \in Outcome /\ "failed" # "completed" BY DEF Outcome
    <3>3. /\ run' = [run EXCEPT ![r].pc = "returned"]
          /\ replies' \in {replies, Sent(r, "failed")} /\ faults' \in {faults, faults + 1}
          /\ UNCHANGED <<place, dir, ended>>
      BY <2>1 DEF ReplyFailed, NoFault, Fault
    <3>4. QED BY <3>1, <3>2, <3>3
  <2>2. CASE Reply(r)
    <3>1. run[r].pc = "replying" /\ run[r].outcome = "completed" BY <1>1, <2>2 DEF Reply, At, VerdictInv
    <3>2. "completed" \in Outcome BY DEF Outcome
    <3>3. /\ \/ run' = [run EXCEPT ![r].pc = "returned"] /\ replies' = Sent(r, "completed")
             \/ run' = [run EXCEPT ![r].pc = "threw"]
          /\ replies' \in {replies, Sent(r, "completed")} /\ faults' \in {faults, faults + 1}
          /\ UNCHANGED <<place, dir, ended>>
      BY <2>2 DEF Reply, NoFault, Fault
    <3>4. QED BY <3>1, <3>2, <3>3
  <2>3. QED BY <2>1, <2>2
<1>3. /\ RunShape' /\ OthersRest(r)
      /\ run'[r].pc = pc /\ run'[r].outcome = run[r].outcome /\ run'[r].events = run[r].events
      /\ replies[r] \subseteq replies'[r]
      /\ replies' = Sent(r, status) => status \in replies'[r]
  BY <1>1, <1>2, ReplyEffect
<1>4. run'[r].pc \notin Steps /\ run[r].pc \notin Steps BY <1>2, <1>3 DEF Steps, Atc!Step, Triage!Step
<1>5. run[r].pc = "replying" => dir[r] # "there" BY <1>1 DEF FilesInv
<1>6. (pc = "threw" => run[r].outcome = "completed") /\ status \in Outcome
  BY <1>1, <1>2 DEF VerdictInv
<1>7. VerdictInv(r)' BY <1>1, <1>2, <1>3, <1>4, <1>6 DEF VerdictInv
<1>8. DeliveredInv(r)' BY <1>1, <1>2, <1>3 DEF DeliveredInv
<1>9. FilesInv(r)' BY <1>2, <1>3, <1>5 DEF FilesInv
<1>10. r \in AskRequest => StageInv(r)'
  <2> SUFFICES ASSUME r \in AskRequest PROVE StageInv(r)' OBVIOUS
  <2>1. StageInv(r) BY DEF ReplyInv, RunInv
  <2>2. Stage(run[r].pc) = 5 /\ Stage(run'[r].pc) = 5 BY <1>2, <1>3, Stages
  <2>3. run'[r].pc \notin Triage!Step /\ run'[r].pc \notin Atc!Step \cup {"starting"}
    BY <1>2, <1>3, <1>4 DEF Steps
  <2>4. r \in Invalid => run'[r].pc = "returned" BY <2>1, <1>2, <1>3 DEF StageInv
  <2>5. faults' = 0 => faults = 0 BY <1>3 DEF OthersRest
  <2>6. QED BY <1>3, <2>1, <2>2, <2>3, <2>4, <2>5, AskQuiet
<1>11. AskFilesInv(r)' /\ TriageFilesInv(r)' BY <1>2, <1>3, PastWork DEF Settling
<1>12. QED BY <1>3, <1>7, <1>8, <1>9, <1>10, <1>11 DEF RunInv

(* The run of r is gone, or has just begun: its history is all there is.   *)
LEMMA FreshKeeps ==
  ASSUME ReplyInv, NEW r \in Request, NEW x \in {NoRun, [NoRun EXCEPT !.pc = "starting"]},
         run' = [run EXCEPT ![r] = x], faults' \in {faults, faults + 1},
         \/ UNCHANGED dir /\ dir[r] # "there"
         \/ dir' = [dir EXCEPT ![r] = IF @ = "there" THEN "left" ELSE @],
         \/ UNCHANGED <<place, ended>>
         \/ /\ place' \in {place, [place EXCEPT ![r] = "acked"]}
            /\ ended' = [ended EXCEPT ![r] = @ \cup {run[r].outcome}]
            /\ run[r].pc = "returned",
         UNCHANGED replies
  PROVE  RunShape' /\ OthersRest(r) /\ RunInv(r)'
<1>1. RunShape /\ VerdictInv(r) /\ DeliveredInv(r) BY DEF ReplyInv, RunInv
<1>2. run'[r] = x BY <1>1 DEF RunShape
<1>3. VerdictInv(r)' /\ StageInv(r)' /\ x \in HandlerRuns /\ run'[r].pc \in {"idle", "starting"}
  BY <1>2, FreshRun
<1>4. run' \in [Request -> HandlerRuns] /\ \A q \in Request \ {r} : run'[q] = run[q]
  BY <1>1, <1>3 DEF RunShape
<1>5. /\ dir' \in [Request -> Directory] /\ dir'[r] # "there"
      /\ \A q \in Request \ {r} : dir'[q] = dir[q]
  BY <1>1 DEF RunShape, Directory
<1>6. /\ place' \in [Request -> {"absent", "queued", "acked", "dead"}]
      /\ ended' \in [Request -> SUBSET Outcome]
      /\ \A q \in Request \ {r} : place'[q] = place[q] /\ ended'[q] = ended[q]
      /\ DeliveredInv(r)'
  <2>1. CASE UNCHANGED <<place, ended>>
    BY <1>1, <1>3, <2>1 DEF RunShape, DeliveredInv
  <2>2. CASE /\ place' \in {place, [place EXCEPT ![r] = "acked"]}
             /\ ended' = [ended EXCEPT ![r] = @ \cup {run[r].outcome}]
             /\ run[r].pc = "returned"
    <3>1. run[r].outcome \in Outcome BY <1>1, <2>2 DEF VerdictInv
    <3>2. ended[r] \in SUBSET Outcome /\ ended'[r] = ended[r] \cup {run[r].outcome}
      BY <1>1, <2>2 DEF RunShape
    <3>3. run[r].outcome = "completed" => "completed" \in replies[r]
      BY <1>1, <2>2 DEF DeliveredInv
    <3>4. DeliveredInv(r)'
      BY <1>1, <1>3, <3>1, <3>2, <3>3 DEF DeliveredInv, Outcome
    <3>5. QED BY <1>1, <2>2, <3>1, <3>4 DEF RunShape
  <2>3. QED BY <2>1, <2>2
<1>7. faults \in Nat /\ faults' \in Nat /\ (faults' = 0 => faults = 0) BY <1>1 DEF RunShape
<1>8. RunShape' BY <1>1, <1>4, <1>5, <1>6, <1>7 DEF RunShape
<1>9. OthersRest(r) BY <1>4, <1>5, <1>6, <1>7 DEF OthersRest
<1>10. FilesInv(r)' BY <1>5 DEF FilesInv
<1>11. AskFilesInv(r)' /\ TriageFilesInv(r)'
  <2>1. CASE run'[r].pc = "idle" BY <2>1, PastWork
  <2>2. CASE run'[r].pc = "starting"
    BY <1>5, <2>2 DEF AskFilesInv, TriageFilesInv, Atc!NeedsFiles, Triage!NeedsEvidence, Atc!Step
  <2>3. QED BY <1>3, <2>1, <2>2
<1>12. QED BY <1>3, <1>6, <1>8, <1>9, <1>10, <1>11 DEF RunInv

(* Every step by which a run ends.                                         *)
LEMMA SettleKeeps ==
  ASSUME ReplyInv, NEW r \in Request, Settle(r)
  PROVE  RunShape' /\ OthersRest(r) /\ RunInv(r)'
<1>1. CASE Return(r)
  <2>1. NoRun \in {NoRun, [NoRun EXCEPT !.pc = "starting"]} OBVIOUS
  <2>2. /\ run' = [run EXCEPT ![r] = NoRun] /\ faults' \in {faults, faults + 1}
        /\ UNCHANGED <<dir, replies>> /\ dir[r] # "there" /\ run[r].pc = "returned"
        /\ place' \in {place, [place EXCEPT ![r] = "acked"]}
        /\ ended' = [ended EXCEPT ![r] = @ \cup {run[r].outcome}]
    BY <1>1 DEF Return, Ended, At, NoFault, Fault
  <2>3. QED BY <2>1, <2>2, FreshKeeps
<1>2. CASE Throw(r)
  <2>1. dir[r] # "there" BY <1>2 DEF ReplyInv, RunInv, FilesInv, Throw, At
  <2>2. run' = [run EXCEPT ![r] = NoRun] /\ UNCHANGED <<place, dir, replies, ended, faults>>
    BY <1>2 DEF Throw
  <2>3. QED BY <2>1, <2>2, FreshKeeps
<1>3. QED BY <1>1, <1>2, CleanupKeeps, EmitFailedKeeps, RepliesKeep DEF Settle

(* Deliveries, crashes and the queue.                                      *)
LEMMA DeliveryKeeps ==
  ASSUME ReplyInv, NEW r \in Request, Delivery(r)
  PROVE  RunShape' /\ OthersRest(r) /\ RunInv(r)'
<1>1. RunShape /\ RunInv(r) /\ VerdictInv(r) /\ DeliveredInv(r) /\ FilesInv(r)
  BY DEF ReplyInv, RunInv
<1>2. CASE Deliver(r)
  <2>1. dir[r] # "there" BY <1>1, <1>2 DEF FilesInv, Deliver, Running
  <2>2. /\ run' = [run EXCEPT ![r] = [NoRun EXCEPT !.pc = "starting"]]
        /\ UNCHANGED <<place, dir, replies, ended, faults>>
    BY <1>2 DEF Deliver
  <2>3. QED BY <2>1, <2>2, FreshKeeps
<1>3. CASE Crash(r)
  <2>1. /\ run' = [run EXCEPT ![r] = NoRun] /\ faults' = faults + 1
        /\ dir' = [dir EXCEPT ![r] = IF @ = "there" THEN "left" ELSE @]
        /\ UNCHANGED <<place, replies, ended>>
    BY <1>3 DEF Crash, Fault
  <2>2. QED BY <2>1, FreshKeeps
<1>4. CASE DeadLetter(r) \/ Duplicate(r)
  <2>1. PICK p \in {"acked", "dead"} :
          /\ place' = [place EXCEPT ![r] = p] /\ UNCHANGED <<run, dir, replies, ended, faults>>
          /\ p = "acked" => ended[r] # {}
    BY <1>4 DEF DeadLetter, Duplicate
  <2>2. RunShape' BY <1>1, <2>1 DEF RunShape
  <2>3. OthersRest(r) BY <1>1, <2>1 DEF RunShape, OthersRest
  <2>4. place'[r] = p /\ ended[r] \in SUBSET Outcome BY <1>1, <2>1 DEF RunShape
  <2>5. DeliveredInv(r)' BY <1>1, <2>1, <2>4 DEF DeliveredInv, Outcome
  <2>6. VerdictInv(r)' /\ FilesInv(r)' BY <1>1, <2>1 DEF VerdictInv, FilesInv
  <2>7. StageInv(r) => StageInv(r)' BY <2>1 DEF StageInv, Atc!FailsCleanly
  <2>8. AskFilesInv(r) => AskFilesInv(r)' BY <2>1 DEF AskFilesInv, Atc!NeedsFiles
  <2>9. TriageFilesInv(r) => TriageFilesInv(r)' BY <2>1 DEF TriageFilesInv, Triage!NeedsEvidence
  <2>10. QED BY <1>1, <2>2, <2>3, <2>5, <2>6, <2>7, <2>8, <2>9 DEF RunInv
<1>5. QED BY <1>2, <1>3, <1>4 DEF Delivery

---------------------------------------------------------------------------
(* ask-the-code *)

(* A step that tells nothing keeps all but what it does to the files.      *)
LEMMA AskMoves ==
  ASSUME ReplyInv, NEW r \in AskRequest, r \in Request, run[r].pc \in Atc!Step, NEW pc \in Atc!Step,
         (Fails(r) \/ Goto(r, pc)) /\ NoFault,
         dir' = dir \/ \E d \in Directory : dir' = [dir EXCEPT ![r] = d],
         Stage(run[r].pc) = Stage(pc), r \in Invalid => Fails(r),
         Goto(r, pc) /\ run'[r].pc = pc => AskFilesInv(r)'
  PROVE  RunShape' /\ OthersRest(r) /\ RunInv(r)'
<1>1. RunShape /\ VerdictInv(r) /\ DeliveredInv(r) /\ StageInv(r) BY DEF ReplyInv, RunInv
<1>2. /\ RunShape' /\ OthersRest(r) /\ run'[r].events = run[r].events
      /\ \/ run'[r].pc = "failing" /\ run'[r].outcome = "failed"
         \/ run'[r].pc = pc /\ run'[r].outcome = run[r].outcome /\ Goto(r, pc)
      /\ UNCHANGED <<place, replies, ended, faults>>
      /\ Fails(r) => run'[r].pc = "failing"
  <2>1. CASE Fails(r) BY <1>1, <2>1, FailsEffect
  <2>2. CASE Goto(r, pc) /\ ~Fails(r) BY <1>1, <2>2, GotoEffect DEF Steps
  <2>3. QED BY <2>1, <2>2
<1>3. pc # "failing" /\ pc \in Steps /\ run[r].pc \in Steps BY DEF Atc!Step, Steps
<1>4. VerdictInv(r)' /\ DeliveredInv(r)' /\ FilesInv(r)' BY <1>1, <1>2, <1>3, WorkKeeps
<1>5. Stage(run[r].pc) \in 0..4 /\ Stage("failing") = 4 BY Stages DEF Atc!Step
<1>6. run[r].outcome # "completed" BY <1>1, <1>3 DEF VerdictInv
<1>7. StageInv(r)'
  <2>1. Stage(run[r].pc) <= Stage(run'[r].pc) BY <1>2, <1>5
  <2>2. "failing" \notin Atc!Step \cup {"starting"} \cup Triage!Step BY DEF Atc!Step, Triage!Step
  <2>3. run'[r].pc \notin Triage!Step \ Atc!Step BY <1>2, <2>2
  <2>4. run'[r].pc \in Atc!Step \cup {"starting"} => Stage(run[r].pc) = Stage(run'[r].pc)
    BY <1>2, <2>2
  <2>5. r \in Invalid => run'[r].pc = "failing" BY <1>2
  <2>6. QED BY <1>1, <1>2, <1>6, <2>1, <2>3, <2>4, <2>5, AskQuiet
<1>8. AskFilesInv(r)'
  <2>1. CASE run'[r].pc = "failing" BY <2>1, PastWork DEF Settling
  <2>2. QED BY <1>2, <2>1
<1>9. r \notin TriageRequest BY AgentsAssumption
<1>10. QED BY <1>2, <1>4, <1>7, <1>8, <1>9 DEF RunInv

(* A step that tells a stage. *)
LEMMA AskSpeaks ==
  ASSUME ReplyInv, NEW r \in AskRequest, r \in Request, run[r].pc \in Atc!Step \cup {"starting"},
         NEW pc \in Atc!Step, NEW e \in Atc!Event, Emit(r, e, pc),
         Atc!Rank(e) = Stage(run[r].pc) + 1, Stage(pc) = Atc!Rank(e),
         r \in Invalid => e = "started" /\ pc = "validating",
         UNCHANGED dir /\ run'[r].pc = pc => AskFilesInv(r)'
  PROVE  RunShape' /\ OthersRest(r) /\ RunInv(r)'
<1>1. RunShape /\ VerdictInv(r) /\ DeliveredInv(r) /\ StageInv(r) BY DEF ReplyInv, RunInv
<1>2. e \in Bus /\ e \in Atc!Event \cup Outcome /\ pc \in Steps \cup Settling BY DEF Bus, Steps
<1>3. /\ RunShape' /\ OthersRest(r)
      /\ run'[r].pc = pc /\ run'[r].outcome = run[r].outcome
      /\ \/ faults' = faults /\ run'[r].events = Append(run[r].events, e)
         \/ faults' # 0 /\ run'[r].events = run[r].events
      /\ UNCHANGED <<place, dir, replies, ended>>
  BY <1>1, <1>2, EmitEffect
<1>4. pc # "failing" /\ pc \in Steps /\ run[r].pc \in Steps \cup {"starting"}
  BY DEF Atc!Step, Steps
<1>5. VerdictInv(r)' /\ DeliveredInv(r)' /\ FilesInv(r)' BY <1>1, <1>3, <1>4, WorkKeeps
<1>6. run'[r].outcome # "completed" BY <1>1, <1>3, <1>4 DEF VerdictInv
<1>7. pc \notin Triage!Step \ Atc!Step OBVIOUS
<1>8. StageInv(r)' BY <1>1, <1>2, <1>3, <1>6, <1>7, AskTells
<1>9. r \notin TriageRequest BY AgentsAssumption
<1>10. QED BY <1>3, <1>5, <1>8, <1>9 DEF RunInv

(* Every step of ask-the-code's handler.                                   *)
LEMMA AskKeeps ==
  ASSUME ReplyInv, NEW r \in AskRequest, Atc!handleAtcMessage(r)
  PROVE  RunShape' /\ OthersRest(r) /\ RunInv(r)'
<1>0. r \in Request BY AgentsAssumption
<1>1. RunShape /\ VerdictInv(r) /\ DeliveredInv(r) /\ StageInv(r) /\ AskFilesInv(r)
  BY <1>0 DEF ReplyInv, RunInv
<1>2. CASE Atc!Start(r)
  <2>1. run[r].pc = "starting" /\ Emit(r, "started", "validating")
    BY <1>0, <1>2, AtcSteps DEF Atc!Start
  <2>2. "started" \in Atc!Event /\ "validating" \in Atc!Step BY DEF Atc!Event, Atc!Step
  <2>3. Stage("starting") = 0 /\ Stage("validating") = 1 /\ Atc!Rank("started") = 1 BY Stages, Ranks
  <2>4. UNCHANGED dir /\ run'[r].pc = "validating" => AskFilesInv(r)'
    BY <1>1, <2>1 DEF AskFilesInv, Atc!NeedsFiles
  <2>5. QED BY <1>0, <2>1, <2>2, <2>3, <2>4, AskSpeaks
<1>3. CASE Atc!Validate(r)
  <2>1. run[r].pc = "validating" BY <1>0, <1>3, AtcSteps DEF Atc!Validate
  <2>2. /\ "project-resolution" \in Atc!Event /\ {"scoping", "validating"} \subseteq Atc!Step
        /\ run[r].pc \in Atc!Step \cup {"starting"} /\ run[r].pc \in Atc!Step
    BY <2>1 DEF Atc!Event, Atc!Step
  <2>3. CASE r \in Invalid /\ Fails(r) /\ NoFault /\ UNCHANGED dir
    <3>1. Goto(r, "validating") /\ run'[r].pc = "validating" => AskFilesInv(r)'
      BY <1>1, <2>1, <2>3 DEF AskFilesInv, Atc!NeedsFiles
    <3>2. QED BY <1>0, <2>1, <2>2, <2>3, <3>1, AskMoves
  <2>4. CASE r \notin Invalid /\ Emit(r, "project-resolution", "scoping")
    <3>1. Stage(run[r].pc) = 1 /\ Stage("scoping") = 2 /\ Atc!Rank("project-resolution") = 2
      BY <2>1, Stages, Ranks
    <3>2. UNCHANGED dir /\ run'[r].pc = "scoping" => AskFilesInv(r)'
      BY <1>1, <2>1 DEF AskFilesInv, Atc!NeedsFiles
    <3>3. QED BY <1>0, <2>2, <2>4, <3>1, <3>2, AskSpeaks
  <2>5. QED BY <1>0, <1>3, <2>3, <2>4, AtcSteps DEF Atc!Validate
<1>4. CASE Atc!resolveProjectScope(r)
  <2>1. PICK pc \in {"skippingSync", "materializing"} :
          /\ run[r].pc = "scoping" /\ (Fails(r) \/ Goto(r, pc)) /\ UNCHANGED dir /\ NoFault
          /\ pc = "materializing" => r \notin ScopeOnly
    BY <1>0, <1>4, AtcSteps DEF Atc!resolveProjectScope
  <2>2. pc \in Atc!Step /\ run[r].pc \in Atc!Step BY <2>1 DEF Atc!Step
  <2>3. Stage(run[r].pc) = Stage(pc) BY <2>1, Stages
  <2>4. r \notin Invalid BY <1>1, <2>1 DEF StageInv
  <2>5. run'[r].pc = pc => AskFilesInv(r)' BY <1>1, <2>1 DEF AskFilesInv, Atc!NeedsFiles
  <2>6. QED BY <1>0, <2>1, <2>2, <2>3, <2>4, <2>5, AskMoves
<1>5. CASE Atc!SkipSync(r)
  <2>1. run[r].pc = "skippingSync" /\ Emit(r, "working-copy-sync", "skippingAgent")
    BY <1>0, <1>5, AtcSteps DEF Atc!SkipSync
  <2>2. "working-copy-sync" \in Atc!Event /\ "skippingAgent" \in Atc!Step /\ run[r].pc \in Atc!Step
    BY <2>1 DEF Atc!Event, Atc!Step
  <2>3. Stage(run[r].pc) = 2 /\ Stage("skippingAgent") = 3 /\ Atc!Rank("working-copy-sync") = 3
    BY <2>1, Stages, Ranks
  <2>4. r \notin Invalid BY <1>1, <2>1 DEF StageInv
  <2>5. UNCHANGED dir /\ run'[r].pc = "skippingAgent" => AskFilesInv(r)'
    BY <1>1, <2>1 DEF AskFilesInv, Atc!NeedsFiles
  <2>6. QED BY <1>0, <2>1, <2>2, <2>3, <2>4, <2>5, AskSpeaks
<1>6. CASE Atc!SkipAgent(r)
  <2>1. run[r].pc = "skippingAgent" /\ Emit(r, "coding-agent-execution", "completing")
    BY <1>0, <1>6, AtcSteps DEF Atc!SkipAgent
  <2>2. "coding-agent-execution" \in Atc!Event /\ "completing" \in Atc!Step /\ run[r].pc \in Atc!Step
    BY <2>1 DEF Atc!Event, Atc!Step
  <2>3. Stage(run[r].pc) = 3 /\ Stage("completing") = 4 /\ Atc!Rank("coding-agent-execution") = 4
    BY <2>1, Stages, Ranks
  <2>4. r \notin Invalid BY <1>1, <2>1 DEF StageInv
  <2>5. UNCHANGED dir /\ run'[r].pc = "completing" => AskFilesInv(r)'
    BY <1>1, <2>1 DEF AskFilesInv, Atc!NeedsFiles
  <2>6. QED BY <1>0, <2>1, <2>2, <2>3, <2>4, <2>5, AskSpeaks
<1>7. CASE Atc!materializeAttachments(r)
  <2>1. /\ run[r].pc = "materializing" /\ (Fails(r) \/ Goto(r, "planning")) /\ NoFault
        /\ dir' = dir \/ dir' = [dir EXCEPT ![r] = "there"]
    BY <1>0, <1>7, AtcSteps DEF Atc!materializeAttachments
  <2>2. "planning" \in Atc!Step /\ run[r].pc \in Atc!Step BY <2>1 DEF Atc!Step
  <2>3. Stage(run[r].pc) = Stage("planning") BY <2>1, Stages
  <2>4. r \notin Invalid /\ r \notin ScopeOnly BY <1>1, <2>1 DEF StageInv, AskFilesInv
  <2>5. run'[r].pc = "planning" => dir' = [dir EXCEPT ![r] = "there"]
    <3>1. Fails(r) => run'[r].pc = "failing" BY <1>0, <1>1, <2>1, FailsEffect DEF Directory
    <3>2. QED BY <1>0, <1>7, <3>1, AtcSteps DEF Atc!materializeAttachments
  <2>6. run'[r].pc = "planning" => AskFilesInv(r)'
    BY <1>0, <1>1, <2>4, <2>5 DEF AskFilesInv, Atc!NeedsFiles, RunShape
  <2>7. QED BY <1>0, <2>1, <2>2, <2>3, <2>4, <2>6, AskMoves DEF Directory
<1>8. CASE Atc!Plan(r)
  <2>1. PICK pc \in {"asking", "syncing"} :
          run[r].pc = "planning" /\ Emit(r, "working-copy-sync", pc)
    BY <1>0, <1>8, AtcSteps DEF Atc!Plan
  <2>2. "working-copy-sync" \in Atc!Event /\ pc \in Atc!Step /\ run[r].pc \in Atc!Step
    BY <2>1 DEF Atc!Event, Atc!Step
  <2>3. Stage(run[r].pc) = 2 /\ Stage(pc) = 3 /\ Atc!Rank("working-copy-sync") = 3
    BY <2>1, Stages, Ranks
  <2>4. r \notin Invalid BY <1>1, <2>1 DEF StageInv
  <2>5. UNCHANGED dir /\ run'[r].pc = pc => AskFilesInv(r)'
    BY <1>1, <2>1 DEF AskFilesInv, Atc!NeedsFiles
  <2>6. QED BY <1>0, <2>1, <2>2, <2>3, <2>4, <2>5, AskSpeaks
<1>9. CASE Atc!syncWorkingCopies(r)
  <2>1. run[r].pc = "syncing" /\ (Fails(r) \/ Goto(r, "asking")) /\ UNCHANGED dir /\ NoFault
    BY <1>0, <1>9, AtcSteps DEF Atc!syncWorkingCopies
  <2>2. "asking" \in Atc!Step /\ run[r].pc \in Atc!Step BY <2>1 DEF Atc!Step
  <2>3. Stage(run[r].pc) = Stage("asking") BY <2>1, Stages
  <2>4. r \notin Invalid BY <1>1, <2>1 DEF StageInv
  <2>5. run'[r].pc = "asking" => AskFilesInv(r)' BY <1>1, <2>1 DEF AskFilesInv, Atc!NeedsFiles
  <2>6. QED BY <1>0, <2>1, <2>2, <2>3, <2>4, <2>5, AskMoves
<1>10. CASE Atc!Ask(r)
  <2>1. run[r].pc = "asking" /\ Emit(r, "coding-agent-execution", "running")
    BY <1>0, <1>10, AtcSteps DEF Atc!Ask
  <2>2. "coding-agent-execution" \in Atc!Event /\ "running" \in Atc!Step /\ run[r].pc \in Atc!Step
    BY <2>1 DEF Atc!Event, Atc!Step
  <2>3. Stage(run[r].pc) = 3 /\ Stage("running") = 4 /\ Atc!Rank("coding-agent-execution") = 4
    BY <2>1, Stages, Ranks
  <2>4. r \notin Invalid BY <1>1, <2>1 DEF StageInv
  <2>5. UNCHANGED dir /\ run'[r].pc = "running" => AskFilesInv(r)'
    BY <1>1, <2>1 DEF AskFilesInv, Atc!NeedsFiles
  <2>6. QED BY <1>0, <2>1, <2>2, <2>3, <2>4, <2>5, AskSpeaks
<1>11. CASE Atc!runSkill(r)
  <2>1. run[r].pc = "running" /\ (Fails(r) \/ Goto(r, "completing")) /\ UNCHANGED dir /\ NoFault
    BY <1>0, <1>11, AtcSteps DEF Atc!runSkill
  <2>2. "completing" \in Atc!Step /\ run[r].pc \in Atc!Step BY <2>1 DEF Atc!Step
  <2>3. Stage(run[r].pc) = Stage("completing") BY <2>1, Stages
  <2>4. r \notin Invalid /\ r \notin ScopeOnly BY <1>1, <2>1 DEF StageInv, AskFilesInv
  <2>5. run'[r].pc = "completing" => AskFilesInv(r)'
    BY <1>1, <2>1, <2>4 DEF AskFilesInv, Atc!NeedsFiles
  <2>6. QED BY <1>0, <2>1, <2>2, <2>3, <2>4, <2>5, AskMoves
<1>12. CASE Atc!Complete(r)
  <2>1. PICK pc \in {"cleaning", "replying"} :
          /\ run[r].pc = "completing" /\ Completes(r, pc)
          /\ pc = "replying" => r \in ScopeOnly
    BY <1>0, <1>12, AtcSteps DEF Atc!Complete
  <2>2. pc = "replying" => dir[r] # "there" BY <1>1, <2>1 DEF AskFilesInv
  <2>3. RunShape' /\ OthersRest(r) /\ VerdictInv(r)' /\ DeliveredInv(r)' /\ FilesInv(r)'
    BY <1>0, <1>1, <2>1, <2>2, CompletionKeeps
  <2>4. /\ run'[r].pc = pc
        /\ \/ faults' = faults /\ run'[r].events = Append(run[r].events, "completed")
           \/ faults' # 0 /\ run'[r].events = run[r].events
    BY <1>0, <1>1, <2>1, CompletesEffect DEF Settling
  <2>5. r \notin Invalid BY <1>1, <2>1 DEF StageInv
  <2>6. Stage(run[r].pc) = 4 /\ Stage(pc) = 5 /\ Atc!Rank("completed") = 5
    BY <2>1, Stages, Ranks DEF Outcome
  <2>7. /\ pc \notin Triage!Step \ Atc!Step /\ run[r].pc \in Atc!Step
        /\ "completed" \in Atc!Event \cup Outcome
    BY <2>1 DEF Triage!Step, Atc!Step, Outcome
  <2>8. StageInv(r)' BY <1>0, <1>1, <2>4, <2>5, <2>6, <2>7, AskTells
  <2>9. AskFilesInv(r)' BY <1>0, <2>4, PastWork DEF Settling
  <2>10. r \notin TriageRequest BY AgentsAssumption
  <2>11. QED BY <2>3, <2>8, <2>9, <2>10 DEF RunInv
<1>13. CASE Atc!Settle(r) BY <1>0, <1>13, SettleSteps, SettleKeeps
<1>14. QED
  BY <1>2, <1>3, <1>4, <1>5, <1>6, <1>7, <1>8, <1>9, <1>10, <1>11, <1>12, <1>13
  DEF Atc!handleAtcMessage

---------------------------------------------------------------------------
(* triage-it *)

(* A step that tells nothing.                                              *)
LEMMA TriageMoves ==
  ASSUME ReplyInv, NEW r \in TriageRequest, r \in Request, run[r].pc \in Triage!Step,
         NEW pc \in Triage!Step, (Fails(r) \/ Goto(r, pc)) /\ NoFault,
         dir' = dir \/ \E d \in Directory : dir' = [dir EXCEPT ![r] = d],
         Goto(r, pc) /\ run'[r].pc = pc => TriageFilesInv(r)'
  PROVE  RunShape' /\ OthersRest(r) /\ RunInv(r)'
<1>1. RunShape /\ VerdictInv(r) /\ DeliveredInv(r) BY DEF ReplyInv, RunInv
<1>2. /\ RunShape' /\ OthersRest(r) /\ run'[r].events = run[r].events
      /\ \/ run'[r].pc = "failing" /\ run'[r].outcome = "failed"
         \/ run'[r].pc = pc /\ run'[r].outcome = run[r].outcome /\ Goto(r, pc)
      /\ UNCHANGED <<place, replies, ended, faults>>
  <2>1. CASE Fails(r) BY <1>1, <2>1, FailsEffect
  <2>2. CASE Goto(r, pc) BY <1>1, <2>2, GotoEffect DEF Steps
  <2>3. QED BY <2>1, <2>2
<1>3. pc # "failing" /\ pc \in Steps /\ run[r].pc \in Steps BY DEF Triage!Step, Steps
<1>4. VerdictInv(r)' /\ DeliveredInv(r)' /\ FilesInv(r)' BY <1>1, <1>2, <1>3, WorkKeeps
<1>5. TriageFilesInv(r)'
  <2>1. CASE run'[r].pc = "failing" BY <2>1, PastWork DEF Settling
  <2>2. QED BY <1>2, <2>1
<1>6. r \notin AskRequest BY AgentsAssumption
<1>7. QED BY <1>2, <1>4, <1>5, <1>6 DEF RunInv

(* Every step of triage-it's handler.                                      *)
LEMMA TriageKeeps ==
  ASSUME ReplyInv, NEW r \in TriageRequest, Triage!handleTriageMessage(r)
  PROVE  RunShape' /\ OthersRest(r) /\ RunInv(r)'
<1>0. r \in Request /\ r \notin AskRequest BY AgentsAssumption
<1>1. RunShape /\ VerdictInv(r) /\ DeliveredInv(r) /\ TriageFilesInv(r)
  BY <1>0 DEF ReplyInv, RunInv
<1>2. CASE Triage!Start(r)
  <2>1. run[r].pc = "starting" /\ Emit(r, "received", "validating")
    BY <1>0, <1>2, TriageSteps DEF Triage!Start
  <2>2. "received" \in Bus /\ "received" \in Triage!Event /\ "validating" \in Steps
    BY DEF Bus, Triage!Event, Triage!Step, Steps
  <2>3. /\ RunShape' /\ OthersRest(r)
        /\ run'[r].pc = "validating" /\ run'[r].outcome = run[r].outcome
        /\ \/ run'[r].events = run[r].events
           \/ run'[r].events = Append(run[r].events, "received")
        /\ UNCHANGED <<place, dir, replies, ended>>
    BY <1>0, <1>1, <2>1, <2>2, EmitEffect
  <2>4. VerdictInv(r)' /\ DeliveredInv(r)' /\ FilesInv(r)'
    BY <1>0, <1>1, <2>1, <2>2, <2>3, WorkKeeps
  <2>5. TriageFilesInv(r)'
    BY <1>1, <2>1, <2>3 DEF TriageFilesInv, Triage!NeedsEvidence, Triage!Step
  <2>6. QED BY <1>0, <2>3, <2>4, <2>5 DEF RunInv
<1>3. CASE Triage!Validate(r) \/ Triage!Fetch(r)
  <2>1. PICK pc \in {"fetching", "extracting"} :
          /\ run[r].pc \in {"validating", "fetching"}
          /\ (Fails(r) \/ Goto(r, pc)) /\ UNCHANGED dir /\ NoFault
    BY <1>0, <1>3, TriageSteps DEF Triage!Validate, Triage!Fetch
  <2>2. pc \in Triage!Step /\ run[r].pc \in Triage!Step BY <2>1 DEF Triage!Step
  <2>3. run'[r].pc = pc => TriageFilesInv(r)'
    BY <1>1, <2>1 DEF TriageFilesInv, Triage!NeedsEvidence, Triage!Step
  <2>4. QED BY <1>0, <2>1, <2>2, <2>3, TriageMoves
<1>4. CASE Triage!extractEvidenceArchive(r)
  <2>1. CASE /\ run[r].pc = "extracting" /\ NoFault
             /\ \/ Fails(r) /\ UNCHANGED dir
                \/ Goto(r, "writing") /\ dir' = [dir EXCEPT ![r] = "there"]
    <3>1. "writing" \in Triage!Step /\ run[r].pc \in Triage!Step BY <2>1 DEF Triage!Step
    <3>2. dir' = dir \/ \E d \in Directory : dir' = [dir EXCEPT ![r] = d] BY <2>1 DEF Directory
    <3>3. run'[r].pc = "writing" => dir' = [dir EXCEPT ![r] = "there"]
      <4>1. Fails(r) => run'[r].pc = "failing" BY <1>0, <1>1, <2>1, <3>2, FailsEffect
      <4>2. QED BY <2>1, <4>1
    <3>4. run'[r].pc = "writing" => TriageFilesInv(r)'
      BY <1>0, <1>1, <3>3 DEF TriageFilesInv, Triage!NeedsEvidence, Triage!Step, RunShape
    <3>5. QED BY <1>0, <2>1, <3>1, <3>2, <3>4, TriageMoves
  <2>2. CASE /\ run[r].pc = "writing" /\ NoFault
             /\ \/ Fails(r) /\ dir' = [dir EXCEPT ![r] = "gone"]
                \/ r \notin BadEvidence /\ Goto(r, "scoping") /\ UNCHANGED dir
    <3>1. "scoping" \in Triage!Step /\ run[r].pc \in Triage!Step BY <2>2 DEF Triage!Step
    <3>2. dir' = dir \/ \E d \in Directory : dir' = [dir EXCEPT ![r] = d] BY <2>2 DEF Directory
    <3>3. run'[r].pc = "scoping" => UNCHANGED dir /\ r \notin BadEvidence
      <4>1. Fails(r) => run'[r].pc = "failing" BY <1>0, <1>1, <2>2, <3>2, FailsEffect
      <4>2. QED BY <2>2, <4>1
    <3>4. dir[r] = "there" BY <1>1, <2>2 DEF TriageFilesInv
    <3>5. run'[r].pc = "scoping" => TriageFilesInv(r)'
      BY <3>3, <3>4 DEF TriageFilesInv, Triage!NeedsEvidence, Triage!Step
    <3>6. QED BY <1>0, <2>2, <3>1, <3>2, <3>5, TriageMoves
  <2>3. /\ Triage!Goto(r, "writing") <=> Goto(r, "writing")
        /\ Triage!Goto(r, "scoping") <=> Goto(r, "scoping")
        /\ Triage!Fails(r) <=> Fails(r)
        /\ Triage!At(r, "writing") <=> run[r].pc = "writing"
        /\ Triage!At(r, "extracting") <=> run[r].pc = "extracting"
        /\ Triage!NoFault <=> NoFault
    BY <1>0, TriageSteps
  <2>4. CASE Triage!At(r, "extracting")
    <3>1. run[r].pc # "writing" BY <2>3, <2>4
    <3>2. QED BY <1>4, <2>1, <2>3, <2>4, <3>1, Zenon DEF Triage!extractEvidenceArchive
  <2>5. CASE Triage!At(r, "writing")
    <3>1. run[r].pc # "extracting" BY <2>3, <2>5
    <3>2. QED BY <1>4, <2>2, <2>3, <2>5, <3>1, Zenon DEF Triage!extractEvidenceArchive
  <2>6. QED BY <1>4, <2>4, <2>5 DEF Triage!extractEvidenceArchive
<1>5. CASE Triage!Scope(r) \/ Triage!syncWorkingCopies(r) \/ Triage!runSkill(r)
  <2>1. PICK pc \in {"syncing", "running", "completing"} :
          /\ run[r].pc \in {"scoping", "syncing", "running"}
          /\ (Fails(r) \/ Goto(r, pc)) /\ UNCHANGED dir /\ NoFault
    BY <1>0, <1>5, TriageSteps DEF Triage!Scope, Triage!syncWorkingCopies, Triage!runSkill
  <2>2. pc \in Triage!Step /\ run[r].pc \in Triage!Step BY <2>1 DEF Triage!Step
  <2>3. dir[r] = "there" /\ r \notin BadEvidence
    BY <1>1, <2>1 DEF TriageFilesInv, Triage!NeedsEvidence
  <2>4. run'[r].pc = pc => TriageFilesInv(r)'
    BY <2>1, <2>3 DEF TriageFilesInv, Triage!NeedsEvidence, Triage!Step
  <2>5. QED BY <1>0, <2>1, <2>2, <2>4, TriageMoves
<1>6. CASE Triage!Complete(r)
  <2>1. run[r].pc = "completing" /\ Completes(r, "cleaning")
    BY <1>0, <1>6, TriageSteps DEF Triage!Complete
  <2> DEFINE pc == "cleaning"
  <2>2. RunShape' /\ OthersRest(r) /\ VerdictInv(r)' /\ DeliveredInv(r)' /\ FilesInv(r)'
    BY <1>0, <1>1, <2>1, CompletionKeeps
  <2>3. run'[r].pc = "cleaning" BY <1>0, <1>1, <2>1, CompletesEffect DEF Settling
  <2>4. TriageFilesInv(r)' BY <1>0, <2>3, PastWork DEF Settling
  <2>5. QED BY <1>0, <2>2, <2>4 DEF RunInv
<1>7. CASE Triage!Settle(r) BY <1>0, <1>7, SettleSteps, SettleKeeps
<1>8. QED BY <1>2, <1>3, <1>4, <1>5, <1>6, <1>7 DEF Triage!handleTriageMessage

---------------------------------------------------------------------------
(* How much a run has told *)

(* A run of triage-it has told that it was received, and then its verdict. *)
Told(pc) ==
  IF pc \in {"idle", "starting"} THEN 0
  ELSE IF pc \in Triage!Step \cup {"failing"} THEN 1 ELSE 2

BriefInv == \A r \in TriageRequest : Len(run[r].events) <= Told(run[r].pc)

(* A step tells nothing, or one more; a run that begins has told nothing.  *)
LEMMA TriageBrief ==
  ASSUME ReplyInv, BriefInv, NEW r \in TriageRequest, Handle(r) \/ Delivery(r)
  PROVE  Len(run'[r].events) <= Told(run'[r].pc)
<1>1. /\ RunShape /\ VerdictInv(r) /\ r \in Request /\ r \notin AskRequest
      /\ run[r] \in HandlerRuns /\ Len(run[r].events) <= Told(run[r].pc)
  BY AgentsAssumption DEF ReplyInv, RunInv, RunShape, BriefInv
<1>2. run[r].events \in Seq(Bus) /\ Len(run[r].events) \in Nat
  BY <1>1 DEF HandlerRuns
<1>3. ASSUME run'[r].events = run[r].events, Told(run[r].pc) <= Told(run'[r].pc)
      PROVE  Len(run'[r].events) <= Told(run'[r].pc)
  BY <1>1, <1>2, <1>3 DEF Told
<1>4. ASSUME NEW e \in Bus, Told(run'[r].pc) = Told(run[r].pc) + 1,
             run'[r].events \in {run[r].events, Append(run[r].events, e)}
      PROVE  Len(run'[r].events) <= Told(run'[r].pc)
  <2>1. Len(Append(run[r].events, e)) = Len(run[r].events) + 1
    BY <1>2
  <2>2. QED BY <1>1, <1>2, <1>4, <2>1 DEF Told
<1>5. ASSUME run'[r] \in {NoRun, [NoRun EXCEPT !.pc = "starting"]}
      PROVE  Len(run'[r].events) <= Told(run'[r].pc)
  <2>1. run'[r].events = <<>> /\ run'[r].pc \in {"idle", "starting"}
    BY <1>5 DEF NoRun
  <2>2. QED BY <2>1 DEF Told
<1>6. ASSUME NEW pc \in Steps \cup Settling, Goto(r, pc), NoFault, Told(run[r].pc) <= Told(pc),
             dir' = dir \/ \E d \in Directory : dir' = [dir EXCEPT ![r] = d]
      PROVE  Len(run'[r].events) <= Told(run'[r].pc)
  BY <1>1, <1>3, <1>6, GotoEffect
<1>7. ASSUME Fails(r), NoFault, Told(run[r].pc) = 1,
             dir' = dir \/ \E d \in Directory : dir' = [dir EXCEPT ![r] = d]
      PROVE  Len(run'[r].events) <= Told(run'[r].pc)
  <2>1. run'[r].pc = "failing" /\ run'[r].events = run[r].events
    BY <1>1, <1>7, FailsEffect
  <2>2. Told("failing") = 1
    BY DEF Told
  <2>3. QED BY <1>3, <1>7, <2>1, <2>2
<1>8. ASSUME NEW e \in Bus, NEW pc \in Steps \cup Settling, Emit(r, e, pc),
             Told(pc) = Told(run[r].pc) + 1
      PROVE  Len(run'[r].events) <= Told(run'[r].pc)
  <2>1. run'[r].pc = pc /\ run'[r].events \in {run[r].events, Append(run[r].events, e)}
    BY <1>1, <1>8, EmitEffect
  <2>2. QED BY <1>4, <1>8, <2>1
<1>9. /\ \A pc \in Triage!Step : Told(pc) = 1 /\ pc \in Steps \cup Settling
      /\ Told("starting") = 0 /\ Told("failing") = 1
      /\ \A pc \in Settling \ {"failing"} : Told(pc) = 2
      /\ "received" \in Bus /\ "failed" \in Bus /\ "completed" \in Bus
  BY DEF Told, Triage!Step, Steps, Settling, Bus, Triage!Event, Outcome
<1>10. ASSUME NEW pc \in Triage!Step, run[r].pc \in Triage!Step, (Fails(r) \/ Goto(r, pc)) /\ NoFault,
              dir' = dir \/ \E d \in Directory : dir' = [dir EXCEPT ![r] = d]
       PROVE  Len(run'[r].events) <= Told(run'[r].pc)
  BY <1>6, <1>7, <1>9, <1>10
<1>11. CASE Triage!handleTriageMessage(r) /\ ~Settle(r)
  <2>1. CASE Triage!Start(r)
    <3>1. run[r].pc = "starting" /\ Emit(r, "received", "validating")
      BY <1>1, <2>1, TriageSteps DEF Triage!Start
    <3>2. "validating" \in Triage!Step
      BY DEF Triage!Step
    <3>3. QED BY <1>8, <1>9, <3>1, <3>2
  <2>2. CASE Triage!Validate(r) \/ Triage!Fetch(r) \/ Triage!Scope(r)
             \/ Triage!syncWorkingCopies(r) \/ Triage!runSkill(r)
    <3>1. PICK pc \in {"fetching", "extracting", "syncing", "running", "completing"} :
            /\ run[r].pc \in {"validating", "fetching", "scoping", "syncing", "running"}
            /\ (Fails(r) \/ Goto(r, pc)) /\ UNCHANGED dir /\ NoFault
      BY <1>1, <2>2, TriageSteps
      DEF Triage!Validate, Triage!Fetch, Triage!Scope, Triage!syncWorkingCopies, Triage!runSkill
    <3>2. pc \in Triage!Step /\ run[r].pc \in Triage!Step
      BY <3>1 DEF Triage!Step
    <3>3. QED BY <1>10, <3>1, <3>2
  <2>3. CASE Triage!extractEvidenceArchive(r)
    <3>1. PICK pc \in {"writing", "scoping"} :
            /\ run[r].pc \in {"extracting", "writing"} /\ (Fails(r) \/ Goto(r, pc)) /\ NoFault
            /\ dir' = dir \/ \E d \in Directory : dir' = [dir EXCEPT ![r] = d]
      BY <1>1, <2>3, TriageSteps DEF Triage!extractEvidenceArchive, Directory
    <3>2. pc \in Triage!Step /\ run[r].pc \in Triage!Step
      BY <3>1 DEF Triage!Step
    <3>3. QED BY <1>10, <3>1, <3>2
  <2>4. CASE Triage!Complete(r)
    <3>1. run[r].pc = "completing" /\ Completes(r, "cleaning")
      BY <1>1, <2>4, TriageSteps DEF Triage!Complete
    <3>2. "completing" \in Triage!Step /\ "cleaning" \in Settling \ {"failing"}
      BY DEF Triage!Step, Settling
    <3>3. /\ run'[r].pc = "cleaning"
          /\ run'[r].events \in {run[r].events, Append(run[r].events, "completed")}
      BY <1>1, <3>1, <3>2, CompletesEffect
    <3>4. QED BY <1>4, <1>9, <3>1, <3>2, <3>3
  <2>5. QED BY <1>1, <1>11, <2>1, <2>2, <2>3, <2>4, SettleSteps DEF Triage!handleTriageMessage
<1>12. CASE Settle(r)
  <2>1. CASE Cleanup(r)
    <3>1. CASE At(r, "cleaning") /\ Goto(r, "replying")
      <4>1. \E d \in Directory : dir' = [dir EXCEPT ![r] = d]
        BY <2>1 DEF Cleanup, Directory
      <4>2. /\ "replying" \in Settling \ {"failing"} /\ "cleaning" \in Settling \ {"failing"}
            /\ run[r].pc = "cleaning" /\ NoFault
        BY <2>1, <3>1 DEF Settling, At, Cleanup
      <4>3. Told(run[r].pc) = 2 /\ Told("replying") = 2
        BY <1>9, <4>2
      <4>4. Told(run[r].pc) <= Told("replying")
        BY <4>3
      <4>5. "replying" \in Steps \cup Settling /\ Goto(r, "replying") /\ NoFault
        BY <3>1, <4>2
      <4>6. QED BY <1>6, <4>1, <4>4, <4>5
    <3>2. CASE UNCHANGED run
      BY <1>1, <3>2
    <3>3. QED BY <2>1, <3>1, <3>2 DEF Cleanup
  <2>2. CASE EmitFailed(r)
    <3>1. /\ run[r].pc = "failing" /\ Emit(r, "failed", "replyingFailed")
          /\ "replyingFailed" \in Settling \ {"failing"}
      BY <2>2 DEF EmitFailed, At, Settling
    <3>2. QED BY <1>8, <1>9, <3>1
  <2>3. CASE ReplyFailed(r) \/ Reply(r)
    <3>1. PICK pc \in {"returned", "threw"} :
            /\ run[r].pc \in {"replyingFailed", "replying"} /\ run' = [run EXCEPT ![r].pc = pc]
      BY <2>3 DEF ReplyFailed, Reply, At
    <3>2. run'[r].pc = pc /\ run'[r].events = run[r].events
      BY <1>1, <3>1 DEF RunShape, HandlerRuns
    <3>3. pc \in Settling \ {"failing"} /\ run[r].pc \in Settling \ {"failing"}
      BY <3>1 DEF Settling
    <3>4. Told(run[r].pc) = 2 /\ Told(run'[r].pc) = 2
      BY <1>9, <3>2, <3>3
    <3>5. QED BY <1>3, <3>2, <3>4
  <2>4. CASE Return(r) \/ Throw(r)
    BY <1>1, <1>5, <2>4 DEF Return, Ended, Throw, RunShape
  <2>5. QED BY <1>12, <2>1, <2>2, <2>3, <2>4 DEF Settle
<1>13. CASE Delivery(r)
  <2>1. run' = run \/ run'[r] \in {NoRun, [NoRun EXCEPT !.pc = "starting"]}
    BY <1>1, <1>13 DEF Delivery, Deliver, Crash, DeadLetter, Duplicate, RunShape
  <2>2. QED BY <1>1, <1>5, <2>1
<1>14. QED BY <1>1, <1>11, <1>12, <1>13 DEF Handle

(* No run tells more than there is to tell.                                *)
LEMMA BriefStep == ReplyInv /\ BriefInv /\ [Next]_vars => BriefInv'
<1> SUFFICES ASSUME ReplyInv, BriefInv, [Next]_vars, NEW r \in TriageRequest
             PROVE  Len(run'[r].events) <= Told(run'[r].pc)
  BY DEF BriefInv
<1>1. r \in Request BY AgentsAssumption
<1>2. CASE UNCHANGED vars BY <1>2 DEF vars, BriefInv
<1>3. ASSUME NEW q \in Request, q # r, Handle(q) \/ Delivery(q) PROVE run'[r] = run[r]
  <2>1. OthersRest(q) BY <1>3, AskKeeps, TriageKeeps, DeliveryKeeps DEF Handle
  <2>2. QED BY <1>1, <1>3, <2>1 DEF OthersRest
<1>4. CASE Handle(r) \/ Delivery(r) BY <1>4, TriageBrief
<1>5. QED BY <1>2, <1>3, <1>4 DEF Next, BriefInv

(* The events that are told of either agent.                               *)
LEMMA EventsAre ==
  /\ Atc!Event \cup Triage!Event
       = {"started", "project-resolution", "working-copy-sync", "coding-agent-execution",
          "received"}
  /\ Cardinality(Atc!Event \cup Triage!Event) = 5
<1>1. Atc!Event \cup Triage!Event
        = ((({"started"} \cup {"project-resolution"}) \cup {"working-copy-sync"})
             \cup {"coding-agent-execution"}) \cup {"received"}
  BY DEF Atc!Event, Triage!Event
<1>2. IsFiniteSet({"started"}) /\ Cardinality({"started"}) = 1
  BY FS_Singleton
<1> DEFINE A == {"started"} \cup {"project-resolution"}
           B == A \cup {"working-copy-sync"}
           C == B \cup {"coding-agent-execution"}
<1>3. IsFiniteSet(A) /\ Cardinality(A) = 2
  <2>1. "project-resolution" \notin {"started"} OBVIOUS
  <2>2. QED BY <1>2, <2>1, FS_AddElement
<1>4. IsFiniteSet(B) /\ Cardinality(B) = 3
  <2>1. "working-copy-sync" \notin A OBVIOUS
  <2> HIDE DEF A
  <2>2. QED BY <1>3, <2>1, FS_AddElement
<1>5. IsFiniteSet(C) /\ Cardinality(C) = 4
  <2>1. "coding-agent-execution" \notin B OBVIOUS
  <2> HIDE DEF B
  <2>2. QED BY <1>4, <2>1, FS_AddElement
<1>6. Cardinality(C \cup {"received"}) = 5
  <2>1. "received" \notin C OBVIOUS
  <2> HIDE DEF C
  <2>2. QED BY <1>5, <2>1, FS_AddElement
<1>7. QED BY <1>1, <1>6

(* Six events in protocol order would be of six ranks, and there are five. *)
LEMMA AskBrief ==
  ASSUME NEW r \in AskRequest, StageInv(r)
  PROVE  Len(run[r].events) <= 5
<1> DEFINE es == run[r].events
<1>1. Len(es) \in Nat /\ \A n \in 1..Len(es) : Atc!Rank(es[n]) \in 1..5
  BY Ranks DEF StageInv
<1>2. SUFFICES ASSUME Len(es) > 5 PROVE FALSE
  BY <1>1
<1>3. \A m, n \in 1..Len(es) : m < n => Atc!Rank(es[m]) < Atc!Rank(es[n])
  BY DEF StageInv
<1> HIDE DEF es
<1>4. /\ Atc!Rank(es[1]) < Atc!Rank(es[2]) /\ Atc!Rank(es[2]) < Atc!Rank(es[3])
      /\ Atc!Rank(es[3]) < Atc!Rank(es[4]) /\ Atc!Rank(es[4]) < Atc!Rank(es[5])
      /\ Atc!Rank(es[5]) < Atc!Rank(es[6])
  BY <1>1, <1>2, <1>3
<1>5. /\ Atc!Rank(es[1]) \in 1..5 /\ Atc!Rank(es[2]) \in 1..5 /\ Atc!Rank(es[3]) \in 1..5
      /\ Atc!Rank(es[4]) \in 1..5 /\ Atc!Rank(es[5]) \in 1..5 /\ Atc!Rank(es[6]) \in 1..5
  BY <1>1, <1>2
<1>6. QED BY <1>4, <1>5

---------------------------------------------------------------------------
(* Theorems *)

(* The initial states, with any requests in the queue.                     *)
LEMMA ReplyInitially == Init => ReplyInv
<1> SUFFICES ASSUME Init PROVE ReplyInv OBVIOUS
<1>1. PICK arrived \in SUBSET Request : ReplyInit(arrived) BY DEF Init
<1>2. <<>> \in Seq(Bus) /\ NoRun \in HandlerRuns
  <2>1. <<>> \in Seq(Bus) OBVIOUS
  <2>2. QED BY <2>1 DEF NoRun, HandlerRuns
<1>3. RunShape BY <1>1, <1>2 DEF ReplyInit, RunShape, Directory
<1>4. ASSUME NEW r \in Request PROVE RunInv(r)
  <2>1. /\ run[r].pc = "idle" /\ run[r].outcome = "none" /\ run[r].events = <<>>
        /\ Len(run[r].events) = 0 /\ dir[r] = "gone" /\ ended[r] = {} /\ place[r] # "acked"
    BY <1>1 DEF ReplyInit, NoRun
  <2>2. "idle" \notin Atc!Step \cup Triage!Step BY DEF Atc!Step, Triage!Step
  <2>3. VerdictInv(r) /\ DeliveredInv(r) /\ FilesInv(r)
    BY <2>1 DEF VerdictInv, DeliveredInv, FilesInv
  <2>4. StageInv(r) BY <2>1, <2>2 DEF StageInv, Atc!FailsCleanly
  <2>5. AskFilesInv(r) /\ TriageFilesInv(r)
    BY <2>1, <2>2 DEF AskFilesInv, TriageFilesInv, Atc!NeedsFiles, Triage!NeedsEvidence
  <2>6. QED BY <2>3, <2>4, <2>5 DEF RunInv
<1>5. QED BY <1>3, <1>4 DEF ReplyInv

(* Every step of the two agents.                                           *)
LEMMA ReplyInvStep == ReplyInv /\ [Next]_vars => ReplyInv'
<1> SUFFICES ASSUME ReplyInv, [Next]_vars PROVE ReplyInv' OBVIOUS
<1>1. CASE UNCHANGED vars
  BY <1>1 DEF vars, ReplyInv, RunShape, RunInv, VerdictInv, DeliveredInv, FilesInv, StageInv,
              AskFilesInv, TriageFilesInv, Atc!FailsCleanly, Atc!NeedsFiles, Triage!NeedsEvidence
<1>2. ASSUME NEW r \in Request, Handle(r) \/ Delivery(r) PROVE ReplyInv'
  <2>1. RunShape' /\ OthersRest(r) /\ RunInv(r)'
    BY <1>2, AskKeeps, TriageKeeps, DeliveryKeeps DEF Handle
  <2>2. QED BY <2>1, OneRun
<1>3. QED BY <1>1, <1>2 DEF Next

(* The shape of the runs, their verdicts, their events and their files     *)
(* stay as ReplyInv says, whatever is lost, sent twice or crashes.         *)
THEOREM ReplyInvariance == Spec => []ReplyInv
BY ReplyInitially, ReplyInvStep, PTL DEF Spec

(* A run never tells two verdicts, and its reply says what its last event  *)
(* said: the try of the work ends before the completed reply is sent.      *)
THEOREM OneVerdictHolds == Spec => []OneVerdict
<1>1. ReplyInv => OneVerdict BY DEF ReplyInv, RunInv, VerdictInv, OneVerdict
<1>2. QED BY <1>1, ReplyInvariance, PTL

(* A request answered with "completed" is acknowledged only after its      *)
(* reply was sent, whichever of its deliveries did so.                     *)
THEOREM CompletedIsDeliveredHolds == Spec => []CompletedIsDelivered
<1>1. ReplyInv => CompletedIsDelivered
  BY DEF ReplyInv, RunInv, DeliveredInv, CompletedIsDelivered
<1>2. QED BY <1>1, ReplyInvariance, PTL

(* ask-the-code tells its stages in order and once, and an invalid request *)
(* tells none, wherever the run fails.                                     *)
THEOREM StagesInOrderHolds == Spec => []StagesInOrder
<1>1. ReplyInv => StagesInOrder
  BY AgentsAssumption DEF ReplyInv, RunInv, StageInv, StagesInOrder, Atc!ToldInOrder
<1>2. QED BY <1>1, ReplyInvariance, PTL

(* Attachments and vetted evidence are there while the work needs them and *)
(* gone, or known to be left behind, when the run is over.                 *)
THEOREM FilesLiveAsTheWorkHolds == Spec => []FilesLiveAsTheWork
<1>1. ReplyInv => FilesLiveAsTheWork
  BY AgentsAssumption DEF ReplyInv, RunInv, AskFilesInv, TriageFilesInv, FilesInv,
                          FilesLiveAsTheWork, Running
<1>2. QED BY <1>1, ReplyInvariance, PTL

(* The agents stay within their types, and no run tells more events than   *)
(* its agent has.                                                          *)
THEOREM ReplyTypeOKHolds == Spec => []TypeOK
<1>1. ReplyInv /\ BriefInv => TypeOK
  <2> SUFFICES ASSUME ReplyInv, BriefInv PROVE TypeOK OBVIOUS
  <2>1. RunShape BY DEF ReplyInv
  <2>2. ASSUME NEW r \in Request
        PROVE  /\ run[r].pc \in Steps \cup Settling \cup {"idle", "starting"}
               /\ run[r].outcome \in Outcome \cup {"none"}
               /\ Len(run[r].events) <= 6
               /\ \A n \in 1..Len(run[r].events) : run[r].events[n] \in Bus
    <3>1. run[r] \in HandlerRuns BY <2>1 DEF RunShape
    <3>2. Len(run[r].events) \in Nat BY <3>1 DEF HandlerRuns
    <3>3. ASSUME r \in AskRequest PROVE Len(run[r].events) <= 6
      <4>1. StageInv(r) BY <3>3 DEF ReplyInv, RunInv
      <4>2. QED BY <3>2, <3>3, <4>1, AskBrief
    <3>4. ASSUME r \in TriageRequest PROVE Len(run[r].events) <= 6
      BY <3>2, <3>4 DEF BriefInv, Told
    <3>5. Len(run[r].events) <= 6
      BY <3>3, <3>4, AgentsAssumption
    <3>6. QED BY <3>1, <3>5 DEF HandlerRuns
  <2>3. QED
    BY <2>1, <2>2, EventsAre DEF TypeOK, ReplyTypeOK, RunShape, Steps, Settling, Bus
<1>2. Init => BriefInv
  <2>1. ASSUME Init, NEW r \in TriageRequest
        PROVE  Len(run[r].events) <= Told(run[r].pc)
    <3>1. r \in Request /\ run = [q \in Request |-> NoRun]
      BY <2>1, AgentsAssumption DEF Init, ReplyInit
    <3>2. run[r].events = <<>> /\ run[r].pc = "idle"
      BY <3>1 DEF NoRun
    <3>3. QED BY <3>2 DEF Told
  <2>2. QED BY <2>1 DEF BriefInv
<1>3. QED BY ReplyInvariance, BriefStep, <1>1, <1>2, PTL DEF Spec

===============================================================================
