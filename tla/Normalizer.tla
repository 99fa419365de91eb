------------------------------- MODULE Normalizer -------------------------------
(***************************************************************************)
(* ship-it-normalizer: webhook deliveries of GitHub and Jira become        *)
(* messages on ship-it's queue.  A Lambda container handles one delivery   *)
(* at a time; its catalog and its map of claims live as long as it does.   *)
(* A provider sends a delivery as often as it likes, also while an earlier *)
(* attempt is still being handled by another container.                    *)
(***************************************************************************)
EXTENDS S3Catalog

CONSTANTS
  Delivery,
  ProjectOf(_), \* the project an event is about; none, if no gate admits it
  MaxAttempts,  \* how often the SDK tries one SendMessage
  MaxSent       \* bound on the messages of a delivery

VARIABLES
  handler,  \* handler[c]: the cached promise of c's initialisation
  run,      \* run[c]: the delivery that c is handling
  claims,   \* claims[c]: the dedupe keys marked in c
  sent,     \* sent[d]: messages of d put on ship-it's queue (history)
  lost,     \* lost[d]: those of them that SQS's answer to was lost (history)
  dropped,  \* deliveries that were filtered (history)
  keeper    \* keeper[d]: the one container that d was given to, until it loses
            \* its claim (history)

history == <<sent, lost, dropped, keeper>>
vars == <<catalog, handler, run, claims, history>>

Idle == [pc |-> "idle"]

Nobody == "nobody"

Lost == "lost"

ASSUME KeeperAssumption == Nobody \notin Container /\ Lost \notin Container

ASSUME SendAssumption == MaxAttempts \in Nat \ {0} /\ MaxSent \in Nat

Run == {Idle} \cup [pc : {"starting", "sending"}, delivery : Delivery]

TypeOK ==
  /\ CatalogTypeOK
  /\ handler \in [Container -> {"none", "loading", "ready", "rejected"}]
  /\ \A c \in Container : handler[c] = "ready" <=> snapshot[c] # None
  /\ run \in [Container -> Run]
  /\ claims \in [Container -> SUBSET Delivery]
  /\ sent \in [Delivery -> 0..MaxSent]
  /\ lost \in [Delivery -> Nat]
  /\ dropped \subseteq Delivery
  /\ keeper \in [Delivery -> Container \cup {Nobody, Lost}]

Init ==
  /\ CatalogInit
  /\ handler = [c \in Container |-> "none"]
  /\ run = [c \in Container |-> Idle]
  /\ claims = [c \in Container |-> {}]
  /\ sent = [d \in Delivery |-> 0]
  /\ lost = [d \in Delivery |-> 0]
  /\ dropped = {}
  /\ keeper = [d \in Delivery |-> Nobody]

Busy(c) == run[c] # Idle

Claim(c, d) == claims' = [claims EXCEPT ![c] = @ \cup {d}]

Release(c, d) == claims' = [claims EXCEPT ![c] = @ \ {d}]

Loses(deliveries) ==
  keeper' = [d \in Delivery |-> IF d \in deliveries THEN Lost ELSE keeper[d]]

(* The SDK tries a SendMessage again when no answer comes, also when SQS   *)
(* has taken it: one send puts n copies of its envelope, each a message of *)
(* its own, with the answers to the first "unanswered" of them lost.       *)
Puts(d, n, unanswered) ==
  /\ sent[d] + n <= MaxSent
  /\ sent' = [sent EXCEPT ![d] = @ + n]
  /\ lost' = [lost EXCEPT ![d] = @ + unanswered]

(* Any answer ends the run.  Whether it reaches the provider makes no      *)
(* difference here: the provider sends the delivery again or not.          *)
Respond(c) == run' = [run EXCEPT ![c] = Idle]

---------------------------------------------------------------------------
(* Cold start *)

(* The first delivery of a container starts its initialisation; every one  *)
(* awaits the promise.                                                     *)
Deliver(c, d) ==
  /\ ~Busy(c)
  /\ run' = [run EXCEPT ![c] = [pc |-> "starting", delivery |-> d]]
  /\ keeper' = [keeper EXCEPT ![d] = IF @ \in {Nobody, c} THEN c ELSE Lost]
  /\ IF handler[c] = "none"
     THEN handler' = [handler EXCEPT ![c] = "loading"] /\ Load(c)
     ELSE UNCHANGED <<handler, catalog>>
  /\ UNCHANGED <<claims, sent, lost, dropped>>

Starting(c) == run[c].pc = "starting"

(* The promise stays rejected: the container answers nothing any more.     *)
Reject(c) ==
  /\ Starting(c) /\ handler[c] = "rejected"
  /\ Respond(c)
  /\ UNCHANGED <<catalog, handler, claims, history>>

---------------------------------------------------------------------------
(* The handler *)

(* The signature is bad, or the body is not JSON: no provider sent it.     *)
Refuse(c) ==
  /\ Starting(c) /\ handler[c] = "ready"
  /\ Respond(c)
  /\ UNCHANGED <<catalog, handler, claims, history>>

Suppress(c) ==
  /\ Starting(c) /\ handler[c] = "ready"
  /\ run[c].delivery \in claims[c]
  /\ Respond(c)
  /\ UNCHANGED <<catalog, handler, claims, history>>

(* The gates on the event itself, and its project's opt-in. *)
Admits(c, d) == ProjectOf(d) \in OptedIn(c)

(* Claim the delivery, then filter it by the catalog as it is, or sign and *)
(* send it.  A filtered delivery keeps its claim.                          *)
Normalize(c) ==
  /\ Starting(c) /\ handler[c] = "ready"
  /\ LET d == run[c].delivery IN
     /\ d \notin claims[c]
     /\ Claim(c, d)
     /\ IF Admits(c, d)
        THEN run' = [run EXCEPT ![c].pc = "sending"] /\ UNCHANGED dropped
        ELSE Respond(c) /\ dropped' = dropped \cup {d}
  /\ Read(c)
  /\ UNCHANGED <<handler, sent, lost, keeper>>

Sending(c) == run[c].pc = "sending"

(* Seeded fault: the claim is released when the run ends, however it does. *)
SentReleases(c) ==
  /\ Sending(c)
  /\ \E n \in 0..(MaxAttempts - 1) : Puts(run[c].delivery, n + 1, n)
  /\ Respond(c)
  /\ Release(c, run[c].delivery)
  /\ UNCHANGED <<catalog, handler, dropped, keeper>>

(* The send is answered at last.                                           *)
Sent(c) ==
  /\ Sending(c)
  /\ \E n \in 0..(MaxAttempts - 1) : Puts(run[c].delivery, n + 1, n)
  /\ Respond(c)
  /\ UNCHANGED <<catalog, handler, claims, dropped, keeper>>

(* Seeded fault: the claim is kept. *)
SendFailedKeeps(c) ==
  /\ Sending(c)
  /\ UNCHANGED <<sent, lost>>
  /\ Respond(c)
  /\ UNCHANGED <<catalog, handler, claims, dropped, keeper>>

(* The send throws, also when SQS has the message: the claim is released.  *)
SendFailed(c) ==
  /\ Sending(c)
  /\ \E n \in 0..MaxAttempts : Puts(run[c].delivery, n, n)
  /\ Release(c, run[c].delivery)
  /\ Respond(c)
  /\ UNCHANGED <<catalog, handler, dropped, keeper>>

---------------------------------------------------------------------------
(* The container *)

(* A frozen container does nothing: S3's answer is taken during some run.  *)
GetAnswered(c) ==
  /\ Busy(c)
  /\ \E get \in flight[c] : Answer(c, get)
  /\ handler' = [handler EXCEPT ![c] = "ready"]
  /\ UNCHANGED <<run, claims, history>>

(* Seeded fault: the handler is made although its catalog was not loaded.  *)
FailsSilently(c) == handler' = [handler EXCEPT ![c] = "ready"]

FailsStart(c) == handler' = [handler EXCEPT ![c] = IF @ = "loading" THEN "rejected" ELSE @]

GetDiscarded(c) ==
  /\ Busy(c)
  /\ \E get \in flight[c] : Discard(c, get)
  /\ FailsStart(c)
  /\ UNCHANGED <<run, claims, history>>

GetLost(c) ==
  /\ Busy(c)
  /\ \E get \in flight[c] : Lose(c, get)
  /\ FailsStart(c)
  /\ UNCHANGED <<run, claims, history>>

GetServed(c) ==
  /\ \E get \in flight[c] : Serve(c, get)
  /\ UNCHANGED <<handler, run, claims, history>>

SnapshotExpires(c) ==
  /\ Expire(c)
  /\ UNCHANGED <<handler, run, claims, history>>

(* A claim's time to live passes. *)
ClaimExpires(c, d) ==
  /\ ~Busy(c) /\ d \in claims[c]
  /\ Release(c, d) /\ Loses({d})
  /\ UNCHANGED <<catalog, handler, run, sent, lost, dropped>>

(* Recycled by Lambda, or dead in the middle of a run. *)
Recycle(c) ==
  /\ handler[c] # "none"
  /\ Unload(c)
  /\ handler' = [handler EXCEPT ![c] = "none"]
  /\ claims' = [claims EXCEPT ![c] = {}]
  /\ Loses(claims[c])
  /\ IF Sending(c)
     THEN \E n \in 0..MaxAttempts : Puts(run[c].delivery, n, n)
     ELSE UNCHANGED <<sent, lost>>
  /\ Respond(c)
  /\ UNCHANGED dropped

PublishBundle ==
  /\ \E b \in Bundles : Publish(b)
  /\ UNCHANGED <<handler, run, claims, history>>

Work(c) ==
  \/ Reject(c) \/ Refuse(c) \/ Suppress(c) \/ Normalize(c) \/ Sent(c) \/ SendFailed(c)
  \/ GetAnswered(c) \/ GetDiscarded(c) \/ GetLost(c) \/ GetServed(c)
  \/ SnapshotExpires(c) \/ Recycle(c)
  \/ \E d \in Delivery : Deliver(c, d) \/ ClaimExpires(c, d)

Next == PublishBundle \/ \E c \in Container : Work(c)

Spec == Init /\ [][Next]_vars

(* Time passes, S3 answers, and gets are not all lost.                     *)
FairSpec ==
  /\ Spec
  /\ \A c \in Container :
       /\ WF_vars(SnapshotExpires(c))
       /\ SF_vars(GetServed(c)) /\ SF_vars(GetAnswered(c) \/ GetDiscarded(c))

---------------------------------------------------------------------------
(* Properties *)

(* The handler "must RELEASE" the claim of a delivery that was not sent,   *)
(* "so the provider's retry of the same delivery id is admitted instead of *)
(* being suppressed as a duplicate": what a container would suppress was   *)
(* sent or filtered, or is being sent.                                     *)
ClaimsAreTrue ==
  \A c \in Container : \A d \in claims[c] :
    \/ sent[d] > 0 \/ d \in dropped
    \/ run[c] = [pc |-> "sending", delivery |-> d]

(* The dedupe map "is the only line of defense" against a provider that    *)
(* sends a delivery again.  As long as the attempts reach one container    *)
(* that keeps its claims, ship-it gets one message of a delivery, and one  *)
(* more only for an answer that SQS lost: those the SDK repeats inside a   *)
(* send, and those that make a send throw, so that its claim is released.  *)
SentOnceByOneContainer ==
  \A d \in Delivery : keeper[d] # Lost => sent[d] <= 1 + lost[d]

(* Stale reads end: a container that keeps normalizing deliveries serves   *)
(* the latest bundle again and again, unless that one cannot be parsed.    *)
CatchesUp ==
  \A c \in Container : []<><<Normalize(c)>>_vars => []<>Current(c)
=================================================================================
