---------------------------- MODULE NormalizerProofs ----------------------------
(***************************************************************************)
(* Proofs about Normalizer and the catalog it reads, for every set of      *)
(* containers and deliveries and every number of published bundles.        *)
(***************************************************************************)
EXTENDS Normalizer, TLAPS

(* One get is in flight, and it asks for what is newer than the snapshot.  *)
FlightInv(c) ==
  /\ handler[c] = "none" => flight[c] = {}
  /\ \A g, h \in flight[c] : g = h
  /\ \A g \in flight[c] : g.etag = snapshot[c] /\ (g.answer # None => g.answer >= g.etag)

(* A snapshot was parsed. *)
SnapshotInv(c) == snapshot[c] # None => published[snapshot[c]] # Garbled

ClaimInv(c) ==
  /\ run[c].pc = "sending" => run[c].delivery \in claims[c]
  /\ \A d \in claims[c] :
       \/ sent[d] > 0 \/ d \in dropped
       \/ run[c] = [pc |-> "sending", delivery |-> d]

NInv == TypeOK /\ \A c \in Container : FlightInv(c) /\ SnapshotInv(c) /\ ClaimInv(c)

(* What a delivery's keeper says of it: nobody else has it, and once a     *)
(* message of it was answered the keeper has its claim.                    *)
KeeperInv(d) ==
  keeper[d] # Lost =>
    /\ sent[d] <= 1 + lost[d]
    /\ \A c \in Container : c # keeper[d] =>
         d \notin claims[c] /\ (run[c] # Idle => run[c].delivery # d)
    /\ sent[d] > lost[d] => keeper[d] # Nobody /\ d \in claims[keeper[d]]
         /\ run[keeper[d]] # [pc |-> "sending", delivery |-> d]

LEMMA RunForms ==
  ASSUME TypeOK, NEW c \in Container
  PROVE  /\ run[c] # Idle => run[c].delivery \in Delivery
              /\ run[c] = [pc |-> run[c].pc, delivery |-> run[c].delivery]
         /\ run[c].pc = "idle" <=> run[c] = Idle
         /\ run[c].pc \in {"idle", "starting", "sending"}
  BY DEF TypeOK, Run, Idle

(* The messages a send puts, and the answers to them that are lost.        *)
LEMMA PutsEffect ==
  ASSUME TypeOK, NEW d \in Delivery, NEW n \in Nat, NEW m \in Nat, Puts(d, n, m)
  PROVE  /\ sent' \in [Delivery -> 0..MaxSent] /\ lost' \in [Delivery -> Nat]
         /\ sent'[d] = sent[d] + n /\ lost'[d] = lost[d] + m
         /\ \A e \in Delivery \ {d} : sent'[e] = sent[e] /\ lost'[e] = lost[e]
<1>1. sent \in [Delivery -> 0..MaxSent] /\ lost \in [Delivery -> Nat] /\ MaxSent \in Nat
  BY SendAssumption DEF TypeOK
<1>2. sent[d] + n \in 0..MaxSent /\ lost[d] + m \in Nat
  BY <1>1 DEF Puts
<1> QED BY <1>1, <1>2 DEF Puts

(* What one send may put: n copies of its message, all but the answered    *)
(* one unanswered.                                                         *)
SendPuts(c) ==
  /\ Sending(c)
  /\ \E n, m \in Nat :
       /\ Puts(run[c].delivery, n, m)
       /\ n = m \/ (Sent(c) /\ n = m + 1)

(* A message is put by a send, answered or not, and by nothing else. *)
LEMMA OnlySendsPut ==
  ASSUME TypeOK, NEW c \in Container, Work(c)
  PROVE  UNCHANGED <<sent, lost>> \/ (SendPuts(c) /\ UNCHANGED dropped)
<1>0. MaxAttempts \in Nat \ {0} BY SendAssumption
<1>1. CASE Sent(c)
  <2>1. PICK n \in 0..(MaxAttempts - 1) : Puts(run[c].delivery, n + 1, n)
    BY <1>1 DEF Sent
  <2>2. n \in Nat /\ n + 1 \in Nat BY <1>0
  <2>3. SendPuts(c) BY <1>1, <2>1, <2>2 DEF SendPuts, Sent
  <2>4. QED BY <1>1, <2>3 DEF Sent
<1>2. ASSUME Sending(c), NEW n \in 0..MaxAttempts, Puts(run[c].delivery, n, n)
      PROVE  SendPuts(c)
  <2>1. n \in Nat BY <1>0
  <2>2. QED BY <1>2, <2>1 DEF SendPuts
<1>3. CASE SendFailed(c) BY <1>2, <1>3 DEF SendFailed
<1>4. CASE Recycle(c) BY <1>2, <1>4 DEF Recycle
<1> QED BY <1>1, <1>3, <1>4 DEF Work, Reject, Refuse, Suppress, Normalize, GetAnswered,
     GetDiscarded, GetLost, GetServed, SnapshotExpires, Deliver, ClaimExpires, history

LEMMA InitCorrect == Init => NInv /\ \A d \in Delivery : KeeperInv(d)
<1> SUFFICES ASSUME Init PROVE NInv /\ \A d \in Delivery : KeeperInv(d)
  OBVIOUS
<1> USE CatalogAssumption, KeeperAssumption, SendAssumption DEF Init, CatalogInit
<1>1. published = <<First>> /\ First \in SUBSET Project /\ Latest = 1
  BY DEF Latest
<1>2. CatalogTypeOK
  BY <1>1 DEF CatalogTypeOK, Get, Version, None
<1>3. TypeOK
  BY <1>2 DEF TypeOK, Run, Idle, None
<1>4. \A c \in Container : FlightInv(c) /\ SnapshotInv(c) /\ ClaimInv(c)
  BY DEF FlightInv, SnapshotInv, ClaimInv, Idle
<1>5. \A d \in Delivery : KeeperInv(d)
  BY DEF KeeperInv, Idle, Nobody, Lost
<1> QED BY <1>3, <1>4, <1>5 DEF NInv

---------------------------------------------------------------------------
(* The catalog *)

(* The versions there are only grow, and keep their bundles.               *)
LEMMA PublishEffect ==
  ASSUME CatalogTypeOK, NEW b \in Bundles, Publish(b)
  PROVE  /\ CatalogTypeOK'
         /\ \A v \in Version : published'[v] = published[v]
<1> USE CatalogAssumption
<1>1. b \in SUBSET Project \cup {Garbled} /\ published \in Seq(SUBSET Project \cup {Garbled})
  BY DEF CatalogTypeOK
<1>2. published' = Append(published, b)
  BY DEF Publish
<1>3. /\ published' \in Seq(SUBSET Project \cup {Garbled})
      /\ Len(published') = Len(published) + 1
      /\ \A v \in 1..Len(published) : published'[v] = published[v]
  BY <1>1, <1>2
<1>4. Latest \in Nat /\ Latest' = Latest + 1
  BY <1>1, <1>3 DEF Latest
<1>5. Version \subseteq Version'
  BY <1>4 DEF Version
<1>6. UNCHANGED <<snapshot, fresh, flight>>
  BY DEF Publish
<1>7. (SUBSET Get) \subseteq (SUBSET Get)'
  BY <1>5 DEF Get, None
<1>8. flight' \in [Container -> (SUBSET Get)'] /\ snapshot' \in [Container -> Version' \cup {None}]
  BY <1>5, <1>6, <1>7 DEF CatalogTypeOK
<1>9. CatalogTypeOK'
  BY <1>3, <1>4, <1>6, <1>8 DEF CatalogTypeOK
<1> QED BY <1>3, <1>9 DEF Version, Latest

(* How c's gets may change in a step that publishes nothing. *)
FlightStep(c) ==
  \/ UNCHANGED <<snapshot, fresh, flight>>
  \/ Send(c) /\ UNCHANGED <<snapshot, fresh>>
  \/ \E get \in flight[c] : Serve(c, get) \/ Answer(c, get) \/ Lose(c, get)
  \/ Expire(c)
  \/ Unload(c)

LEMMA FlightTypes ==
  ASSUME CatalogTypeOK, NEW c \in Container, FlightStep(c), UNCHANGED published
  PROVE  /\ CatalogTypeOK'
         /\ \A d \in Container \ {c} : snapshot'[d] = snapshot[d] /\ flight'[d] = flight[d]
<1> USE DEF CatalogTypeOK, None
<1>0. Latest \in Version /\ Latest \in Nat /\ UNCHANGED <<Latest, Version, Get>>
  BY DEF Latest, Version, Get
<1>1. CASE UNCHANGED <<snapshot, fresh, flight>>
  BY <1>0, <1>1
<1>2. CASE Send(c) /\ UNCHANGED <<snapshot, fresh>>
  <2>1. [etag |-> snapshot[c], answer |-> None] \in Get
    BY DEF Get
  <2>2. QED BY <1>0, <1>2, <2>1 DEF Send
<1>3. ASSUME NEW get \in flight[c], Serve(c, get)
      PROVE  CatalogTypeOK' /\ \A d \in Container \ {c} : snapshot'[d] = snapshot[d] /\ flight'[d] = flight[d]
  <2> DEFINE got == [get EXCEPT !.answer = IF NotModified(get) THEN get.etag ELSE Latest]
  <2>1. get \in Get /\ got \in Get
    BY <1>0 DEF Get
  <2> HIDE DEF got
  <2>2. flight' = [flight EXCEPT ![c] = (@ \ {get}) \cup {got}] /\ UNCHANGED <<snapshot, fresh>>
    BY <1>3 DEF Serve, got
  <2>3. QED BY <1>0, <2>1, <2>2
<1>4. ASSUME NEW get \in flight[c], Answer(c, get)
      PROVE  CatalogTypeOK' /\ \A d \in Container \ {c} : snapshot'[d] = snapshot[d] /\ flight'[d] = flight[d]
  <2>1. get \in Get /\ get.answer \in Version
    BY <1>4 DEF Answer, Get
  <2>2. snapshot' \in [Container -> Version \cup {None}]
        /\ \A d \in Container \ {c} : snapshot'[d] = snapshot[d]
    BY <1>4, <2>1 DEF Answer, Adopt
  <2>3. QED BY <1>0, <1>4, <2>2 DEF Answer, Done
<1>5. ASSUME NEW get \in flight[c], Lose(c, get)
      PROVE  CatalogTypeOK' /\ \A d \in Container \ {c} : snapshot'[d] = snapshot[d] /\ flight'[d] = flight[d]
  BY <1>0, <1>5 DEF Lose, Done
<1>6. CASE Expire(c)
  BY <1>0, <1>6 DEF Expire
<1>7. CASE Unload(c)
  BY <1>0, <1>7 DEF Unload
<1> QED BY <1>1, <1>2, <1>3, <1>4, <1>5, <1>6, <1>7 DEF FlightStep

(* A step of a container is one of its gets', and stays in the container.  *)
LEMMA WorkIsLocal ==
  ASSUME TypeOK, NEW c \in Container, Work(c)
  PROVE  /\ FlightStep(c) /\ UNCHANGED published
         /\ \A d \in Container \ {c} :
              handler'[d] = handler[d] /\ run'[d] = run[d] /\ claims'[d] = claims[d]
<1> USE DEF FlightStep, catalog, history, Respond, Claim, Release, FailsStart, TypeOK
<1>1. CASE Reject(c) BY <1>1 DEF Reject
<1>2. CASE Refuse(c) BY <1>2 DEF Refuse
<1>3. CASE Suppress(c) BY <1>3 DEF Suppress
<1>4. CASE Normalize(c) BY <1>4 DEF Normalize, Read
<1>5. CASE Sent(c) BY <1>5 DEF Sent
<1>6. CASE SendFailed(c) BY <1>6 DEF SendFailed
<1>7. CASE GetAnswered(c) BY <1>7 DEF GetAnswered, Answer, Done
<1>8. CASE GetDiscarded(c) BY <1>8 DEF GetDiscarded, Discard, Lose, Done
<1>9. CASE GetLost(c) BY <1>9 DEF GetLost, Lose, Done
<1>10. CASE GetServed(c) BY <1>10 DEF GetServed, Serve
<1>11. CASE SnapshotExpires(c) BY <1>11 DEF SnapshotExpires, Expire
<1>12. CASE Recycle(c) BY <1>12 DEF Recycle, Unload
<1>13. ASSUME NEW d \in Delivery, Deliver(c, d)
       PROVE  /\ FlightStep(c) /\ UNCHANGED published
              /\ \A e \in Container \ {c} :
                   handler'[e] = handler[e] /\ run'[e] = run[e] /\ claims'[e] = claims[e]
  BY <1>13 DEF Deliver, Load
<1>14. ASSUME NEW d \in Delivery, ClaimExpires(c, d)
       PROVE  /\ FlightStep(c) /\ UNCHANGED published
              /\ \A e \in Container \ {c} :
                   handler'[e] = handler[e] /\ run'[e] = run[e] /\ claims'[e] = claims[e]
  BY <1>14 DEF ClaimExpires
<1> QED
  BY <1>1, <1>2, <1>3, <1>4, <1>5, <1>6, <1>7, <1>8, <1>9, <1>10, <1>11, <1>12, <1>13, <1>14
  DEF Work

(* Types of the normalizer's own variables, and a ready handler's snapshot.*)
LEMMA TypeStep == NInv /\ [Next]_vars => TypeOK'
<1> SUFFICES ASSUME NInv, [Next]_vars PROVE TypeOK'
  OBVIOUS
<1>0. TypeOK BY DEF NInv
<1>1. CASE UNCHANGED vars
  BY <1>0, <1>1 DEF TypeOK, CatalogTypeOK, vars, catalog, history, Get, Version, Latest
<1>2. CASE PublishBundle
  <2>1. CatalogTypeOK'
    BY <1>0, <1>2, PublishEffect DEF PublishBundle, TypeOK
  <2>2. UNCHANGED <<snapshot, handler, run, claims, history>>
    BY <1>2 DEF PublishBundle, Publish
  <2>3. QED BY <1>0, <2>1, <2>2 DEF TypeOK, history
<1>3. ASSUME NEW c \in Container, Work(c) PROVE TypeOK'
  <2>1. FlightStep(c) /\ UNCHANGED published
        /\ \A d \in Container \ {c} : handler'[d] = handler[d]
    BY <1>0, <1>3, WorkIsLocal
  <2>2. CatalogTypeOK' /\ \A d \in Container \ {c} : snapshot'[d] = snapshot[d]
    BY <1>0, <2>1, FlightTypes DEF TypeOK
  <2>3. /\ run' \in [Container -> Run] /\ claims' \in [Container -> SUBSET Delivery]
        /\ sent' \in [Delivery -> 0..MaxSent] /\ lost' \in [Delivery -> Nat]
        /\ dropped' \subseteq Delivery
        /\ keeper' \in [Delivery -> Container \cup {Nobody, Lost}]
    <3> USE DEF TypeOK, history, Respond, Claim, Release, Loses, Starting, Sending
    <3>1. \A p \in {"starting", "sending"} : \A d \in Delivery : [pc |-> p, delivery |-> d] \in Run
      BY DEF Run
    <3>2. Idle \in Run BY DEF Run
    <3>3. run[c].pc \in {"starting", "sending"} =>
            run[c].delivery \in Delivery /\ [run[c] EXCEPT !.pc = "sending"] \in Run
      BY <1>0 DEF Run, Idle
    <3>4. CASE Normalize(c) BY <1>0, <3>2, <3>3, <3>4 DEF Normalize
    <3>a. sent' \in [Delivery -> 0..MaxSent] /\ lost' \in [Delivery -> Nat]
      <4>1. CASE UNCHANGED <<sent, lost>> BY <1>0, <4>1
      <4>2. CASE SendPuts(c) BY <1>0, <3>3, <4>2, PutsEffect DEF SendPuts
      <4>3. QED BY <1>0, <1>3, <4>1, <4>2, OnlySendsPut
    <3>5. CASE Sent(c) BY <1>0, <3>2, <3>3, <3>a, <3>5 DEF Sent
    <3>6. CASE SendFailed(c) BY <1>0, <3>2, <3>3, <3>a, <3>6 DEF SendFailed
    <3>7. CASE Recycle(c) BY <1>0, <3>2, <3>3, <3>a, <3>7 DEF Recycle
    <3>8. ASSUME NEW d \in Delivery, Deliver(c, d)
          PROVE  /\ run' \in [Container -> Run] /\ claims' \in [Container -> SUBSET Delivery]
                 /\ sent' \in [Delivery -> 0..MaxSent] /\ lost' \in [Delivery -> Nat]
        /\ dropped' \subseteq Delivery
                 /\ keeper' \in [Delivery -> Container \cup {Nobody, Lost}]
      BY <1>0, <3>1, <3>8 DEF Deliver
    <3>9. ASSUME NEW d \in Delivery, ClaimExpires(c, d)
          PROVE  /\ run' \in [Container -> Run] /\ claims' \in [Container -> SUBSET Delivery]
                 /\ sent' \in [Delivery -> 0..MaxSent] /\ lost' \in [Delivery -> Nat]
        /\ dropped' \subseteq Delivery
                 /\ keeper' \in [Delivery -> Container \cup {Nobody, Lost}]
      BY <1>0, <3>9 DEF ClaimExpires
    <3>10. CASE \/ Reject(c) \/ Refuse(c) \/ Suppress(c)
      BY <1>0, <3>2, <3>10 DEF Reject, Refuse, Suppress
    <3>11. CASE \/ GetAnswered(c) \/ GetDiscarded(c) \/ GetLost(c) \/ GetServed(c)
                \/ SnapshotExpires(c)
      BY <1>0, <3>11 DEF GetAnswered, GetDiscarded, GetLost, GetServed, SnapshotExpires
    <3>12. QED BY <1>3, <3>4, <3>5, <3>6, <3>7, <3>8, <3>9, <3>10, <3>11 DEF Work
  <2>4. /\ handler' \in [Container -> {"none", "loading", "ready", "rejected"}]
        /\ handler'[c] = "ready" <=> snapshot'[c] # None
    <3> USE DEF TypeOK, catalog, Respond
    <3>1. CASE GetAnswered(c)
      <4>1. PICK get \in flight[c] : Answer(c, get)
        BY <3>1 DEF GetAnswered
      <4>2. get \in Get /\ get.answer \in Version /\ get.etag = snapshot[c]
        BY <1>0, <4>1 DEF Answer, NInv, FlightInv, CatalogTypeOK, Get
      <4>3. snapshot'[c] = get.answer
        BY <1>0, <4>1, <4>2 DEF Answer, Adopt, CatalogTypeOK
      <4>4. QED BY <1>0, <3>1, <4>2, <4>3 DEF GetAnswered, Version, None
    <3>2. CASE GetDiscarded(c) \/ GetLost(c)
      BY <1>0, <3>2 DEF GetDiscarded, GetLost, Discard, Lose, FailsStart
    <3>3. CASE Recycle(c)
      BY <1>0, <3>3 DEF Recycle, Unload, CatalogTypeOK
    <3>4. CASE GetServed(c) \/ SnapshotExpires(c)
      BY <1>0, <3>4 DEF GetServed, Serve, SnapshotExpires, Expire
    <3>5. CASE Reject(c) \/ Refuse(c) \/ Suppress(c) \/ Normalize(c) \/ Sent(c) \/ SendFailed(c)
      BY <1>0, <3>5 DEF Reject, Refuse, Suppress, Normalize, Read, Sent, SendFailed
    <3>6. ASSUME NEW d \in Delivery, Deliver(c, d) \/ ClaimExpires(c, d)
          PROVE  /\ handler' \in [Container -> {"none", "loading", "ready", "rejected"}]
                 /\ handler'[c] = "ready" <=> snapshot'[c] # None
      BY <1>0, <3>6 DEF Deliver, Load, ClaimExpires
    <3>7. QED BY <1>3, <3>1, <3>2, <3>3, <3>4, <3>5, <3>6 DEF Work
  <2>5. QED BY <1>0, <2>1, <2>2, <2>3, <2>4 DEF TypeOK
<1>4. QED BY <1>1, <1>2, <1>3 DEF Next

(* What happened to a delivery stays so. *)
LEMMA HistoryGrows ==
  ASSUME TypeOK, NEW c \in Container, Work(c)
  PROVE  \A d \in Delivery : (sent[d] > 0 => sent'[d] > 0) /\ (d \in dropped => d \in dropped')
<1> USE DEF history, TypeOK
<1>1. run[c].pc \in {"starting", "sending"} => run[c].delivery \in Delivery
  BY RunForms, TypeOK DEF Idle
<1>2. CASE UNCHANGED <<sent, lost>>
  BY <1>2 DEF Work, Reject, Refuse, Suppress, Normalize, Sent, SendFailed, GetAnswered,
     GetDiscarded, GetLost, GetServed, SnapshotExpires, Recycle, Deliver, ClaimExpires
<1>3. CASE SendPuts(c) /\ UNCHANGED dropped
  <2>1. PICK n, m \in Nat : Puts(run[c].delivery, n, m)
    BY <1>3 DEF SendPuts
  <2>2. run[c].delivery \in Delivery BY <1>1, <1>3 DEF SendPuts, Sending
  <2>3. \A d \in Delivery : sent[d] \in Nat /\ sent'[d] \in {sent[d], sent[d] + n}
    BY <2>1, <2>2, PutsEffect
  <2>4. QED BY <1>3, <2>3
<1> QED BY <1>2, <1>3, OnlySendsPut

(* Coalescing: a container that has a get in flight sends none. *)
LEMMA FlightKeeps ==
  ASSUME NInv, NEW c \in Container, Work(c), TypeOK'
  PROVE  FlightInv(c)' /\ SnapshotInv(c)'
<1>0. TypeOK /\ CatalogTypeOK /\ FlightInv(c) /\ SnapshotInv(c)
  BY DEF NInv, TypeOK
<1> USE DEF TypeOK, CatalogTypeOK, catalog
<1>1. UNCHANGED published BY <1>0, WorkIsLocal
<1>2. CASE UNCHANGED <<snapshot, flight, handler>>
  BY <1>0, <1>1, <1>2 DEF FlightInv, SnapshotInv
<1>3. CASE Send(c) /\ flight[c] = {} /\ UNCHANGED snapshot /\ handler'[c] # "none"
  <2>1. flight'[c] = {[etag |-> snapshot[c], answer |-> None]}
    BY <1>0, <1>3 DEF Send
  <2>2. QED BY <1>0, <1>1, <1>3, <2>1 DEF FlightInv, SnapshotInv
<1>4. ASSUME NEW get \in flight[c], Serve(c, get), UNCHANGED <<snapshot, handler>>
      PROVE  FlightInv(c)' /\ SnapshotInv(c)'
  <2> DEFINE got == [get EXCEPT !.answer = IF NotModified(get) THEN get.etag ELSE Latest]
  <2>1. flight' = [flight EXCEPT ![c] = (@ \ {get}) \cup {got}]
    BY <1>4 DEF Serve
  <2>2. get \in Get BY <1>0
  <2>3. got.etag = get.etag /\ got.answer = IF NotModified(get) THEN get.etag ELSE Latest
    BY <2>2 DEF Get
  <2>4. Latest \in Nat /\ Latest >= get.etag /\ get.etag \in Nat
    BY <1>0, <2>2 DEF Latest, Get, Version, None
  <2>5. got.answer >= got.etag
    BY <2>3, <2>4
  <2> HIDE DEF got
  <2>6. flight[c] = {get} BY <1>0, <1>4 DEF FlightInv
  <2>7. flight'[c] = {got} BY <1>0, <2>1, <2>6
  <2>8. QED BY <1>0, <1>1, <1>4, <2>3, <2>5, <2>6, <2>7 DEF FlightInv, SnapshotInv
<1>5. ASSUME NEW get \in flight[c], Answer(c, get)
      PROVE  FlightInv(c)' /\ SnapshotInv(c)'
  <2>1. flight[c] = {get} BY <1>0, <1>5 DEF FlightInv
  <2>2. flight'[c] = {} BY <1>0, <1>5, <2>1 DEF Answer, Done
  <2>3. snapshot'[c] \in {snapshot[c], get.answer} BY <1>0, <1>5 DEF Answer, Adopt
  <2>4. QED BY <1>0, <1>1, <1>5, <2>2, <2>3 DEF Answer, FlightInv, SnapshotInv
<1>6. ASSUME NEW get \in flight[c], Lose(c, get)
      PROVE  FlightInv(c)' /\ SnapshotInv(c)'
  <2>1. flight[c] = {get} BY <1>0, <1>6 DEF FlightInv
  <2>2. flight'[c] = {} /\ UNCHANGED snapshot BY <1>0, <1>6, <2>1 DEF Lose, Done
  <2>3. QED BY <1>0, <1>1, <2>2 DEF FlightInv, SnapshotInv
<1>7. CASE Recycle(c)
  <2>1. flight'[c] = {} /\ snapshot'[c] = None BY <1>0, <1>7 DEF Recycle, Unload
  <2>2. QED BY <2>1 DEF FlightInv, SnapshotInv
<1>8. CASE Normalize(c)
  <2>1. handler'[c] # "none" /\ UNCHANGED <<handler, snapshot>>
    BY <1>8 DEF Normalize, Read
  <2>2. CASE Refreshes(c) BY <1>3, <1>8, <2>1, <2>2 DEF Normalize, Read, Refreshes
  <2>3. CASE ~Refreshes(c) BY <1>2, <1>8, <2>1, <2>3 DEF Normalize, Read
  <2>4. QED BY <2>2, <2>3
<1>9. ASSUME NEW d \in Delivery, Deliver(c, d) PROVE FlightInv(c)' /\ SnapshotInv(c)'
  <2>1. CASE handler[c] = "none"
    BY <1>0, <1>3, <1>9, <2>1 DEF Deliver, Load, FlightInv
  <2>2. CASE handler[c] # "none"
    BY <1>2, <1>9, <2>2 DEF Deliver
  <2>3. QED BY <2>1, <2>2
<1>10. CASE \/ Reject(c) \/ Refuse(c) \/ Suppress(c) \/ Sent(c) \/ SendFailed(c)
            \/ SnapshotExpires(c) \/ \E d \in Delivery : ClaimExpires(c, d)
  BY <1>2, <1>10 DEF Reject, Refuse, Suppress, Sent, SendFailed, SnapshotExpires, Expire,
     ClaimExpires
<1>11. CASE GetAnswered(c) BY <1>5, <1>11 DEF GetAnswered
<1>12. CASE GetDiscarded(c) \/ GetLost(c)
  BY <1>6, <1>12 DEF GetDiscarded, GetLost, Discard
<1>13. CASE GetServed(c)
  BY <1>4, <1>13 DEF GetServed, Serve
<1> QED BY <1>7, <1>8, <1>9, <1>10, <1>11, <1>12, <1>13 DEF Work

(* A claim is marked by Normalize, which sends or filters, and released by *)
(* a send that fails.                                                      *)
LEMMA ClaimKeeps ==
  ASSUME NInv, NEW c \in Container, Work(c)
  PROVE  ClaimInv(c)'
<1>0. TypeOK /\ ClaimInv(c) BY DEF NInv
<1> USE DEF TypeOK, history, Respond
<1>1. \A d \in Delivery : (sent[d] > 0 => sent'[d] > 0) /\ (d \in dropped => d \in dropped')
  BY <1>0, HistoryGrows
<1>2. claims[c] \subseteq Delivery /\ claims'[c] \subseteq claims[c] \cup {run[c].delivery}
  BY <1>0 DEF Work, Reject, Refuse, Suppress, Normalize, Sent, SendFailed, GetAnswered,
     GetDiscarded, GetLost, GetServed, SnapshotExpires, Recycle, Deliver, ClaimExpires,
     Claim, Release
<1>3. /\ run[c] # Idle => run[c].delivery \in Delivery
           /\ run[c] = [pc |-> run[c].pc, delivery |-> run[c].delivery]
      /\ run[c].pc = "idle" <=> run[c] = Idle
  BY <1>0, RunForms
<1>4. CASE UNCHANGED <<claims, run>>
  BY <1>0, <1>1, <1>2, <1>4 DEF ClaimInv
<1>5. CASE claims'[c] \subseteq claims[c] /\ ~Sending(c) /\ run'[c].pc # "sending"
  BY <1>0, <1>1, <1>2, <1>5 DEF ClaimInv, Sending
<1>6. CASE Reject(c) \/ Refuse(c) \/ Suppress(c)
  BY <1>0, <1>5, <1>6 DEF Reject, Refuse, Suppress, Starting, Sending, Idle
<1>7. ASSUME NEW d \in Delivery, Deliver(c, d) PROVE ClaimInv(c)'
  BY <1>0, <1>3, <1>5, <1>7 DEF Deliver, Busy, Sending, Idle
<1>8. ASSUME NEW d \in Delivery, ClaimExpires(c, d) PROVE ClaimInv(c)'
  BY <1>0, <1>3, <1>5, <1>8 DEF ClaimExpires, Release, Busy, Sending, Idle
<1>9. CASE Recycle(c)
  <2>1. claims'[c] = {} /\ run'[c] = Idle BY <1>0, <1>9 DEF Recycle
  <2>2. QED BY <2>1 DEF ClaimInv, Idle
<1>10. CASE GetAnswered(c) \/ GetDiscarded(c) \/ GetLost(c) \/ GetServed(c) \/ SnapshotExpires(c)
  BY <1>4, <1>10 DEF GetAnswered, GetDiscarded, GetLost, GetServed, SnapshotExpires
<1>11. CASE Normalize(c)
  <2>1. run[c] = [pc |-> "starting", delivery |-> run[c].delivery] /\ run[c].delivery \in Delivery
    BY <1>3, <1>11 DEF Normalize, Starting, Idle
  <2>2. claims'[c] = claims[c] \cup {run[c].delivery}
    BY <1>0, <1>11 DEF Normalize, Claim
  <2>3. CASE run' = [run EXCEPT ![c].pc = "sending"]
    <3>1. run'[c] = [pc |-> "sending", delivery |-> run[c].delivery]
      BY <1>0, <2>1, <2>3
    <3>2. QED BY <1>0, <1>1, <1>2, <2>1, <2>2, <3>1 DEF ClaimInv
  <2>4. CASE run' = [run EXCEPT ![c] = Idle] /\ run[c].delivery \in dropped'
    <3>1. run'[c] = Idle BY <1>0, <2>4
    <3>2. QED BY <1>0, <1>1, <1>2, <2>1, <2>2, <2>4, <3>1 DEF ClaimInv, Idle
  <2>5. QED BY <1>11, <2>3, <2>4 DEF Normalize
<1>12. CASE Sent(c) \/ SendFailed(c)
  <2>1. run[c] = [pc |-> "sending", delivery |-> run[c].delivery] /\ run[c].delivery \in Delivery
    BY <1>3, <1>12 DEF Sent, SendFailed, Sending, Idle
  <2>2. run'[c] = Idle BY <1>0, <1>12 DEF Sent, SendFailed
  <2>3. \/ claims'[c] = claims[c] /\ sent'[run[c].delivery] > 0
        \/ claims'[c] = claims[c] \ {run[c].delivery}
    <3>1. CASE Sent(c)
      <4>1. PICK n \in 0..(MaxAttempts - 1) : Puts(run[c].delivery, n + 1, n)
        BY <3>1 DEF Sent
      <4>2. n \in Nat /\ n + 1 \in Nat /\ sent[run[c].delivery] \in Nat
        BY <1>0, <2>1, SendAssumption
      <4>3. sent'[run[c].delivery] = sent[run[c].delivery] + (n + 1)
        BY <1>0, <2>1, <4>1, <4>2, PutsEffect
      <4>4. QED BY <3>1, <4>2, <4>3 DEF Sent
    <3>2. CASE SendFailed(c) BY <1>0, <2>1, <3>2 DEF SendFailed, Release
    <3>3. QED BY <1>12, <3>1, <3>2
  <2>4. QED BY <1>0, <1>1, <1>2, <2>1, <2>2, <2>3 DEF ClaimInv, Idle
<1> QED BY <1>6, <1>7, <1>8, <1>9, <1>10, <1>11, <1>12 DEF Work

LEMMA StepCorrect == NInv /\ [Next]_vars => NInv'
<1> SUFFICES ASSUME NInv, [Next]_vars PROVE NInv'
  OBVIOUS
<1>0. TypeOK /\ TypeOK' BY TypeStep DEF NInv
<1>1. CASE UNCHANGED vars
  BY <1>0, <1>1 DEF NInv, vars, catalog, history, FlightInv, SnapshotInv, ClaimInv
<1>2. CASE PublishBundle
  <2>1. UNCHANGED <<snapshot, flight, handler, run, claims, sent, dropped>>
    BY <1>2 DEF PublishBundle, Publish, history
  <2>2. \A v \in Version : published'[v] = published[v]
    BY <1>0, <1>2, PublishEffect DEF PublishBundle, TypeOK
  <2>3. \A c \in Container : snapshot[c] \in Version \cup {None}
    BY <1>0 DEF TypeOK, CatalogTypeOK
  <2>4. QED BY <1>0, <2>1, <2>2, <2>3 DEF NInv, FlightInv, SnapshotInv, ClaimInv
<1>3. ASSUME NEW c \in Container, Work(c) PROVE NInv'
  <2>1. FlightInv(c)' /\ SnapshotInv(c)' /\ ClaimInv(c)'
    BY <1>0, <1>3, FlightKeeps, ClaimKeeps
  <2>2. ASSUME NEW d \in Container \ {c} PROVE FlightInv(d)' /\ SnapshotInv(d)' /\ ClaimInv(d)'
    <3>1. handler'[d] = handler[d] /\ run'[d] = run[d] /\ claims'[d] = claims[d]
      BY <1>0, <1>3, WorkIsLocal
    <3>2. snapshot'[d] = snapshot[d] /\ flight'[d] = flight[d] /\ UNCHANGED published
      BY <1>0, <1>3, WorkIsLocal, FlightTypes DEF TypeOK
    <3>3. claims[d] \subseteq Delivery BY <1>0 DEF TypeOK
    <3>4. QED BY <1>0, <1>3, <3>1, <3>2, <3>3, HistoryGrows
              DEF NInv, FlightInv, SnapshotInv, ClaimInv
  <2>3. QED BY <1>0, <2>1, <2>2 DEF NInv
<1>4. QED BY <1>1, <1>2, <1>3 DEF Next

LEMMA InvariantCorrect == Spec => []NInv
<1>1. Init => NInv BY InitCorrect
<1> QED BY <1>1, StepCorrect, PTL DEF Spec

(* Every reachable state has the declared types, and a handler that is     *)
(* ready has a catalog.                                                    *)
THEOREM TypeCorrect == Spec => []TypeOK
<1>1. NInv => TypeOK BY DEF NInv
<1> QED BY <1>1, InvariantCorrect, PTL

(* The dedupe map suppresses nothing that was not sent or filtered: the    *)
(* claim/release order of the handler, against every failure of the send.  *)
THEOREM ClaimsAreTrueHolds == Spec => []ClaimsAreTrue
<1>1. NInv => ClaimsAreTrue BY DEF NInv, ClaimInv, ClaimsAreTrue
<1> QED BY <1>1, InvariantCorrect, PTL

(* The snapshot of S3Catalog only moves to newer, parsed bundles while its *)
(* container lives.                                                        *)
THEOREM SnapshotNeverGoesBackHolds == Spec => SnapshotNeverGoesBack
<1> DEFINE Step1(c) == snapshot'[c] # None =>
       snapshot'[c] >= snapshot[c] /\ published'[snapshot'[c]] # Garbled
<1>1. ASSUME NInv, NInv', [Next]_vars, NEW c \in Container PROVE Step1(c)
  <2>0. TypeOK /\ CatalogTypeOK /\ FlightInv(c) /\ SnapshotInv(c)' /\ snapshot[c] \in Nat
    BY <1>1 DEF NInv, TypeOK, CatalogTypeOK, Version, Latest, None
  <2>1. CASE snapshot'[c] = snapshot[c]
    BY <2>0, <2>1 DEF SnapshotInv
  <2>2. ASSUME Work(c) PROVE Step1(c)
    <3>1. FlightStep(c) BY <2>0, <2>2, WorkIsLocal
    <3>2. CASE \E get \in flight[c] : Answer(c, get)
      BY <2>0, <3>2 DEF Answer, Adopt, FlightInv, SnapshotInv, CatalogTypeOK
    <3>3. CASE Unload(c)
      BY <2>0, <3>3 DEF Unload, CatalogTypeOK
    <3>4. QED BY <2>1, <3>1, <3>2, <3>3 DEF FlightStep, Serve, Lose, Expire
  <2>3. ASSUME NEW d \in Container, Work(d), d # c PROVE Step1(c)
    BY <2>0, <2>1, <2>3, WorkIsLocal, FlightTypes
  <2>4. CASE PublishBundle \/ UNCHANGED vars
    BY <2>1, <2>4 DEF PublishBundle, Publish, vars, catalog
  <2>5. QED BY <1>1, <2>2, <2>3, <2>4 DEF Next
<1>2. NInv /\ NInv' /\ [Next]_vars => [\A c \in Container : Step1(c)]_catalog
  BY <1>1
<1>3. QED BY <1>2, InvariantCorrect, PTL DEF Spec, SnapshotNeverGoesBack

---------------------------------------------------------------------------
(* One send per keeper *)

LEMMA KeeperKeeps ==
  ASSUME NInv, NEW c \in Container, Work(c), NEW d \in Delivery, KeeperInv(d)
  PROVE  KeeperInv(d)'
<1>0. /\ TypeOK /\ ClaimInv(c) /\ c # Nobody /\ c # Lost /\ sent[d] \in Nat /\ lost[d] \in Nat
      /\ keeper[d] \in Container \cup {Nobody, Lost}
  BY KeeperAssumption DEF NInv, TypeOK
<1> USE DEF TypeOK, history, Respond
<1>1. /\ run[c] # Idle => run[c].delivery \in Delivery
           /\ run[c] = [pc |-> run[c].pc, delivery |-> run[c].delivery]
      /\ run[c].pc = "idle" <=> run[c] = Idle
  BY <1>0, RunForms
<1>2. \A e \in Container \ {c} : run'[e] = run[e] /\ claims'[e] = claims[e]
  BY <1>0, WorkIsLocal
<1>3. run[c] # Idle => keeper[run[c].delivery] \in {c, Lost} \/ run[c].delivery # d
  BY <1>0, <1>1 DEF KeeperInv
<1>4. CASE UNCHANGED <<run, claims, sent, lost, keeper>>
  BY <1>4 DEF KeeperInv
<1>5. CASE Reject(c) \/ Refuse(c) \/ Suppress(c)
  <2>1. run'[c] = Idle /\ UNCHANGED <<claims, sent, lost, keeper>>
    BY <1>0, <1>5 DEF Reject, Refuse, Suppress
  <2>2. QED BY <1>0, <1>2, <2>1 DEF KeeperInv, Idle
<1>6. CASE Normalize(c)
  <2>1. run[c].pc = "starting" /\ run[c] # Idle /\ run[c].delivery \notin claims[c]
    BY <1>0, <1>1, <1>6 DEF Normalize, Starting, Idle
  <2>2. claims'[c] = claims[c] \cup {run[c].delivery} /\ UNCHANGED <<sent, lost, keeper>>
    BY <1>0, <1>6 DEF Normalize, Claim
  <2>3. run'[c] = Idle \/ run'[c].delivery = run[c].delivery
    BY <1>0, <1>1, <1>6, <2>1 DEF Normalize
  <2>4. CASE run[c].delivery = d
    BY <1>0, <1>2, <1>3, <2>1, <2>2, <2>4 DEF KeeperInv
  <2>5. CASE run[c].delivery # d
    <3>1. run'[c] # [pc |-> "sending", delivery |-> d]
      BY <2>3, <2>5 DEF Idle
    <3>2. QED BY <1>0, <1>2, <2>2, <2>3, <2>5, <3>1 DEF KeeperInv
  <2>6. QED BY <2>4, <2>5
<1>7. CASE Sent(c)
  <2>1. run[c].pc = "sending" /\ run[c] # Idle BY <1>0, <1>1, <1>7 DEF Sent, Sending, Idle
  <2>2. run'[c] = Idle /\ UNCHANGED <<claims, keeper>> BY <1>0, <1>7 DEF Sent
  <2>3. PICK n \in 0..(MaxAttempts - 1) : Puts(run[c].delivery, n + 1, n)
    BY <1>7 DEF Sent
  <2>4. n \in Nat /\ n + 1 \in Nat /\ run[c].delivery \in Delivery
    BY <1>1, <2>1, SendAssumption
  <2>5. CASE run[c].delivery = d
    <3>1. sent'[d] = sent[d] + (n + 1) /\ lost'[d] = lost[d] + n
      BY <1>0, <2>3, <2>4, <2>5, PutsEffect
    <3>2. d \in claims[c] BY <1>0, <2>1, <2>5 DEF ClaimInv
    <3>3. keeper[d] # Lost => keeper[d] = c /\ ~(sent[d] > lost[d])
      BY <1>0, <1>1, <1>3, <2>1, <2>5 DEF KeeperInv
    <3>4. ~(sent[d] > lost[d]) => sent'[d] <= 1 + lost'[d]
      BY <1>0, <2>4, <3>1
    <3>5. QED BY <1>0, <1>2, <2>2, <3>2, <3>3, <3>4 DEF KeeperInv, Idle
  <2>6. CASE run[c].delivery # d
    <3>1. sent'[d] = sent[d] /\ lost'[d] = lost[d]
      BY <1>0, <2>3, <2>4, <2>6, PutsEffect
    <3>2. QED BY <1>0, <1>2, <2>2, <3>1 DEF KeeperInv, Idle
  <2>7. QED BY <2>5, <2>6
<1>8. CASE SendFailed(c)
  <2>1. run[c].pc = "sending" /\ run[c] # Idle BY <1>0, <1>1, <1>8 DEF SendFailed, Sending, Idle
  <2>2. run'[c] = Idle /\ claims'[c] = claims[c] \ {run[c].delivery} /\ UNCHANGED keeper
    BY <1>0, <1>8 DEF SendFailed, Release
  <2>3. PICK n \in 0..MaxAttempts : Puts(run[c].delivery, n, n)
    BY <1>8 DEF SendFailed
  <2>4. n \in Nat /\ run[c].delivery \in Delivery
    BY <1>1, <2>1, SendAssumption
  <2>5. CASE run[c].delivery = d
    <3>1. sent'[d] = sent[d] + n /\ lost'[d] = lost[d] + n
      BY <1>0, <2>3, <2>4, <2>5, PutsEffect
    <3>2. keeper[d] # Lost => keeper[d] = c /\ ~(sent[d] > lost[d])
      BY <1>0, <1>1, <1>3, <2>1, <2>5 DEF KeeperInv
    <3>3. ~(sent[d] > lost[d]) => sent'[d] <= 1 + lost'[d] /\ ~(sent'[d] > lost'[d])
      BY <1>0, <2>4, <3>1
    <3>4. QED BY <1>0, <1>2, <2>2, <3>2, <3>3 DEF KeeperInv, Idle
  <2>6. CASE run[c].delivery # d
    <3>1. sent'[d] = sent[d] /\ lost'[d] = lost[d]
      BY <1>0, <2>3, <2>4, <2>6, PutsEffect
    <3>2. QED BY <1>0, <1>2, <2>2, <2>6, <3>1 DEF KeeperInv, Idle
  <2>7. QED BY <2>5, <2>6
<1>9. CASE Recycle(c)
  <2>1. run'[c] = Idle /\ claims'[c] = {} /\ Loses(claims[c])
    BY <1>0, <1>9 DEF Recycle
  <2>2. CASE d \in claims[c]
    BY <1>0, <2>1, <2>2 DEF KeeperInv, Loses
  <2>3. CASE d \notin claims[c]
    <3>1. keeper'[d] = keeper[d] BY <1>0, <2>1, <2>3 DEF Loses
    <3>2. Sending(c) => run[c].delivery # d /\ run[c].delivery \in Delivery
      BY <1>0, <1>1, <2>3 DEF Sending, ClaimInv, Idle
    <3>3. sent'[d] = sent[d] /\ lost'[d] = lost[d]
      <4>1. CASE UNCHANGED <<sent, lost>> BY <4>1
      <4>2. CASE SendPuts(c) BY <1>0, <3>2, <4>2, PutsEffect DEF SendPuts
      <4>3. QED BY <1>0, <4>1, <4>2, OnlySendsPut
    <3>4. QED BY <1>0, <1>2, <2>1, <2>3, <3>1, <3>3 DEF KeeperInv, Idle
  <2>4. QED BY <2>2, <2>3
<1>10. ASSUME NEW e \in Delivery, ClaimExpires(c, e) PROVE KeeperInv(d)'
  <2>1. UNCHANGED <<run, sent, lost>> /\ claims'[c] = claims[c] \ {e} /\ Loses({e})
    BY <1>0, <1>10 DEF ClaimExpires, Release
  <2>2. CASE e = d BY <1>0, <2>1, <2>2 DEF KeeperInv, Loses
  <2>3. CASE e # d
    <3>1. keeper'[d] = keeper[d] BY <1>0, <2>1, <2>3 DEF Loses
    <3>2. QED BY <1>0, <1>2, <2>1, <2>3, <3>1 DEF KeeperInv
  <2>4. QED BY <2>2, <2>3
<1>11. ASSUME NEW e \in Delivery, Deliver(c, e) PROVE KeeperInv(d)'
  <2>1. run'[c] = [pc |-> "starting", delivery |-> e] /\ UNCHANGED <<claims, sent, lost>>
    BY <1>0, <1>11 DEF Deliver
  <2>2. keeper' = [keeper EXCEPT ![e] = IF @ \in {Nobody, c} THEN c ELSE Lost]
    BY <1>11 DEF Deliver
  <2>3. CASE e = d
    <3>1. keeper'[d] # Lost => keeper'[d] = c /\ keeper[d] \in {Nobody, c}
      BY <1>0, <2>2, <2>3
    <3>2. keeper[d] \in {Nobody, c} => keeper[d] # Lost
      BY <1>0 DEF Nobody, Lost
    <3> SUFFICES ASSUME keeper'[d] # Lost PROVE KeeperInv(d)'
      BY DEF KeeperInv
    <3>3. ASSUME NEW f \in Container, f # c
          PROVE  d \notin claims[f] /\ (run[f] # Idle => run[f].delivery # d)
      BY <3>1, <3>2, <3>3, KeeperAssumption DEF KeeperInv
    <3>4. sent[d] > lost[d] => d \in claims[c]
      BY <3>1, <3>2 DEF KeeperInv
    <3>5. run'[c] # [pc |-> "sending", delivery |-> d]
      BY <2>1
    <3>6. sent[d] <= 1 + lost[d]
      BY <3>1, <3>2 DEF KeeperInv
    <3>7. QED BY <1>0, <1>2, <2>1, <3>1, <3>3, <3>4, <3>5, <3>6 DEF KeeperInv
  <2>4. CASE e # d
    <3>1. keeper'[d] = keeper[d] BY <1>0, <2>2, <2>4
    <3>2. QED BY <1>0, <1>2, <2>1, <2>4, <3>1 DEF KeeperInv
  <2>5. QED BY <2>3, <2>4
<1>12. CASE GetAnswered(c) \/ GetDiscarded(c) \/ GetLost(c) \/ GetServed(c) \/ SnapshotExpires(c)
  BY <1>4, <1>12 DEF GetAnswered, GetDiscarded, GetLost, GetServed, SnapshotExpires
<1> QED BY <1>5, <1>6, <1>7, <1>8, <1>9, <1>10, <1>11, <1>12 DEF Work

(* A delivery that reaches one container, which keeps its claim, makes one *)
(* message, and one more only for an answer that SQS lost, however often   *)
(* the provider repeats the delivery and the SDK a SendMessage, and        *)
(* however many sends fail.                                                *)
THEOREM SentOnceByOneContainerHolds == Spec => []SentOnceByOneContainer
<1> DEFINE KInv == \A d \in Delivery : KeeperInv(d)
<1>1. Init => KInv BY InitCorrect
<1>2. NInv /\ KInv /\ [Next]_vars => KInv'
  <2> SUFFICES ASSUME NInv, KInv, [Next]_vars, NEW d \in Delivery PROVE KeeperInv(d)'
    OBVIOUS
  <2>1. CASE UNCHANGED vars \/ PublishBundle
    BY <2>1 DEF vars, history, PublishBundle, KeeperInv
  <2>2. ASSUME NEW c \in Container, Work(c) PROVE KeeperInv(d)'
    BY <2>2, KeeperKeeps
  <2>3. QED BY <2>1, <2>2 DEF Next
<1>3. KInv => SentOnceByOneContainer
  BY DEF KeeperInv, SentOnceByOneContainer
<1> HIDE DEF KInv
<1> QED BY <1>1, <1>2, <1>3, InvariantCorrect, PTL DEF Spec
=================================================================================
