------------------------- MODULE AgentContainerProofs -------------------------
(***************************************************************************)
(* Theorems about a container, for any number of records, projects,        *)
(* parameters, domains and scenarios: its working copies, signing keys and *)
(* tokens (in this order), the environments its credentials resolve to,    *)
(* the skills' runs, whom it serves and what it may call, and its types.   *)
(***************************************************************************)
EXTENDS AgentContainer, TLAPS, WellFoundedInduction

---------------------------------------------------------------------------
(* Invariants *)

Asking == {"key", "key-wait"}
Equipping == {"credentials", "resolving", "equipped", "staged", "skill"}

(* Tokens are on their way to records that have something to resolve. *)
MintInv ==
  /\ DOMAIN minting = Record /\ DOMAIN todo = Record
  /\ \A r \in Record : minting[r] # Credentials!NoToken => pc[r] = "resolving" /\ todo[r] # {}

(* Whatever a record does before or after its sync. *)
Drifts(r) ==
  \/ pc'[r] = pc[r]
  \/ pc[r] # "sync" /\ pc'[r] \notin Asking \cup Equipping \cup {"sync"}
  \/ pc[r] \in Asking /\ pc'[r] \in Asking \cup {"sync"}
  \/ pc[r] \in Equipping /\ pc'[r] \in Equipping

CachedKey == [kind : {"none", "inFlight", "value"}, value : Nat, exp : Nat, late : Nat]

KeysShape ==
  /\ now \in Nat
  /\ param \in [Record -> Param \cup {"literal", "unsigned"}]
  /\ keys \in [Param -> CachedKey]
  /\ fetching \subseteq Param /\ answer \in [Param -> [value : Nat, read : Nat]]
  /\ version \in [Param -> Nat] /\ rotated \in [Param -> Nat]
  /\ key \in [Record -> Nat]

(* A fetch is waited for as long as it is unanswered; a cached value is    *)
(* the parameter's, or was it when SSM read it.                            *)
KeysInv ==
  /\ KeysShape
  /\ \A p \in Param :
       /\ keys[p].kind = "inFlight" => p \in fetching
       /\ keys[p].kind = "value" =>
            /\ keys[p].exp <= now + KeyTtl
            /\ \/ keys[p].value = version[p]
               \/ keys[p].exp <= rotated[p] + keys[p].late + KeyTtl
       /\ answer[p].read <= now
       /\ answer[p].value \in {version[p], Keys!NoKey} \/ answer[p].read <= rotated[p]

Commits == [era : Nat, n : Nat, own : BOOLEAN]
Checkouts == [tree : {"absent", "cloning", "half", "whole"}, head : Commits, ref : Commits,
              dirty : BOOLEAN]

CopiesShape ==
  /\ events \in 0..MaxEvents
  /\ pc \in [Record -> Progress]
  /\ copies \in [Record -> Seq(Project)]
  /\ at \in [Record -> Nat \ {0}]
  /\ step \in [Record -> Copies!SyncStep]
  /\ seen \in [Record -> [local : Commits, remote : Commits]]
  /\ upstream \in [Project -> Commits]
  /\ disk \in [Project -> Checkouts]
  /\ synced \in [Project -> Commits]
  /\ given \in [Record -> [Project -> Commits]]
  /\ disturbed \in [Project -> BOOLEAN]

Cloning(r) == Copies!Syncing(r) /\ step[r] \in {"cloning", "checkout"}

(* One clone at a time, of which the checkout is made; a record that waits *)
(* for its key has not begun.                                              *)
CloneInv ==
  /\ \A r \in Record :
       /\ pc[r] \in Asking => at[r] = 1 /\ step[r] = "look"
       /\ Copies!Runs(r, "cloning") => disk[Copies!Cur(r)].tree = "cloning"
       /\ Copies!Runs(r, "checkout") => Copies!HasHead(Copies!Cur(r))
  /\ \A r, q \in Record :
       Cloning(r) /\ Cloning(q) /\ Copies!Cur(r) = Copies!Cur(q) => r = q

(* The branch is at or past what was fetched, that at or past the head.    *)
HeadInv ==
  \A p \in Project :
    /\ upstream[p].era <= events
    /\ Copies!HasHead(p) =>
         /\ Copies!Later(disk[p].ref, disk[p].head)
         /\ Copies!Later(upstream[p], disk[p].ref)

Told(r, i) == pc[r] \in Equipping \cup {"sync"} /\ i < at[r]

(* Who was told of a copy was told of one that is recorded as synced.      *)
ToldInv ==
  \A r \in Record :
    /\ pc[r] \in Equipping => at[r] > Len(copies[r])
    /\ Copies!Runs(r, "remote") => seen[r].local # Copies!None
    /\ \A i \in 1..Len(copies[r]) : Told(r, i) => synced[copies[r][i]] # Copies!None

(* What holds of a project as long as nothing has disturbed its copy.      *)
Calm(p) ==
  /\ \A r, q \in Record : Copies!Midway(r, p) /\ Copies!Midway(q, p) => r = q
  /\ ~disk[p].dirty
  /\ disk[p].tree = "cloning" => \E r \in Record : Copies!Midway(r, p) /\ step[r] = "cloning"
  /\ disk[p].tree = "half" => \E r \in Record : Copies!Midway(r, p) /\ step[r] = "checkout"
  /\ synced[p] # Copies!None =>
       /\ disk[p].tree = "whole" /\ disk[p].head = synced[p]
       /\ \A r \in Record : ~Copies!Midway(r, p)
  /\ \A r \in Record :
       /\ Copies!Midway(r, p) /\ step[r] = "remote" => seen[r].local = disk[p].head
       /\ \A i \in 1..Len(copies[r]) :
            Told(r, i) /\ copies[r][i] = p => given[r][p] = synced[p]

PinInv == \A p \in Project : ~disturbed[p] => Calm(p)

CopiesInv == CopiesShape /\ CloneInv /\ HeadInv /\ ToldInv /\ PinInv

---------------------------------------------------------------------------
(* Steps that leave the working copies alone *)

CopiesRest ==
  /\ UNCHANGED <<copies, copyVars, upstream>>
  /\ events' \in 0..MaxEvents /\ events <= events'
  /\ pc' \in [Record -> Progress]
  /\ \A r \in Record : Drifts(r)

(* A step of the resolution of credentials moves its record forward, or fails it.*)
LEMMA CredentialsMoves ==
  ASSUME pc \in [Record -> Progress], MintInv, NEW r \in Record, CredentialsStep(r)
  PROVE  /\ MintInv'
         /\ \/ pc' = pc
            \/ \E to \in {"resolving", "equipped", "failed", "conflict"} :
                 pc[r] \in {"credentials", "resolving"} /\ pc' = [pc EXCEPT ![r] = to]
<1> USE DEF MintInv
<1>1. ASSUME Credentials!ReadSsm(r) \/ Credentials!UseToken(r)
      PROVE  /\ minting' = minting /\ minting[r] = Credentials!NoToken
             /\ pc' = pc \/ (pc[r] \in {"credentials", "resolving"} /\ pc' = [pc EXCEPT ![r] = "conflict"])
             /\ \E t : todo' = [todo EXCEPT ![r] = t]
  BY <1>1 DEF Credentials!ReadSsm, Credentials!UseToken, Credentials!Take, Credentials!Resolving
<1>2. ASSUME Credentials!Minted(r)
      PROVE  /\ minting' = [minting EXCEPT ![r] = Credentials!NoToken]
             /\ pc' = pc \/ (pc[r] \in {"credentials", "resolving"} /\ pc' = [pc EXCEPT ![r] = "conflict"])
             /\ \E t : todo' = [todo EXCEPT ![r] = t]
  BY <1>2 DEF Credentials!Minted, Credentials!Take
<1>3. CASE Credentials!ReadSsm(r) \/ Credentials!UseToken(r) BY <1>1, <1>3
<1>4. CASE Credentials!Minted(r) BY <1>2, <1>4
<1>5. CASE Credentials!Begin(r)
  BY <1>5 DEF Credentials!Begin
<1>6. CASE Unequipped(r)
  BY <1>6 DEF Unequipped, credVars
<1>7. CASE Credentials!Resolved(r)
  BY <1>7 DEF Credentials!Resolved
<1>8. CASE Credentials!RefuseBlock(r)
  BY <1>8 DEF Credentials!RefuseBlock, Credentials!ComesTo
<1>9. CASE Credentials!Mint(r)
  BY <1>9 DEF Credentials!Mint, Credentials!Resolving
<1>10. CASE Credentials!ResolveFails(r)
  BY <1>10 DEF Credentials!ResolveFails, Credentials!Resolving
<1>11. CASE Credentials!ReadBlock(r)
  <2>1. PICK p \in Project :
          Credentials!ComesTo(r, p) /\ todo' = [todo EXCEPT ![r] = Credentials!PlacesOf(p, declared[p])]
    BY <1>11 DEF Credentials!ReadBlock
  <2>2. UNCHANGED <<pc, minting>> /\ minting[r] = Credentials!NoToken
    BY <1>11, <2>1 DEF Credentials!ReadBlock, Credentials!ComesTo
  <2>3. QED BY <2>1, <2>2
<1>12. QED
  BY <1>3, <1>4, <1>5, <1>6, <1>7, <1>8, <1>9, <1>10, <1>11 DEF CredentialsStep

(* A step of the skill's run moves its record forward.                     *)
LEMMA SkillMoves ==
  ASSUME pc \in [Record -> Progress], NEW r \in Record, SkillStep(r)
  PROVE  \/ pc' = pc
         \/ \E to \in {"failed", "threw", "answered", "done"} :
              pc[r] \notin Asking \cup {"sync", "resolving"} /\ pc' = [pc EXCEPT ![r] = to]
         \/ \E to \in {"staged", "skill"} :
              pc[r] \in {"equipped", "staged"} /\ pc' = [pc EXCEPT ![r] = to]
BY DEF SkillStep, Runs!RefuseCall, Runs!Stage, Runs!Spawn, Runs!LeaveBehind, Runs!Reap,
       Runs!Exit, Runs!Close, Runs!Timeout, Runs!Cleanup, Asking

(* What a record does before and after its sync is no matter of the        *)
(* working copies.                                                         *)
LEMMA RestStep ==
  ASSUME events \in 0..MaxEvents, pc \in [Record -> Progress], MintInv,
         \/ Boot \/ BootWithoutCatalog \/ Refresh \/ Tick \/ UNCHANGED vars
         \/ \E p \in Param : KeyAnswer(p)
         \/ \E r \in Record :
              KeyStep(r) \/ CredentialsStep(r) \/ SkillStep(r) \/ Redeliver(r)
         \/ World /\ UNCHANGED upstream
  PROVE  CopiesRest
<1> USE ContainerAssumption
<1> DEFINE Moves(r, from, to) == pc[r] = from /\ pc' = [pc EXCEPT ![r] = to]
<1>1. CASE UNCHANGED vars
  BY <1>1 DEF vars, deployVars, worldVars, CopiesRest, Drifts
<1>2. CASE Boot \/ Refresh \/ Tick
  BY <1>2 DEF Boot, Refresh, Tick, deployVars, worldVars, CopiesRest, Drifts
<1>3. CASE BootWithoutCatalog
  BY <1>3 DEF BootWithoutCatalog, deployVars, worldVars, CopiesRest, Drifts
<1>4. ASSUME NEW r \in Record, KeyStep(r) PROVE CopiesRest
  <2>1. UNCHANGED <<copies, copyVars, upstream, events>>
    BY <1>4 DEF KeyStep, deployVars, worldVars
  <2>2. pc[r] = "key" /\ \E to \in {"sync", "key-wait", "unavailable"} :
          pc' = [pc EXCEPT ![r] = to]
    BY <1>4 DEF KeyStep, Keys!NeedsNoFetch, Keys!UseCached, Keys!Join, Keys!Fetch
  <2>3. QED BY <2>1, <2>2 DEF CopiesRest, Drifts, Asking, Equipping, Progress, Settled
<1>5. ASSUME NEW p \in Param, KeyAnswer(p) PROVE CopiesRest
  BY <1>5 DEF KeyAnswer, Keys!Served, Keys!Fetched, Keys!FetchFails, Keys!Waiting, deployVars, worldVars,
              CopiesRest, Drifts, Asking, Equipping, Progress, Settled
<1>6. ASSUME NEW r \in Record, CredentialsStep(r) PROVE CopiesRest
  <2>1. UNCHANGED <<copies, copyVars, upstream>>
    BY <1>6 DEF CredentialsStep, deployVars
  <2>2. events' \in 0..MaxEvents /\ events <= events'
    BY <1>6 DEF CredentialsStep, Credentials!ResolveFails
  <2>3. \/ pc' = pc
        \/ \E to \in {"resolving", "equipped", "failed", "conflict"} :
             pc[r] \in Equipping /\ pc' = [pc EXCEPT ![r] = to]
    BY <1>6, CredentialsMoves DEF Equipping
  <2>4. QED BY <2>1, <2>2, <2>3 DEF CopiesRest, Drifts, Asking, Equipping, Progress, Settled
<1>7. ASSUME NEW r \in Record, SkillStep(r) PROVE CopiesRest
  <2>1. UNCHANGED <<copies, copyVars, upstream, events>>
    BY <1>7 DEF SkillStep, deployVars, worldVars
  <2>2. \/ pc' = pc
        \/ \E to \in {"failed", "threw", "answered", "done"} :
             pc[r] # "sync" /\ pc' = [pc EXCEPT ![r] = to]
        \/ \E to \in {"staged", "skill"} : pc[r] \in Equipping /\ pc' = [pc EXCEPT ![r] = to]
    BY <1>7, SkillMoves DEF Equipping
  <2>3. \A q \in Record : Drifts(q)
    BY <2>2 DEF Drifts, Asking, Equipping
  <2>4. pc' \in [Record -> Progress]
    BY <2>2 DEF Progress, Settled
  <2>5. QED BY <2>1, <2>3, <2>4 DEF CopiesRest
<1>8. ASSUME NEW r \in Record, Redeliver(r) PROVE CopiesRest
  BY <1>8 DEF Redeliver, deployVars, worldVars, CopiesRest, Drifts, Asking, Equipping, Progress,
     Settled
<1>9. CASE World /\ UNCHANGED upstream
  BY <1>9 DEF World, Copies!Push, Copies!Rewrite, Keys!Rotate, Credentials!Store,
              Credentials!Publish, deployVars, CopiesRest, Drifts
<1>10. QED BY <1>1, <1>2, <1>3, <1>4, <1>5, <1>6, <1>7, <1>8, <1>9

(* Nothing is lost of the copies' invariant in the meantime. *)
LEMMA RestKeeps ==
  ASSUME CopiesInv, CopiesRest
  PROVE  CopiesInv'
<1> USE ContainerAssumption DEF CopiesInv, CopiesRest, copyVars
<1>1. CopiesShape' BY DEF CopiesShape
<1>2. \A r \in Record :
        /\ Copies!Cur(r)' = Copies!Cur(r)
        /\ Copies!Syncing(r)' => Copies!Syncing(r) \/ (pc[r] \in Asking /\ at'[r] = at[r])
  BY DEF CopiesShape, Drifts, Copies!Syncing, Copies!Cur, Asking, Equipping
<1>3. \A r \in Record : pc[r] \in Asking => step'[r] = "look"
  BY DEF CloneInv
<1>4. \A r \in Record, p \in Project : Copies!Midway(r, p)' => Copies!Midway(r, p)
  BY <1>2, <1>3 DEF Copies!Midway
<1>5. CloneInv'
  BY <1>2, <1>3 DEF CloneInv, Cloning, Copies!Runs, Copies!HasHead, Drifts, Asking, Equipping
<1>6. HeadInv'
  BY DEF HeadInv, CopiesShape, Commits, Copies!HasHead, Copies!Later
<1>7. \A r \in Record : \A i \in 1..Len(copies[r]) : Told(r, i)' => Told(r, i)
  BY <1>2, ContainerAssumption DEF Told, Drifts, Asking, Equipping, CloneInv, CopiesShape
<1>8. ToldInv'
  BY <1>2, <1>3, <1>7 DEF ToldInv, Copies!Runs, Drifts, Asking, Equipping, CloneInv
<1>9. ASSUME NEW p \in Project, ~disturbed'[p] PROVE Calm(p)'
  <2>1. Calm(p) BY <1>9 DEF PinInv
  <2>2. \A r \in Record :
          Copies!Midway(r, p) /\ step[r] \in {"cloning", "checkout"} => Copies!Midway(r, p)'
    BY <1>2 DEF CloneInv, Copies!Midway, Copies!Syncing, Drifts, Asking, Equipping, CopiesShape
  <2>3. QED
    BY <1>2, <1>4, <1>7, <2>1, <2>2 DEF Calm
<1>10. PinInv' BY <1>9 DEF PinInv
<1>11. QED BY <1>1, <1>5, <1>6, <1>8, <1>10

---------------------------------------------------------------------------
(* Steps of a sync *)

(* A record that syncs is at one of the projects it was given.             *)
LEMMA SyncingHere ==
  ASSUME CopiesShape, NEW r \in Record, Copies!Syncing(r)
  PROVE  at[r] \in 1..Len(copies[r]) /\ Copies!Cur(r) \in Project
  BY DEF CopiesShape, Copies!Syncing, Copies!Cur

(* The bound on events, as arithmetic needs it.                            *)
LEMMA MaxEventsNat == MaxEvents \in Nat
  BY ContainerAssumption

(* What a command of r's sync writes: r's own progress, and what is        *)
(* remembered of the project the sync is at.                               *)
LEMMA SyncMoves ==
  ASSUME CopiesShape, NEW r \in Record, SyncStep(r)
  PROVE  /\ UNCHANGED <<copies, upstream>>
         /\ pc[r] = "sync"
         /\ pc' = pc \/ \E to \in {"failed", "credentials"} : pc' = [pc EXCEPT ![r] = to]
         /\ at' = at \/ at' = [at EXCEPT ![r] = at[r] + 1]
         /\ step' = step \/ \E s \in Copies!SyncStep : step' = [step EXCEPT ![r] = s]
         /\ events' \in 0..MaxEvents /\ events <= events'
<1>1. UNCHANGED <<copies, upstream>>
  BY DEF SyncStep, deployVars, worldVars
<1>2. events' \in 0..MaxEvents /\ events <= events'
  BY MaxEventsNat DEF SyncStep, Copies!CloneFails, Copies!GitFails, CopiesShape
<1> USE DEF Copies!SyncStep, Copies!Runs, Copies!Syncing
<1>3. CASE Copies!CloneRefused(r) \/ Copies!NoHead(r) \/ Copies!MergeRefused(r)
           \/ Copies!GitFails(r) \/ Copies!CloneFails(r)
  BY <1>1, <1>2, <1>3 DEF Copies!CloneRefused, Copies!NoHead, Copies!MergeRefused,
     Copies!GitFails, Copies!CloneFails, Copies!Throw
<1>4. CASE Copies!Dedup(r) \/ Copies!CloneHead(r) \/ Copies!NewHead(r)
  BY <1>1, <1>2, <1>4 DEF Copies!Dedup, Copies!CloneHead, Copies!NewHead, Copies!Finish,
     Copies!Report
<1>5. CASE Copies!Look(r) \/ Copies!Clone(r) \/ Copies!CloneFetched(r) \/ Copies!Cloned(r)
           \/ Copies!From(r) \/ Copies!Fetch(r) \/ Copies!LocalHead(r)
  BY <1>1, <1>2, <1>5 DEF Copies!Look, Copies!Clone, Copies!CloneFetched, Copies!Cloned,
     Copies!From, Copies!Fetch, Copies!LocalHead, Copies!Goto
<1>6. CASE Copies!RemoteHead(r)
  BY <1>1, <1>2, <1>6 DEF Copies!RemoteHead, Copies!Goto, Copies!Finish, Copies!Report
<1>7. CASE Copies!FastForward(r) \/ Copies!ResetHard(r)
  BY <1>1, <1>2, <1>7 DEF Copies!FastForward, Copies!ResetHard, Copies!Goto
<1>8. CASE Copies!Synced(r)
  BY <1>1, <1>2, <1>8 DEF Copies!Synced
<1>9. QED BY <1>3, <1>4, <1>5, <1>6, <1>7, <1>8 DEF SyncStep

(* A command writes to one checkout.                                       *)
LEMMA SyncWritesDisk ==
  ASSUME CopiesShape, NEW r \in Record, SyncStep(r), Copies!Syncing(r)
  PROVE  /\ disk' \in [Project -> Checkouts]
         /\ \A p \in Project : p # Copies!Cur(r) => disk'[p] = disk[p]
<1>1. Copies!Cur(r) \in Project BY SyncingHere
<1>2. Copies!None \in Commits /\ Copies!Absent \in Checkouts
  BY MaxEventsNat DEF Copies!None, Copies!Absent, Commits, Checkouts
<1> DEFINE p == Copies!Cur(r)
<1>3. ASSUME NEW d \in Checkouts, disk' = [disk EXCEPT ![p] = d]
      PROVE  /\ disk' \in [Project -> Checkouts]
             /\ \A q \in Project : q # p => disk'[q] = disk[q]
  BY <1>1, <1>3 DEF CopiesShape
<1> HIDE DEF p
<1>4. disk[p] \in Checkouts /\ upstream[p] \in Commits
  BY <1>1 DEF CopiesShape, p
<1>5. CASE Copies!Clone(r)
  <2>1. [Copies!Absent EXCEPT !.tree = "cloning"] \in Checkouts BY <1>2 DEF Checkouts
  <2>2. QED BY <1>3, <1>5, <2>1 DEF Copies!Clone, p
<1>6. CASE Copies!CloneFetched(r)
  <2>1. [tree |-> "half", head |-> upstream[p], ref |-> upstream[p], dirty |-> FALSE] \in Checkouts
    BY <1>4 DEF Checkouts
  <2>2. QED BY <1>3, <1>6, <2>1 DEF Copies!CloneFetched, p
<1>7. CASE Copies!Cloned(r)
  <2> DEFINE d == [disk[p] EXCEPT !.tree = "whole"]
  <2>1. d \in Checkouts BY <1>4 DEF Checkouts
  <2>2. disk' = [disk EXCEPT ![p] = d] BY <1>7 DEF Copies!Cloned, p
  <2> HIDE DEF d
  <2>3. QED BY <1>3, <2>1, <2>2 DEF p
<1>8. CASE Copies!CloneFails(r)
  BY <1>2, <1>3, <1>8 DEF Copies!CloneFails, p
<1>9. CASE Copies!Fetch(r)
  <2> DEFINE d == [disk[p] EXCEPT !.ref = upstream[p]]
  <2>1. d \in Checkouts BY <1>4 DEF Checkouts
  <2>2. disk' = [disk EXCEPT ![p] = d] BY <1>9 DEF Copies!Fetch, p
  <2> HIDE DEF d
  <2>3. QED BY <1>3, <2>1, <2>2 DEF p
<1>10. CASE Copies!FastForward(r)
  <2> DEFINE d == [disk[p] EXCEPT !.head = disk[p].ref]
  <2>1. d \in Checkouts BY <1>4 DEF Checkouts
  <2>2. disk' = [disk EXCEPT ![p] = d] BY <1>10 DEF Copies!FastForward, p
  <2> HIDE DEF d
  <2>3. QED BY <1>3, <2>1, <2>2 DEF p
<1>11. CASE Copies!ResetHard(r)
  <2>1. [tree |-> "whole", head |-> disk[p].ref, ref |-> disk[p].ref, dirty |-> FALSE] \in Checkouts
    BY <1>4 DEF Checkouts
  <2>2. QED BY <1>3, <1>11, <2>1 DEF Copies!ResetHard, p
<1>12. CASE UNCHANGED disk
  BY <1>12 DEF CopiesShape
<1>13. QED
  BY <1>5, <1>6, <1>7, <1>8, <1>9, <1>10, <1>11, <1>12
  DEF p, SyncStep, Copies!Dedup, Copies!Look, Copies!CloneRefused, Copies!CloneHead, Copies!From,
      Copies!NoHead, Copies!LocalHead, Copies!RemoteHead, Copies!MergeRefused, Copies!NewHead,
      Copies!Synced, Copies!GitFails, Copies!Throw

(* What else a command writes is the record's own.                         *)
LEMMA SyncWritesOwn ==
  ASSUME CopiesShape, NEW r \in Record, SyncStep(r), Copies!Syncing(r)
  PROVE  /\ \/ UNCHANGED seen
            \/ \E c \in [local : Commits, remote : Commits] : seen' = [seen EXCEPT ![r] = c]
         /\ UNCHANGED disturbed
            \/ \E b \in BOOLEAN : disturbed' = [disturbed EXCEPT ![Copies!Cur(r)] = b]
<1>1. Copies!Cur(r) \in Project BY SyncingHere
<1>2. Copies!None \in Commits BY MaxEventsNat DEF Copies!None, Commits
<1>3. CASE Copies!Look(r)
  <2>1. Copies!Unseen \in [local : Commits, remote : Commits] BY <1>2 DEF Copies!Unseen
  <2>2. (disturbed[Copies!Cur(r)] \/ \E q \in Record \ {r} : Copies!Midway(q, Copies!Cur(r)))
          \in BOOLEAN
    BY <1>1 DEF CopiesShape
  <2>3. QED BY <1>3, <2>1, <2>2 DEF Copies!Look
<1>4. CASE Copies!Clone(r)
  <2>1. (synced[Copies!Cur(r)] # Copies!None
           \/ \E q \in Record \ {r} : Copies!Midway(q, Copies!Cur(r))) \in BOOLEAN
    OBVIOUS
  <2>2. QED BY <1>4, <2>1 DEF Copies!Clone
<1>5. CASE Copies!LocalHead(r)
  <2>1. [seen[r] EXCEPT !.local = disk[Copies!Cur(r)].head] \in [local : Commits, remote : Commits]
    BY <1>1 DEF CopiesShape, Checkouts
  <2>2. seen' = [seen EXCEPT ![r] = [seen[r] EXCEPT !.local = disk[Copies!Cur(r)].head]]
    BY <1>5 DEF Copies!LocalHead
  <2>3. QED BY <1>5, <2>1, <2>2 DEF Copies!LocalHead
<1>6. CASE Copies!RemoteHead(r)
  <2>1. [seen[r] EXCEPT !.remote = disk[Copies!Cur(r)].ref] \in [local : Commits, remote : Commits]
    BY <1>1 DEF CopiesShape, Checkouts
  <2>2. UNCHANGED seen
        \/ seen' = [seen EXCEPT ![r] = [seen[r] EXCEPT !.remote = disk[Copies!Cur(r)].ref]]
    BY <1>6 DEF Copies!RemoteHead
  <2>3. QED BY <1>6, <2>1, <2>2 DEF Copies!RemoteHead
<1>7. CASE UNCHANGED <<seen, disturbed>>
  BY <1>7
<1>8. QED
  BY <1>3, <1>4, <1>5, <1>6, <1>7
  DEF SyncStep, Copies!Dedup, Copies!CloneRefused, Copies!CloneFetched, Copies!Cloned,
      Copies!CloneHead, Copies!From, Copies!NoHead, Copies!Fetch, Copies!FastForward,
      Copies!MergeRefused, Copies!ResetHard, Copies!NewHead, Copies!Synced, Copies!CloneFails,
      Copies!GitFails, Copies!Throw

(* A report tells the record what is then recorded of the project; what    *)
(* reports nothing leaves both alone.                                      *)
LEMMA SyncReports ==
  ASSUME CopiesShape, NEW r \in Record, SyncStep(r), Copies!Syncing(r)
  PROVE  \/ UNCHANGED <<synced, given, at>>
         \/ \E c \in Commits :
              /\ given' = [given EXCEPT ![r][Copies!Cur(r)] = c]
              /\ synced' = [synced EXCEPT ![Copies!Cur(r)] = c]
              /\ at' = [at EXCEPT ![r] = at[r] + 1]
              /\ step' = [step EXCEPT ![r] = "look"]
              /\ UNCHANGED <<pc, disk, disturbed>>
              /\ \/ Copies!Dedup(r) /\ c = synced[Copies!Cur(r)] /\ c # Copies!None
                 \/ /\ Copies!CloneHead(r) \/ Copies!NewHead(r)
                    /\ c = disk[Copies!Cur(r)].head
                 \/ /\ Copies!RemoteHead(r) /\ c = seen[r].local
<1>1. Copies!Cur(r) \in Project BY SyncingHere
<1>2. CASE Copies!Dedup(r)
  <2>1. synced[Copies!Cur(r)] \in Commits BY <1>1 DEF CopiesShape
  <2>2. synced = [synced EXCEPT ![Copies!Cur(r)] = synced[Copies!Cur(r)]]
    BY <1>1 DEF CopiesShape
  <2>3. QED BY <1>2, <2>1, <2>2 DEF Copies!Dedup, Copies!Report
<1>3. CASE Copies!CloneHead(r) \/ Copies!NewHead(r)
  <2>1. disk[Copies!Cur(r)].head \in Commits BY <1>1 DEF CopiesShape, Checkouts
  <2>2. QED BY <1>3, <2>1 DEF Copies!CloneHead, Copies!NewHead, Copies!Finish, Copies!Report
<1>4. CASE Copies!RemoteHead(r)
  <2>1. seen[r].local \in Commits BY DEF CopiesShape
  <2>2. QED BY <1>4, <2>1 DEF Copies!RemoteHead, Copies!Goto, Copies!Finish, Copies!Report
<1>5. CASE UNCHANGED <<synced, given, at>>
  BY <1>5
<1>6. QED
  BY <1>2, <1>3, <1>4, <1>5
  DEF SyncStep, Copies!Look, Copies!Clone, Copies!CloneRefused, Copies!CloneFetched,
      Copies!Cloned, Copies!From, Copies!NoHead, Copies!Fetch, Copies!LocalHead,
      Copies!FastForward, Copies!MergeRefused, Copies!ResetHard, Copies!Synced,
      Copies!CloneFails, Copies!GitFails, Copies!Throw, Copies!Goto

(* Other records and other projects stay as they are.                      *)
LEMMA SyncIsLocal ==
  ASSUME CopiesShape, NEW r \in Record, SyncStep(r), Copies!Syncing(r)
  PROVE  /\ CopiesShape'
         /\ \A q \in Record \ {r} :
              /\ pc'[q] = pc[q] /\ at'[q] = at[q] /\ step'[q] = step[q] /\ seen'[q] = seen[q]
              /\ given'[q] = given[q]
         /\ \A p \in Project : p # Copies!Cur(r) =>
              /\ disk'[p] = disk[p] /\ synced'[p] = synced[p] /\ disturbed'[p] = disturbed[p]
              /\ given'[r][p] = given[r][p]
<1>1. Copies!Cur(r) \in Project BY SyncingHere
<1>2. PICK c \in Commits :
        UNCHANGED <<synced, given>>
        \/ /\ given' = [given EXCEPT ![r][Copies!Cur(r)] = c]
           /\ synced' = [synced EXCEPT ![Copies!Cur(r)] = c]
  <2>1. Copies!None \in Commits BY MaxEventsNat DEF Copies!None, Commits
  <2>2. QED BY <2>1, SyncReports
<1>3. /\ synced' \in [Project -> Commits] /\ given' \in [Record -> [Project -> Commits]]
      /\ \A q \in Record \ {r} : given'[q] = given[q]
      /\ \A p \in Project : p # Copies!Cur(r) =>
           synced'[p] = synced[p] /\ given'[r][p] = given[r][p]
  <2>1. CASE UNCHANGED <<synced, given>> BY <2>1 DEF CopiesShape
  <2>2. CASE /\ given' = [given EXCEPT ![r][Copies!Cur(r)] = c]
             /\ synced' = [synced EXCEPT ![Copies!Cur(r)] = c]
    BY <1>1, <2>2 DEF CopiesShape
  <2>3. QED BY <1>2, <2>1, <2>2
<1>4. /\ seen' \in [Record -> [local : Commits, remote : Commits]]
      /\ disturbed' \in [Project -> BOOLEAN]
      /\ \A q \in Record \ {r} : seen'[q] = seen[q]
      /\ \A p \in Project : p # Copies!Cur(r) => disturbed'[p] = disturbed[p]
  <2>1. /\ seen' \in [Record -> [local : Commits, remote : Commits]]
        /\ \A q \in Record \ {r} : seen'[q] = seen[q]
    <3>1. CASE UNCHANGED seen BY <3>1 DEF CopiesShape
    <3>2. ASSUME NEW d \in [local : Commits, remote : Commits], seen' = [seen EXCEPT ![r] = d]
          PROVE  /\ seen' \in [Record -> [local : Commits, remote : Commits]]
                 /\ \A q \in Record \ {r} : seen'[q] = seen[q]
      BY <3>2 DEF CopiesShape
    <3>3. QED BY <3>1, <3>2, SyncWritesOwn
  <2>2. /\ disturbed' \in [Project -> BOOLEAN]
        /\ \A p \in Project : p # Copies!Cur(r) => disturbed'[p] = disturbed[p]
    <3>1. CASE UNCHANGED disturbed BY <3>1 DEF CopiesShape
    <3>2. ASSUME NEW b \in BOOLEAN, disturbed' = [disturbed EXCEPT ![Copies!Cur(r)] = b]
          PROVE  /\ disturbed' \in [Project -> BOOLEAN]
                 /\ \A p \in Project : p # Copies!Cur(r) => disturbed'[p] = disturbed[p]
      BY <1>1, <3>2 DEF CopiesShape
    <3>3. QED BY <3>1, <3>2, SyncWritesOwn
  <2>3. QED BY <2>1, <2>2
<1>5. /\ pc' \in [Record -> Progress] /\ at' \in [Record -> Nat \ {0}]
      /\ step' \in [Record -> Copies!SyncStep]
      /\ \A q \in Record \ {r} : pc'[q] = pc[q] /\ at'[q] = at[q] /\ step'[q] = step[q]
  <2>1. pc' \in [Record -> Progress] /\ \A q \in Record \ {r} : pc'[q] = pc[q]
    <3>1. CASE UNCHANGED pc BY <3>1 DEF CopiesShape
    <3>2. ASSUME NEW to \in {"failed", "credentials"}, pc' = [pc EXCEPT ![r] = to]
          PROVE  /\ pc' \in [Record -> Progress]
                 /\ \A q \in Record \ {r} : pc'[q] = pc[q]
      BY <3>2 DEF CopiesShape, Progress, Settled
    <3>3. QED BY <3>1, <3>2, SyncMoves
  <2>2. at' \in [Record -> Nat \ {0}] /\ \A q \in Record \ {r} : at'[q] = at[q]
    <3>1. CASE UNCHANGED at BY <3>1 DEF CopiesShape
    <3>2. CASE at' = [at EXCEPT ![r] = at[r] + 1]
      <4>1. at[r] + 1 \in Nat \ {0} BY DEF CopiesShape
      <4>2. QED BY <3>2, <4>1 DEF CopiesShape
    <3>3. QED BY <3>1, <3>2, SyncMoves
  <2>3. step' \in [Record -> Copies!SyncStep] /\ \A q \in Record \ {r} : step'[q] = step[q]
    <3>1. CASE UNCHANGED step BY <3>1 DEF CopiesShape
    <3>2. ASSUME NEW t \in Copies!SyncStep, step' = [step EXCEPT ![r] = t]
          PROVE  /\ step' \in [Record -> Copies!SyncStep]
                 /\ \A q \in Record \ {r} : step'[q] = step[q]
      BY <3>2 DEF CopiesShape
    <3>3. QED BY <3>1, <3>2, SyncMoves
  <2>4. QED BY <2>1, <2>2, <2>3
<1>6. /\ disk' \in [Project -> Checkouts]
      /\ \A p \in Project : p # Copies!Cur(r) => disk'[p] = disk[p]
  BY SyncWritesDisk
<1>7. copies' = copies /\ upstream' = upstream /\ events' \in 0..MaxEvents
  BY SyncMoves
<1>8. CopiesShape' BY <1>3, <1>4, <1>5, <1>6, <1>7 DEF CopiesShape
<1>9. QED BY <1>3, <1>4, <1>5, <1>6, <1>8

(* No other record's place in its sync moves.                              *)
LEMMA OthersStill ==
  ASSUME CopiesShape, NEW r \in Record, SyncStep(r), Copies!Syncing(r),
         NEW q \in Record, q # r
  PROVE  /\ Copies!Syncing(q)' = Copies!Syncing(q) /\ Copies!Cur(q)' = Copies!Cur(q)
         /\ step'[q] = step[q]
         /\ \A s \in Copies!SyncStep : Copies!Runs(q, s)' = Copies!Runs(q, s)
         /\ Cloning(q)' = Cloning(q)
         /\ \A p \in Project : Copies!Midway(q, p)' = Copies!Midway(q, p)
         /\ \A i \in 1..Len(copies[q]) : Told(q, i)' = Told(q, i)
<1>1. /\ copies' = copies /\ pc'[q] = pc[q] /\ at'[q] = at[q] /\ step'[q] = step[q]
  BY SyncIsLocal, SyncMoves
<1>2. QED
  BY <1>1 DEF Copies!Syncing, Copies!Cur, Copies!Runs, Cloning, Copies!Midway, Told

(* What the record's own command does to the checkout it is at: nothing,   *)
(* a stage of a clone, its end, or an update of the head or the branch.    *)
Commands(r, d) ==
  LET p == Copies!Cur(r)
  IN \/ d = disk[p]
     \/ /\ Copies!Clone(r) /\ d = [Copies!Absent EXCEPT !.tree = "cloning"]
     \/ /\ Copies!CloneFetched(r)
        /\ d = [tree |-> "half", head |-> upstream[p], ref |-> upstream[p], dirty |-> FALSE]
     \/ /\ Copies!Cloned(r) /\ d = [disk[p] EXCEPT !.tree = "whole"]
     \/ /\ Copies!CloneFails(r) /\ d = Copies!Absent
     \/ /\ Copies!Fetch(r) /\ d = [disk[p] EXCEPT !.ref = upstream[p]]
     \/ /\ Copies!FastForward(r) /\ d = [disk[p] EXCEPT !.head = disk[p].ref]
     \/ /\ Copies!ResetHard(r)
        /\ d = [tree |-> "whole", head |-> disk[p].ref, ref |-> disk[p].ref, dirty |-> FALSE]

(* A checkout changes by a git command only.                               *)
LEMMA CheckoutStep ==
  ASSUME CopiesShape, NEW r \in Record, SyncStep(r), Copies!Syncing(r)
  PROVE  Commands(r, disk'[Copies!Cur(r)])
<1>1. Copies!Cur(r) \in Project BY SyncingHere
<1> USE <1>1 DEF Commands, CopiesShape
<1>2. CASE Copies!Clone(r) BY <1>2 DEF Copies!Clone
<1>3. CASE Copies!CloneFetched(r) BY <1>3 DEF Copies!CloneFetched
<1>4. CASE Copies!Cloned(r) BY <1>4 DEF Copies!Cloned
<1>5. CASE Copies!CloneFails(r) BY <1>5 DEF Copies!CloneFails
<1>6. CASE Copies!Fetch(r) BY <1>6 DEF Copies!Fetch
<1>7. CASE Copies!FastForward(r) BY <1>7 DEF Copies!FastForward
<1>8. CASE Copies!ResetHard(r) BY <1>8 DEF Copies!ResetHard
<1>9. CASE UNCHANGED disk BY <1>9
<1>10. QED
  BY <1>2, <1>3, <1>4, <1>5, <1>6, <1>7, <1>8, <1>9
  DEF SyncStep, Copies!Dedup, Copies!Look, Copies!CloneRefused, Copies!CloneHead, Copies!From,
      Copies!NoHead, Copies!LocalHead, Copies!RemoteHead, Copies!MergeRefused, Copies!NewHead,
      Copies!Synced, Copies!GitFails, Copies!Throw

(* Where the record goes on: a clone is begun, its objects are there, or   *)
(* it is at another command, at the next project, or out of its sync.      *)
LEMMA OwnStep ==
  ASSUME CopiesShape, NEW r \in Record, SyncStep(r), Copies!Syncing(r)
  PROVE  /\ pc[r] = "sync" /\ pc'[r] \in {"sync", "failed"}
         /\ Cloning(r)' =>
              /\ \/ Copies!Clone(r) /\ step'[r] = "cloning"
                 \/ Copies!CloneFetched(r) /\ step'[r] = "checkout"
              /\ Copies!Cur(r)' = Copies!Cur(r)
<1> USE DEF Cloning, Copies!Syncing, Copies!Runs, Copies!Cur, CopiesShape
<1>0. copies' = copies BY SyncMoves
<1>1. CASE Copies!Clone(r) BY <1>0, <1>1 DEF Copies!Clone, Copies!Goto
<1>2. CASE Copies!CloneFetched(r)
  BY <1>0, <1>2 DEF Copies!CloneFetched, Copies!Goto
<1>3. CASE Copies!CloneRefused(r) \/ Copies!NoHead(r) \/ Copies!MergeRefused(r)
           \/ Copies!GitFails(r) \/ Copies!CloneFails(r)
  BY <1>3 DEF Copies!CloneRefused, Copies!NoHead, Copies!MergeRefused, Copies!GitFails,
              Copies!CloneFails, Copies!Throw
<1>4. CASE Copies!Dedup(r) \/ Copies!CloneHead(r) \/ Copies!NewHead(r)
  BY <1>4 DEF Copies!Dedup, Copies!CloneHead, Copies!NewHead, Copies!Finish, Copies!Report
<1>5. CASE Copies!Look(r) \/ Copies!Cloned(r) \/ Copies!From(r) \/ Copies!Fetch(r)
           \/ Copies!LocalHead(r)
  BY <1>5 DEF Copies!Look, Copies!Cloned, Copies!From, Copies!Fetch, Copies!LocalHead,
              Copies!Goto
<1>6. CASE Copies!RemoteHead(r)
  BY <1>6 DEF Copies!RemoteHead, Copies!Goto, Copies!Finish, Copies!Report
<1>7. CASE Copies!FastForward(r) \/ Copies!ResetHard(r)
  BY <1>7 DEF Copies!FastForward, Copies!ResetHard, Copies!Goto
<1>8. QED
  BY <1>1, <1>2, <1>3, <1>4, <1>5, <1>6, <1>7 DEF SyncStep, Copies!Synced

(* The update of a checkout that a record not cloning makes leaves it one. *)
LEMMA UpdateKeepsTree ==
  ASSUME CopiesShape, NEW r \in Record, SyncStep(r), Copies!Syncing(r), ~Cloning(r),
         disk[Copies!Cur(r)].tree # "absent"
  PROVE  \/ disk'[Copies!Cur(r)] = disk[Copies!Cur(r)]
         \/ /\ Copies!HasHead(Copies!Cur(r))
            /\ disk'[Copies!Cur(r)].tree \in {disk[Copies!Cur(r)].tree, "whole"}
<1> DEFINE p == Copies!Cur(r)
<1>1. disk[p] \in Checkouts BY SyncingHere DEF CopiesShape
<1>2. ~Copies!Clone(r) /\ ~Copies!CloneFetched(r) /\ ~Copies!Cloned(r) /\ ~Copies!CloneFails(r)
  BY DEF Cloning, Copies!Clone, Copies!CloneFetched, Copies!Cloned, Copies!CloneFails, Copies!Runs
<1>3. Copies!Fetch(r) \/ Copies!FastForward(r) \/ Copies!ResetHard(r) => Copies!HasHead(p)
  BY DEF Copies!Fetch, Copies!FastForward, Copies!ResetHard
<1>4. Commands(r, disk'[p]) BY CheckoutStep
<1>5. QED BY <1>1, <1>2, <1>3, <1>4 DEF Commands, Checkouts

(* The first clone of a project is one record's alone.                     *)
LEMMA SyncKeepsCloneInv ==
  ASSUME CopiesShape, CloneInv, NEW r \in Record, SyncStep(r), Copies!Syncing(r)
  PROVE  CloneInv'
<1> DEFINE p == Copies!Cur(r)
<1>1. p \in Project BY SyncingHere
<1>2. \A q \in Record : Cloning(q) => Copies!Cur(q) \in Project
  BY SyncingHere DEF Cloning
<1>3. \A q \in Record : pc'[q] \in Asking => at'[q] = 1 /\ step'[q] = "look"
  BY OwnStep, SyncIsLocal DEF Asking, CloneInv
<1>4. \A q \in Record : Cloning(q) =>
        /\ step[q] = "cloning" => disk[Copies!Cur(q)].tree = "cloning"
        /\ step[q] = "checkout" => Copies!HasHead(Copies!Cur(q))
  BY DEF CloneInv, Cloning, Copies!Runs
<1>5. ASSUME NEW q \in Record \ {r}, Cloning(q), Copies!Cur(q) = p
      PROVE  /\ ~Cloning(r)'
             /\ step[q] = "cloning" => disk'[p].tree = "cloning"
             /\ step[q] = "checkout" => disk'[p].tree \in {"half", "whole"}
  <2>1. ~Cloning(r) BY <1>5 DEF CloneInv
  <2>2. disk[p].tree # "absent"
    BY <1>4, <1>5 DEF Cloning, Copies!HasHead
  <2>3. ~Copies!Clone(r) /\ ~Copies!CloneFetched(r)
    BY <2>1, <2>2 DEF Cloning, Copies!Clone, Copies!CloneFetched, Copies!Runs
  <2>4. \/ disk'[p] = disk[p]
        \/ Copies!HasHead(p) /\ disk'[p].tree \in {disk[p].tree, "whole"}
    BY <2>1, <2>2, UpdateKeepsTree
  <2>5. ~Cloning(r)' BY <2>3, OwnStep
  <2>6. QED BY <1>4, <1>5, <2>4, <2>5 DEF Copies!HasHead
<1>6. Cloning(r)' =>
        /\ Copies!Cur(r)' = p
        /\ step'[r] = "cloning" => disk'[p].tree = "cloning"
        /\ step'[r] = "checkout" => disk'[p].tree \in {"half", "whole"}
  <2>1. disk \in [Project -> Checkouts] BY DEF CopiesShape
  <2>2. CASE Copies!Clone(r) /\ step'[r] = "cloning"
    BY <1>1, <2>1, <2>2, OwnStep DEF Copies!Clone, Copies!Absent
  <2>3. CASE Copies!CloneFetched(r) /\ step'[r] = "checkout"
    BY <1>1, <2>1, <2>3, OwnStep DEF Copies!CloneFetched
  <2>4. QED BY <2>2, <2>3, OwnStep
<1>7. ASSUME NEW q \in Record, Cloning(q)'
      PROVE  LET c == Copies!Cur(q)'
             IN /\ step'[q] = "cloning" => disk'[c].tree = "cloning"
                /\ step'[q] = "checkout" => disk'[c].tree \in {"half", "whole"}
  <2>1. CASE q = r BY <1>6, <1>7, <2>1
  <2>2. CASE q # r
    <3>1. Cloning(q) /\ Copies!Cur(q)' = Copies!Cur(q) /\ step'[q] = step[q]
      BY <1>7, <2>2, OthersStill
    <3>2. CASE Copies!Cur(q) = p BY <1>5, <2>2, <3>1, <3>2
    <3>3. CASE Copies!Cur(q) # p
      <4>1. disk'[Copies!Cur(q)] = disk[Copies!Cur(q)] BY <1>2, <3>1, <3>3, SyncIsLocal
      <4>2. QED BY <1>4, <3>1, <4>1 DEF Copies!HasHead
    <3>4. QED BY <3>2, <3>3
  <2>3. QED BY <2>1, <2>2
<1>8. \A q \in Record :
        /\ Copies!Runs(q, "cloning")' => disk[Copies!Cur(q)].tree' = "cloning"
        /\ Copies!Runs(q, "checkout")' => Copies!HasHead(Copies!Cur(q))'
  BY <1>7 DEF Cloning, Copies!Runs, Copies!HasHead
<1>9. \A q \in Record \ {r} : Cloning(q)' /\ Cloning(r)' => Copies!Cur(q)' # Copies!Cur(r)'
  BY <1>5, <1>6, OthersStill
<1>10. \A q, t \in Record \ {r} :
         Cloning(q)' /\ Cloning(t)' /\ Copies!Cur(q)' = Copies!Cur(t)' => q = t
  BY OthersStill DEF CloneInv
<1>11. \A q, t \in Record :
         Cloning(q)' /\ Cloning(t)' /\ Copies!Cur(q)' = Copies!Cur(t)' => q = t
  BY <1>9, <1>10
<1>12. QED BY <1>3, <1>8, <1>11 DEF CloneInv

(* A command takes the head of a checkout forward, if anywhere, and not    *)
(* past what was fetched.                                                  *)
LEMMA SyncKeepsHeadInv ==
  ASSUME CopiesShape, CloneInv, HeadInv, NEW r \in Record, SyncStep(r), Copies!Syncing(r)
  PROVE  HeadInv' /\ Copies!HeadNeverGoesBackStep
<1> DEFINE p == Copies!Cur(r)
<1>1. /\ p \in Project /\ disk[p] \in Checkouts /\ upstream[p] \in Commits
      /\ disk'[p] \in Checkouts
  BY SyncingHere, SyncIsLocal DEF CopiesShape
<1>2. upstream' = upstream BY SyncMoves
<1>3. \A q \in Project : upstream'[q].era <= events'
  <2>1. events \in Nat /\ events' \in Nat /\ events <= events'
    BY SyncMoves, MaxEventsNat DEF CopiesShape
  <2>2. \A q \in Project : upstream[q].era \in Nat BY DEF CopiesShape, Commits
  <2>3. QED BY <1>2, <2>1, <2>2 DEF HeadInv
<1>4. \A q \in Project \ {p} : disk'[q] = disk[q] BY SyncIsLocal
<1>5. Copies!HasHead(p) =>
        Copies!Later(disk[p].ref, disk[p].head) /\ Copies!Later(upstream[p], disk[p].ref)
  BY <1>1 DEF HeadInv
<1>6. \A q \in Project : disk[q] \in Checkouts BY DEF CopiesShape
<1>7. \A c \in Commits : Copies!Later(c, c) BY DEF Commits, Copies!Later
<1>8. \A b, c, d \in Commits : Copies!Later(b, c) /\ Copies!Later(c, d) => Copies!Later(b, d)
  BY DEF Commits, Copies!Later
<1>9. /\ disk'[p].tree \in {"half", "whole"} =>
           Copies!Later(disk'[p].ref, disk'[p].head) /\ Copies!Later(upstream[p], disk'[p].ref)
      /\ Copies!HasHead(p) /\ disk'[p].tree \in {"half", "whole"} =>
           Copies!Later(disk'[p].head, disk[p].head)
  <2>1. Copies!Cloned(r) \/ Copies!Fetch(r) \/ Copies!FastForward(r) \/ Copies!ResetHard(r)
          => Copies!HasHead(p)
    BY DEF CloneInv, Copies!Cloned, Copies!Fetch, Copies!FastForward, Copies!ResetHard
  <2> DEFINE b == disk[p].head
             c == disk[p].ref
             u == upstream[p]
  <2>2. b \in Commits /\ c \in Commits /\ u \in Commits BY <1>1 DEF Checkouts
  <2>3. CASE disk'[p] = disk[p] BY <1>5, <1>7, <2>2, <2>3 DEF Copies!HasHead
  <2>4. CASE Copies!Fetch(r) /\ disk'[p] = [disk[p] EXCEPT !.ref = u]
    <3>1. disk'[p].ref = u /\ disk'[p].head = b BY <1>1, <2>4 DEF Checkouts
    <3>2. QED BY <1>5, <1>7, <1>8, <2>1, <2>2, <2>4, <3>1
  <2>5. CASE Copies!FastForward(r) /\ disk'[p] = [disk[p] EXCEPT !.head = c]
    <3>1. disk'[p].ref = c /\ disk'[p].head = c BY <1>1, <2>5 DEF Checkouts
    <3>2. QED BY <1>5, <1>7, <2>1, <2>2, <2>5, <3>1
  <2>6. CASE Copies!Cloned(r) /\ disk'[p] = [disk[p] EXCEPT !.tree = "whole"]
    <3>1. disk'[p].ref = c /\ disk'[p].head = b BY <1>1, <2>6 DEF Checkouts
    <3>2. QED BY <1>5, <1>7, <2>1, <2>2, <2>6, <3>1
  <2>7. CASE /\ Copies!ResetHard(r)
             /\ disk'[p] = [tree |-> "whole", head |-> c, ref |-> c, dirty |-> FALSE]
    <3>1. disk'[p].ref = c /\ disk'[p].head = c BY <2>7
    <3>2. QED BY <1>5, <1>7, <2>1, <2>2, <2>7, <3>1
  <2>8. CASE /\ Copies!CloneFetched(r)
             /\ disk'[p] = [tree |-> "half", head |-> u, ref |-> u, dirty |-> FALSE]
    <3>1. disk'[p].ref = u /\ disk'[p].head = u BY <2>8
    <3>2. Copies!HasHead(p) => Copies!Later(u, b) BY <1>5, <1>8, <2>2
    <3>3. QED BY <1>7, <2>2, <3>1, <3>2
  <2>9. CASE disk'[p].tree \in {"absent", "cloning"}
    BY <2>9
  <2>10. Commands(r, disk'[p]) BY CheckoutStep
  <2>11. QED
    BY <2>3, <2>4, <2>5, <2>6, <2>7, <2>8, <2>9, <2>10 DEF Commands, Copies!Absent
<1>10. \A q \in Project : Copies!HasHead(q)' <=> disk'[q].tree \in {"half", "whole"}
  BY DEF Copies!HasHead
<1>11. \A q \in Project : disk'[q].tree \in {"half", "whole"} =>
         Copies!Later(disk'[q].ref, disk'[q].head) /\ Copies!Later(upstream'[q], disk'[q].ref)
  BY <1>2, <1>4, <1>9 DEF HeadInv, Copies!HasHead
<1>12. HeadInv' BY <1>3, <1>10, <1>11 DEF HeadInv, Copies!Later
<1>13. \A q \in Project : Copies!HasHead(q) /\ disk'[q].tree \in {"half", "whole"} =>
         Copies!Later(disk'[q].head, disk[q].head)
  BY <1>4, <1>6, <1>7, <1>9 DEF Checkouts
<1>14. QED BY <1>10, <1>12, <1>13 DEF Copies!HeadNeverGoesBackStep

(* A commit that was fetched is not the sentinel.                          *)
LEMMA HeadsAreReal ==
  ASSUME CopiesShape, HeadInv, NEW p \in Project, Copies!HasHead(p)
  PROVE  disk[p].head # Copies!None
<1>1. disk[p].head \in Commits /\ disk[p].ref \in Commits /\ upstream[p] \in Commits
  BY DEF CopiesShape, Checkouts
<1>2. events \in 0..MaxEvents BY DEF CopiesShape
<1>3. disk[p].head.era <= upstream[p].era
  BY <1>1 DEF HeadInv, Copies!Later, Commits
<1>4. disk[p].head.era <= MaxEvents
  BY <1>1, <1>2, <1>3, MaxEventsNat DEF HeadInv, Commits
<1>5. Copies!None.era = MaxEvents + 1 BY DEF Copies!None
<1>6. QED BY <1>1, <1>4, <1>5, MaxEventsNat DEF Commits

(* The remote is asked after the local head was read.                      *)
LEMMA RemoteAfterLocal ==
  ASSUME CopiesShape, NEW r \in Record, SyncStep(r), Copies!Syncing(r),
         step'[r] = "remote", pc'[r] = "sync"
  PROVE  Copies!LocalHead(r)
<1> USE DEF Copies!Syncing, Copies!Runs, CopiesShape
<1>1. ~(Copies!CloneRefused(r) \/ Copies!NoHead(r) \/ Copies!MergeRefused(r)
        \/ Copies!GitFails(r) \/ Copies!CloneFails(r))
  BY DEF Copies!CloneRefused, Copies!NoHead, Copies!MergeRefused, Copies!GitFails,
         Copies!CloneFails, Copies!Throw
<1>2. ~(Copies!Dedup(r) \/ Copies!CloneHead(r) \/ Copies!NewHead(r))
  BY DEF Copies!Dedup, Copies!CloneHead, Copies!NewHead, Copies!Finish, Copies!Report
<1>3. ~(Copies!Look(r) \/ Copies!Clone(r) \/ Copies!CloneFetched(r) \/ Copies!Cloned(r)
        \/ Copies!From(r) \/ Copies!Fetch(r))
  BY DEF Copies!Look, Copies!Clone, Copies!CloneFetched, Copies!Cloned, Copies!From,
         Copies!Fetch, Copies!Goto
<1>4. ~Copies!RemoteHead(r)
  BY DEF Copies!RemoteHead, Copies!Goto, Copies!Finish, Copies!Report
<1>5. ~Copies!FastForward(r) /\ ~Copies!ResetHard(r)
  BY DEF Copies!FastForward, Copies!ResetHard, Copies!Goto
<1>6. QED BY <1>1, <1>2, <1>3, <1>4, <1>5 DEF SyncStep, Copies!Synced

(* Who is told of a copy is told of one that is then recorded.             *)
LEMMA SyncTells ==
  ASSUME CopiesShape, HeadInv, ToldInv, NEW r \in Record, SyncStep(r), Copies!Syncing(r)
  PROVE  /\ at'[r] = at[r] \/ (at'[r] = at[r] + 1 /\ synced'[Copies!Cur(r)] # Copies!None)
         /\ \A p \in Project : synced[p] # Copies!None => synced'[p] # Copies!None
<1> DEFINE p == Copies!Cur(r)
<1>1. p \in Project BY SyncingHere
<1>2. CASE UNCHANGED <<synced, given, at>> BY <1>2
<1>3. CASE ~UNCHANGED <<synced, given, at>>
  <2>1. PICK c \in Commits :
          /\ synced' = [synced EXCEPT ![p] = c] /\ at' = [at EXCEPT ![r] = at[r] + 1]
          /\ \/ Copies!Dedup(r) /\ c = synced[p] /\ c # Copies!None
             \/ (Copies!CloneHead(r) \/ Copies!NewHead(r)) /\ c = disk[p].head
             \/ Copies!RemoteHead(r) /\ c = seen[r].local
    BY <1>3, SyncReports
  <2>2. c # Copies!None
    <3>1. Copies!CloneHead(r) \/ Copies!NewHead(r) => disk[p].head # Copies!None
      BY <1>1, HeadsAreReal DEF Copies!CloneHead, Copies!NewHead
    <3>2. Copies!RemoteHead(r) => seen[r].local # Copies!None
      BY DEF Copies!RemoteHead, ToldInv
    <3>3. QED BY <2>1, <3>1, <3>2
  <2>3. synced'[p] = c /\ \A q \in Project \ {p} : synced'[q] = synced[q]
    BY <1>1, <2>1 DEF CopiesShape
  <2>4. at'[r] = at[r] + 1 BY <2>1 DEF CopiesShape
  <2>5. QED BY <2>2, <2>3, <2>4
<1>4. QED BY <1>2, <1>3

(* What a record was told of has been synced.                              *)
LEMMA SyncKeepsToldInv ==
  ASSUME CopiesShape, HeadInv, ToldInv, NEW r \in Record, SyncStep(r), Copies!Syncing(r)
  PROVE  ToldInv'
<1> DEFINE p == Copies!Cur(r)
<1>1. p \in Project /\ at[r] \in 1..Len(copies[r]) BY SyncingHere
<1>2. copies' = copies BY SyncMoves
<1>3. \A q \in Record : \A i \in 1..Len(copies[q]) : copies[q][i] \in Project
  BY DEF CopiesShape
<1>4. ASSUME NEW q \in Record \ {r}
      PROVE  /\ pc'[q] \in Equipping => at'[q] > Len(copies[q])
             /\ Copies!Runs(q, "remote")' => seen'[q].local # Copies!None
             /\ \A i \in 1..Len(copies[q]) : Told(q, i)' => synced'[copies[q][i]] # Copies!None
  <2>1. pc'[q] = pc[q] /\ at'[q] = at[q] /\ seen'[q] = seen[q] BY SyncIsLocal
  <2>2. /\ Copies!Runs(q, "remote")' = Copies!Runs(q, "remote")
        /\ \A i \in 1..Len(copies[q]) : Told(q, i)' = Told(q, i)
    BY OthersStill DEF Copies!SyncStep
  <2>3. QED BY <1>3, <2>1, <2>2, SyncTells DEF ToldInv
<1>5. pc'[r] \notin Equipping /\ pc[r] = "sync" BY OwnStep DEF Equipping
<1>6. ASSUME Copies!Runs(r, "remote")' PROVE seen'[r].local # Copies!None
  <2>1. Copies!LocalHead(r)
    BY <1>6, RemoteAfterLocal DEF Copies!Runs, Copies!Syncing
  <2>2. seen'[r].local = disk[p].head /\ Copies!HasHead(p)
    BY <2>1 DEF Copies!LocalHead, CopiesShape
  <2>3. QED BY <1>1, <2>2, HeadsAreReal
<1>7. ASSUME NEW i \in 1..Len(copies[r]), Told(r, i)'
      PROVE  synced'[copies[r][i]] # Copies!None
  <2>1. i < at'[r] BY <1>7 DEF Told
  <2>2. CASE i < at[r]
    <3>1. Told(r, i) BY <1>5, <2>2 DEF Told
    <3>2. QED BY <1>3, <3>1, SyncTells DEF ToldInv
  <2>3. CASE ~(i < at[r])
    <3>1. at'[r] = at[r] + 1 /\ synced'[p] # Copies!None BY <2>1, <2>3, SyncTells
    <3>2. i = at[r] BY <1>1, <2>1, <2>3, <3>1
    <3>3. QED BY <3>1, <3>2 DEF Copies!Cur
  <2>4. QED BY <2>2, <2>3
<1>8. \A q \in Record :
        /\ pc'[q] \in Equipping => at'[q] > Len(copies[q])
        /\ Copies!Runs(q, "remote")' => seen'[q].local # Copies!None
        /\ \A i \in 1..Len(copies[q]) : Told(q, i)' => synced'[copies[q][i]] # Copies!None
  BY <1>4, <1>5, <1>6, <1>7
<1>9. QED BY <1>2, <1>8 DEF ToldInv

(* The only record at a command in a copy that nothing has disturbed.      *)
LEMMA MidwayCalm ==
  ASSUME CopiesShape, ToldInv, PinInv, NEW r \in Record, NEW p \in Project,
         Copies!Midway(r, p), ~disturbed[p]
  PROVE  /\ synced[p] = Copies!None
         /\ \A q \in Record \ {r} : ~Copies!Midway(q, p)
         /\ ~disk[p].dirty
         /\ disk[p].tree = "cloning" => step[r] = "cloning"
         /\ disk[p].tree = "half" => step[r] = "checkout"
         /\ step[r] = "remote" => seen[r].local = disk[p].head
BY DEF PinInv, Calm

(* What a command leaves behind, when its record is alone in the copy and  *)
(* no one has been told of it yet.                                         *)
LEMMA CalmAgain ==
  ASSUME CopiesShape, ToldInv, NEW r \in Record, SyncStep(r), Copies!Syncing(r),
         NEW p \in Project, p = Copies!Cur(r), synced[p] = Copies!None,
         \A q \in Record \ {r} : ~Copies!Midway(q, p),
         ~disk'[p].dirty,
         disk'[p].tree = "cloning" => Copies!Midway(r, p)' /\ step'[r] = "cloning",
         disk'[p].tree = "half" => Copies!Midway(r, p)' /\ step'[r] = "checkout",
         Copies!Midway(r, p)' /\ step'[r] = "remote" => seen'[r].local = disk'[p].head,
         \/ synced'[p] = Copies!None /\ at'[r] = at[r]
         \/ /\ disk'[p].tree = "whole" /\ synced'[p] = disk'[p].head
            /\ given'[r][p] = synced'[p] /\ step'[r] = "look"
  PROVE  Calm(p)'
<1>1. \A q \in Record : \A i \in 1..Len(copies[q]) : Told(q, i) => copies[q][i] # p
  BY DEF ToldInv
<1>2. copies' = copies BY SyncMoves
<1>3. \A q \in Record \ {r} :
        ~Copies!Midway(q, p)' /\ \A i \in 1..Len(copies[q]) : Told(q, i)' => copies[q][i] # p
  BY <1>1, OthersStill
<1>4. synced'[p] # Copies!None => ~Copies!Midway(r, p)'
  BY DEF Copies!Midway
<1>5. ASSUME NEW i \in 1..Len(copies[r]), Told(r, i)', copies[r][i] = p
      PROVE  given'[r][p] = synced'[p]
  <2>1. pc[r] = "sync" /\ pc'[r] \in {"sync", "failed"} BY OwnStep
  <2>2. at'[r] = at[r] => Told(r, i) BY <1>5, <2>1 DEF Told
  <2>3. QED BY <1>1, <1>5, <2>2
<1>6. QED BY <1>2, <1>3, <1>4, <1>5 DEF Calm

(* A record that is told at once, or gives up, changes nothing for others. *)
LEMMA QuitKeepsCalm ==
  ASSUME CopiesShape, ToldInv, NEW r \in Record, SyncStep(r), Copies!Syncing(r),
         NEW p \in Project, p = Copies!Cur(r), Calm(p), UNCHANGED <<disk, synced>>,
         ~Cloning(r), ~Copies!Midway(r, p)',
         \A i \in 1..Len(copies[r]) :
           Told(r, i)' /\ copies[r][i] = p => given'[r][p] = synced[p]
  PROVE  Calm(p)'
<1>1. copies' = copies BY SyncMoves
<1>2. \A q \in Record \ {r} :
        /\ Copies!Midway(q, p)' = Copies!Midway(q, p) /\ step'[q] = step[q]
        /\ seen'[q] = seen[q] /\ given'[q] = given[q]
        /\ \A i \in 1..Len(copies[q]) : Told(q, i)' = Told(q, i)
  BY OthersStill, SyncIsLocal
<1>3. \A q \in Record : Copies!Midway(q, p)' => q # r /\ Copies!Midway(q, p)
  BY <1>2
<1>4. \A q \in Record :
        Copies!Midway(q, p) /\ step[q] \in {"cloning", "checkout"} =>
          Copies!Midway(q, p)' /\ step'[q] = step[q]
  BY <1>2 DEF Cloning, Copies!Midway
<1>5. QED BY <1>1, <1>2, <1>3, <1>4 DEF Calm

(* A record that goes on within a project is midway through it.            *)
LEMMA GotoMidway ==
  ASSUME CopiesShape, NEW r \in Record, SyncStep(r), Copies!Syncing(r),
         NEW p \in Project, p = Copies!Cur(r), NEW s \in Copies!SyncStep, Copies!Goto(r, s)
  PROVE  /\ step'[r] = s /\ at'[r] = at[r]
         /\ s \notin {"look", "clone"} => Copies!Midway(r, p)'
<1>1. copies' = copies /\ pc' = pc /\ at' = at /\ step'[r] = s
  BY SyncMoves DEF Copies!Goto, CopiesShape
<1>2. QED BY <1>1 DEF Copies!Midway, Copies!Syncing, Copies!Cur

(* A sync keeps the promise about the copy it is at, unless it says that   *)
(* it has disturbed it.                                                    *)
LEMMA SyncKeepsCalm ==
  ASSUME CopiesShape, HeadInv, ToldInv, PinInv, NEW r \in Record, SyncStep(r),
         Copies!Syncing(r), NEW p \in Project, p = Copies!Cur(r), ~disturbed'[p]
  PROVE  Calm(p)'
<1>1. disk[p] \in Checkouts /\ copies' = copies /\ upstream[p] \in Commits
  BY SyncMoves DEF CopiesShape
<1>2. /\ disk \in [Project -> Checkouts] /\ seen \in [Record -> [local : Commits, remote : Commits]]
      /\ synced \in [Project -> Commits] /\ given \in [Record -> [Project -> Commits]]
      /\ step \in [Record -> Copies!SyncStep] /\ disturbed \in [Project -> BOOLEAN]
      /\ pc \in [Record -> Progress] /\ at \in [Record -> Nat \ {0}]
  BY DEF CopiesShape
<1>8. ~Copies!Synced(r) BY DEF Copies!Synced, Copies!Syncing, CopiesShape
<1>3. CASE Copies!CloneRefused(r) \/ Copies!NoHead(r) \/ Copies!MergeRefused(r)
           \/ Copies!GitFails(r)
  <2>1. pc'[r] = "failed" /\ UNCHANGED <<disk, synced, disturbed>> /\ ~Cloning(r)
    BY <1>2, <1>3 DEF Copies!CloneRefused, Copies!NoHead, Copies!MergeRefused, Copies!GitFails,
                      Copies!Throw, Copies!Runs, Cloning
  <2>2. Calm(p) BY <2>1 DEF PinInv
  <2>3. ~Copies!Midway(r, p)' /\ \A i \in 1..Len(copies[r]) : ~Told(r, i)'
    BY <2>1 DEF Copies!Midway, Copies!Syncing, Told, Equipping
  <2>4. QED BY <2>1, <2>2, <2>3, QuitKeepsCalm
<1>4. CASE Copies!Dedup(r)
  <2>1. /\ UNCHANGED <<disk, synced, disturbed>> /\ ~Cloning(r) /\ step'[r] = "look"
        /\ given'[r][p] = synced[p]
    BY <1>2, <1>4 DEF Copies!Dedup, Copies!Report, Copies!Runs, Cloning
  <2>2. Calm(p) BY <2>1 DEF PinInv
  <2>3. ~Copies!Midway(r, p)' BY <2>1 DEF Copies!Midway
  <2>4. QED BY <2>1, <2>2, <2>3, QuitKeepsCalm
<1>5. CASE Copies!Look(r)
  <2>1. /\ synced[p] = Copies!None /\ UNCHANGED <<disk, synced>>
        /\ \A q \in Record \ {r} : ~Copies!Midway(q, p)
        /\ ~disturbed[p]
    BY <1>2, <1>5 DEF Copies!Look
  <2>2. Calm(p) BY <2>1 DEF PinInv
  <2>3. ~Copies!Midway(r, p) BY <1>5 DEF Copies!Look, Copies!Runs, Copies!Midway
  <2>4. disk[p].tree \notin {"cloning", "half"} /\ ~disk[p].dirty
    BY <2>1, <2>2, <2>3 DEF Calm
  <2>5. step'[r] # "remote" /\ at'[r] = at[r]
    BY <1>2, <1>5 DEF Copies!Look, Copies!Goto
  <2>6. QED BY <2>1, <2>4, <2>5, CalmAgain
<1>6. CASE Copies!Clone(r)
  <2>1. /\ synced[p] = Copies!None /\ UNCHANGED synced
        /\ \A q \in Record \ {r} : ~Copies!Midway(q, p)
        /\ disk'[p].tree = "cloning" /\ ~disk'[p].dirty
    BY <1>2, <1>6 DEF Copies!Clone, Copies!Absent
  <2>2. step'[r] = "cloning" /\ at'[r] = at[r] /\ Copies!Midway(r, p)'
    BY <1>6, GotoMidway DEF Copies!Clone, Copies!SyncStep
  <2>3. QED BY <2>1, <2>2, CalmAgain
<1>7. CASE ~(Copies!CloneRefused(r) \/ Copies!NoHead(r) \/ Copies!MergeRefused(r)
             \/ Copies!GitFails(r) \/ Copies!Dedup(r) \/ Copies!Look(r) \/ Copies!Clone(r))
  <2>1. UNCHANGED disturbed /\ Copies!Midway(r, p)
    <3>1. CASE Copies!CloneFetched(r) \/ Copies!Cloned(r) \/ Copies!CloneHead(r) \/ Copies!From(r)
               \/ Copies!Fetch(r) \/ Copies!LocalHead(r)
      BY <3>1 DEF Copies!CloneFetched, Copies!Cloned, Copies!CloneHead, Copies!From, Copies!Fetch,
                  Copies!LocalHead, Copies!Runs, Copies!Midway
    <3>2. CASE Copies!RemoteHead(r) \/ Copies!FastForward(r) \/ Copies!ResetHard(r)
               \/ Copies!NewHead(r) \/ Copies!CloneFails(r)
      BY <3>2 DEF Copies!RemoteHead, Copies!FastForward, Copies!ResetHard, Copies!NewHead,
                  Copies!CloneFails, Copies!Runs, Copies!Midway
    <3>3. QED BY <1>7, <1>8, <3>1, <3>2 DEF SyncStep
  <2>2. /\ synced[p] = Copies!None /\ \A q \in Record \ {r} : ~Copies!Midway(q, p)
        /\ ~disk[p].dirty
        /\ disk[p].tree = "cloning" => step[r] = "cloning"
        /\ disk[p].tree = "half" => step[r] = "checkout"
        /\ step[r] = "remote" => seen[r].local = disk[p].head
    BY <2>1, MidwayCalm
  <2>3. CASE Copies!CloneFails(r)
    <3>1. /\ pc'[r] = "failed" /\ UNCHANGED <<synced, at>>
          /\ disk'[p].tree = "absent" /\ ~disk'[p].dirty
      BY <1>2, <2>3 DEF Copies!CloneFails, Copies!Absent
    <3>2. ~Copies!Midway(r, p)' BY <3>1 DEF Copies!Midway, Copies!Syncing
    <3>3. QED BY <2>2, <3>1, <3>2, CalmAgain
  <2>4. CASE Copies!CloneFetched(r)
    <3>1. UNCHANGED synced /\ disk'[p].tree = "half" /\ ~disk'[p].dirty
      BY <1>2, <2>4 DEF Copies!CloneFetched
    <3>2. step'[r] = "checkout" /\ at'[r] = at[r] /\ Copies!Midway(r, p)'
      BY <2>4, GotoMidway DEF Copies!CloneFetched, Copies!SyncStep
    <3>3. QED BY <2>2, <3>1, <3>2, CalmAgain
  <2>5. CASE Copies!Cloned(r) \/ Copies!ResetHard(r)
    <3>1. UNCHANGED synced /\ disk'[p].tree = "whole" /\ ~disk'[p].dirty
      <4>1. CASE Copies!Cloned(r)
        BY <1>1, <1>2, <2>2, <4>1 DEF Copies!Cloned, Checkouts
      <4>2. CASE Copies!ResetHard(r)
        BY <1>2, <4>2 DEF Copies!ResetHard
      <4>3. QED BY <2>5, <4>1, <4>2
    <3>2. step'[r] \in {"clone-head", "head"} /\ at'[r] = at[r]
      BY <2>5, GotoMidway DEF Copies!Cloned, Copies!ResetHard, Copies!SyncStep
    <3>3. QED BY <2>2, <3>1, <3>2, CalmAgain
  <2>6. CASE Copies!From(r) \/ Copies!Fetch(r) \/ Copies!FastForward(r) \/ Copies!LocalHead(r)
    <3>1. step[r] \notin {"cloning", "checkout"}
      BY <2>6 DEF Copies!From, Copies!Fetch, Copies!FastForward, Copies!LocalHead, Copies!Runs
    <3>2. UNCHANGED synced /\ disk'[p].tree = disk[p].tree /\ disk'[p].dirty = disk[p].dirty
      BY <1>1, <1>2, <2>6
      DEF Copies!From, Copies!Fetch, Copies!FastForward, Copies!LocalHead, Checkouts
    <3>3. step'[r] \in {"fetch", "local", "remote", "head"} /\ at'[r] = at[r]
      BY <2>6, GotoMidway
      DEF Copies!From, Copies!Fetch, Copies!FastForward, Copies!LocalHead, Copies!SyncStep
    <3>4. step'[r] = "remote" => Copies!LocalHead(r)
      BY <1>2, <2>6 DEF Copies!From, Copies!Fetch, Copies!FastForward, Copies!Goto
    <3>5. Copies!LocalHead(r) => seen'[r].local = disk'[p].head
      BY <1>2 DEF Copies!LocalHead
    <3>6. QED BY <2>2, <3>1, <3>2, <3>3, <3>4, <3>5, CalmAgain
  <2>7. CASE Copies!RemoteHead(r) /\ UNCHANGED synced
    <3>1. UNCHANGED disk /\ disk[p].tree \notin {"cloning", "half"}
      BY <2>2, <2>7 DEF Copies!RemoteHead, Copies!Runs
    <3>2. CASE seen[r].local = disk[p].ref
      <4>1. synced'[p] = seen[r].local
        BY <1>2, <2>7, <3>2 DEF Copies!RemoteHead, Copies!Finish
      <4>2. Copies!HasHead(p) /\ step[r] = "remote"
        BY <2>7 DEF Copies!RemoteHead, Copies!Runs
      <4>3. disk[p].head = Copies!None BY <2>2, <2>7, <4>1, <4>2
      <4>4. QED BY <4>2, <4>3, HeadsAreReal
    <3>3. CASE seen[r].local # disk[p].ref
      <4>1. step'[r] \in {"merge", "reset"} /\ at'[r] = at[r]
        BY <1>2, <2>7, <3>3 DEF Copies!RemoteHead, Copies!Goto
      <4>2. QED BY <2>2, <2>7, <3>1, <4>1, CalmAgain
    <3>4. QED BY <3>2, <3>3
  <2>8. CASE Copies!CloneHead(r) \/ Copies!NewHead(r) \/ (Copies!RemoteHead(r) /\ synced' # synced)
    <3>1. disk[p].tree = "whole"
      BY <1>1, <2>2, <2>8 DEF Copies!CloneHead, Copies!NewHead, Copies!RemoteHead, Copies!Runs,
         Copies!HasHead, Checkouts
    <3>2. Copies!Finish(r, disk[p].head) /\ UNCHANGED disk
      BY <2>2, <2>8 DEF Copies!CloneHead, Copies!NewHead, Copies!RemoteHead, Copies!Runs
    <3>3. synced'[p] = disk[p].head /\ given'[r][p] = disk[p].head /\ step'[r] = "look"
      BY <1>2, <3>2 DEF Copies!Finish, Copies!Report
    <3>4. QED BY <2>2, <3>1, <3>2, <3>3, CalmAgain
  <2>9. QED
    BY <1>7, <1>8, <2>3, <2>4, <2>5, <2>6, <2>7, <2>8 DEF SyncStep
<1>9. QED BY <1>3, <1>4, <1>5, <1>6, <1>7

(* Every other calm copy stays calm, and this one unless disturbed.        *)
LEMMA SyncKeepsPinInv ==
  ASSUME CopiesShape, HeadInv, ToldInv, PinInv, NEW r \in Record, SyncStep(r), Copies!Syncing(r)
  PROVE  PinInv'
<1>1. ASSUME NEW p \in Project, p # Copies!Cur(r), ~disturbed'[p] PROVE Calm(p)'
  <2>1. copies' = copies BY SyncMoves
  <2>2. /\ disk'[p] = disk[p] /\ synced'[p] = synced[p] /\ given'[r][p] = given[r][p]
        /\ ~disturbed[p]
    BY <1>1, SyncIsLocal
  <2>3. Calm(p) BY <2>2 DEF PinInv
  <2>4. \A q \in Record \ {r} :
          /\ Copies!Midway(q, p)' = Copies!Midway(q, p) /\ step'[q] = step[q]
          /\ seen'[q] = seen[q] /\ given'[q] = given[q]
          /\ \A i \in 1..Len(copies[q]) : Told(q, i)' = Told(q, i)
    BY OthersStill, SyncIsLocal
  <2>5. at[r] \in 1..Len(copies[r]) /\ ~Copies!Midway(r, p)
    BY <1>1, SyncingHere DEF Copies!Midway
  <2>6. ~Copies!Midway(r, p)' /\ \A i \in 1..Len(copies[r]) :
          Told(r, i)' /\ copies[r][i] = p => Told(r, i)
    <3>1. CASE UNCHANGED at
      <4>1. Copies!Cur(r)' = Copies!Cur(r) BY <2>1, <3>1 DEF Copies!Cur
      <4>2. pc[r] = "sync" /\ pc'[r] \in {"sync", "failed"} BY OwnStep
      <4>3. QED BY <1>1, <3>1, <4>1, <4>2 DEF Copies!Midway, Told
    <3>2. CASE ~UNCHANGED at
      <4>1. /\ step' = [step EXCEPT ![r] = "look"] /\ UNCHANGED pc
            /\ at' = [at EXCEPT ![r] = at[r] + 1]
        BY <3>2, SyncReports
      <4>2. step'[r] = "look" /\ at'[r] = at[r] + 1 BY <4>1 DEF CopiesShape
      <4>3. ~Copies!Midway(r, p)' BY <4>2 DEF Copies!Midway
      <4>4. ASSUME NEW i \in 1..Len(copies[r]), Told(r, i)', copies[r][i] = p
            PROVE  Told(r, i)
        <5>1. i # at[r] BY <1>1, <4>4 DEF Copies!Cur
        <5>2. i < at[r] BY <2>5, <4>2, <4>4, <5>1 DEF Told
        <5>3. QED BY <4>1, <4>4, <5>2 DEF Told
      <4>5. QED BY <4>3, <4>4
    <3>3. QED BY <3>1, <3>2
  <2>7. QED BY <2>1, <2>2, <2>3, <2>4, <2>5, <2>6 DEF Calm
<1>2. ASSUME NEW p \in Project, p = Copies!Cur(r), ~disturbed'[p] PROVE Calm(p)'
  BY <1>2, SyncKeepsCalm
<1>3. QED BY <1>1, <1>2 DEF PinInv

(* The last project reported, the record leaves its sync.                  *)
LEMMA SyncedKeeps ==
  ASSUME CopiesInv, NEW r \in Record, SyncStep(r), Copies!Synced(r)
  PROVE  CopiesInv' /\ Copies!HeadNeverGoesBackStep
<1>1. /\ UNCHANGED <<copies, upstream>>
      /\ UNCHANGED <<at, step, seen, disk, synced, given, disturbed>>
      /\ events \in 0..MaxEvents
      /\ events' \in 0..MaxEvents /\ events <= events'
      /\ pc[r] = "sync" /\ at[r] > Len(copies[r]) /\ pc' = [pc EXCEPT ![r] = "credentials"]
      /\ pc \in [Record -> Progress]
  BY SyncMoves DEF CopiesInv, CopiesShape, Copies!Synced
<1>2. /\ pc'[r] = "credentials" /\ \A q \in Record \ {r} : pc'[q] = pc[q]
      /\ pc' \in [Record -> Progress]
  BY <1>1 DEF Progress
<1>3. CopiesShape' BY <1>1, <1>2 DEF CopiesInv, CopiesShape
<1>4. \A q \in Record : Copies!Cur(q)' = Copies!Cur(q) BY <1>1 DEF Copies!Cur
<1>5. ~Copies!Syncing(r) BY <1>1 DEF Copies!Syncing, CopiesInv, CopiesShape
<1>6. \A q \in Record : Copies!Syncing(q)' = Copies!Syncing(q)
  BY <1>1, <1>2, <1>5 DEF Copies!Syncing
<1>7. \A q \in Record, p \in Project : Copies!Midway(q, p)' = Copies!Midway(q, p)
  BY <1>1, <1>4, <1>6 DEF Copies!Midway
<1>8. \A q \in Record : \A i \in 1..Len(copies[q]) : Told(q, i)' = Told(q, i)
  BY <1>1, <1>2 DEF Told, Equipping
<1>9. CloneInv'
  BY <1>1, <1>2, <1>4, <1>6 DEF CopiesInv, CloneInv, Cloning, Copies!Runs, Copies!HasHead, Asking
<1>10. HeadInv'
  BY <1>1, MaxEventsNat
  DEF CopiesInv, HeadInv, CopiesShape, Commits, Copies!HasHead, Copies!Later
<1>11. ToldInv'
  BY <1>1, <1>2, <1>6, <1>8 DEF CopiesInv, ToldInv, Copies!Runs, Equipping
<1>12. PinInv'
  BY <1>1, <1>7, <1>8 DEF CopiesInv, PinInv, Calm
<1>13. Copies!HeadNeverGoesBackStep
  BY <1>1 DEF CopiesInv, CopiesShape, Checkouts, Commits, Copies!HeadNeverGoesBackStep,
              Copies!Later
<1>14. QED BY <1>3, <1>9, <1>10, <1>11, <1>12, <1>13 DEF CopiesInv

(* A step of a sync keeps all of it.                                       *)
LEMMA SyncKeeps ==
  ASSUME CopiesInv, NEW r \in Record, SyncStep(r)
  PROVE  CopiesInv' /\ Copies!HeadNeverGoesBackStep
<1>1. CASE Copies!Syncing(r)
  <2>1. CopiesShape' BY <1>1, SyncIsLocal DEF CopiesInv
  <2>2. CloneInv' BY <1>1, SyncKeepsCloneInv DEF CopiesInv
  <2>3. HeadInv' /\ Copies!HeadNeverGoesBackStep BY <1>1, SyncKeepsHeadInv DEF CopiesInv
  <2>4. ToldInv' BY <1>1, SyncKeepsToldInv DEF CopiesInv
  <2>5. PinInv' BY <1>1, SyncKeepsPinInv DEF CopiesInv
  <2>6. QED BY <2>1, <2>2, <2>3, <2>4, <2>5 DEF CopiesInv
<1>2. CASE ~Copies!Syncing(r)
  <2>1. Copies!Synced(r)
    BY <1>2 DEF SyncStep, Copies!Dedup, Copies!Look, Copies!CloneRefused, Copies!Clone,
       Copies!CloneFetched, Copies!Cloned, Copies!CloneHead, Copies!From, Copies!NoHead,
       Copies!Fetch, Copies!LocalHead, Copies!RemoteHead, Copies!FastForward,
       Copies!MergeRefused, Copies!ResetHard, Copies!NewHead, Copies!CloneFails, Copies!GitFails,
       Copies!Runs
  <2>2. QED BY <2>1, SyncedKeeps
<1>3. QED BY <1>1, <1>2

---------------------------------------------------------------------------
(* The other steps that touch the copies *)

(* A head that stays where it is has not gone back.                        *)
LEMMA HeadsStay ==
  ASSUME CopiesShape, NEW p \in Project,
         disk'[p].head \in Commits, disk'[p].head.era = disk[p].head.era,
         disk'[p].head.n = disk[p].head.n
  PROVE  Copies!Later(disk'[p].head, disk[p].head)
<1>1. disk[p].head \in Commits BY DEF CopiesShape, Checkouts
<1>2. QED BY <1>1 DEF Copies!Later, Commits

(* A record arrives.                                                       *)
LEMMA ReceiveKeeps ==
  ASSUME CopiesInv, Receive
  PROVE  CopiesInv' /\ UNCHANGED disk
<1> USE DEF CopiesInv
<1>1. /\ UNCHANGED <<copies, upstream, events, seen, disk, synced, given, disturbed>>
      /\ \A r \in Record : pc[r] \in Settled
  BY DEF Receive, deployVars, worldVars, Active
<1>2. PICK batch \in SUBSET {r \in Record : pc[r] = "waiting"} :
        /\ pc' = [r \in Record |->
             IF r \notin batch THEN pc[r]
             ELSE IF Admits(agent, descriptor, message[r]) THEN "key" ELSE "rejected"]
        /\ at' = [r \in Record |-> IF r \in batch THEN 1 ELSE at[r]]
        /\ step' = [r \in Record |-> IF r \in batch THEN "look" ELSE step[r]]
  BY DEF Receive
<1>3. \A r \in Record : pc'[r] \in Settled \cup {"key"}
  BY <1>1, <1>2 DEF Settled
<1>4. \A r \in Record : pc'[r] = "key" => at'[r] = 1 /\ step'[r] = "look"
  BY <1>1, <1>2 DEF Settled
<1>5. CopiesShape'
  <2>1. pc' \in [Record -> Progress] BY <1>2, <1>3 DEF Progress
  <2>2. at' \in [Record -> Nat \ {0}] BY <1>2 DEF CopiesShape
  <2>3. step' \in [Record -> Copies!SyncStep] BY <1>2 DEF CopiesShape, Copies!SyncStep
  <2>4. QED BY <1>1, <2>1, <2>2, <2>3 DEF CopiesShape
<1>6. \A r \in Record : ~Copies!Syncing(r)' /\ ~Copies!Syncing(r)
  BY <1>1, <1>3 DEF Copies!Syncing, Settled
<1>7. \A r \in Record : pc'[r] \notin Equipping \cup {"sync"}
  BY <1>3 DEF Settled, Equipping
<1>8. CloneInv'
  <2>1. \A r \in Record : pc'[r] \in Asking => pc'[r] = "key"
    BY <1>3 DEF Asking, Settled
  <2>2. QED BY <1>4, <1>6, <2>1 DEF CloneInv, Cloning, Copies!Runs
<1>9. HeadInv' BY <1>1 DEF HeadInv, Copies!HasHead, Copies!Later
<1>10. ToldInv' BY <1>6, <1>7 DEF ToldInv, Told, Copies!Runs
<1>11. \A r \in Record, p \in Project : ~Copies!Midway(r, p)' /\ ~Copies!Midway(r, p)
  BY <1>6 DEF Copies!Midway
<1>12. PinInv' BY <1>1, <1>7, <1>11 DEF PinInv, Calm, Told
<1>13. QED BY <1>1, <1>5, <1>8, <1>9, <1>10, <1>12

(* The process is killed and its cache is lost.                            *)
LEMMA KillKeeps ==
  ASSUME CopiesInv, Kill
  PROVE  CopiesInv' /\ Copies!HeadNeverGoesBackStep
<1> USE DEF CopiesInv
<1> DEFINE Cut(p, steps) ==
      \E r \in Record : Copies!Syncing(r) /\ Copies!Cur(r) = p /\ step[r] \in steps
<1>1. /\ UNCHANGED <<copies, upstream>> /\ events \in Nat
      /\ events' \in 0..MaxEvents /\ events <= events'
      /\ pc' = [r \in Record |-> IF r \in Active THEN "waiting" ELSE pc[r]]
  BY MaxEventsNat DEF Kill, deployVars, worldVars, CopiesShape
<1>2. /\ disk' = [p \in Project |-> IF Cut(p, {"merge", "reset"})
                                      THEN [disk[p] EXCEPT !.dirty = TRUE] ELSE disk[p]]
      /\ disturbed' = [p \in Project |->
           disturbed[p] \/ Cut(p, {"cloning", "checkout", "merge", "reset"})]
      /\ synced' = [p \in Project |-> Copies!None]
      /\ at' = [r \in Record |-> 1] /\ step' = [r \in Record |-> "look"]
      /\ seen' = [r \in Record |-> Copies!Unseen]
      /\ given' = [r \in Record |-> [p \in Project |-> Copies!None]]
  BY DEF Kill, Copies!CopiesLost
<1>3. \A r \in Record : pc'[r] \in Settled
  BY <1>1 DEF Active, Settled
<1>4. \A p \in Project :
        /\ disk'[p] \in Checkouts /\ disk'[p].tree = disk[p].tree
        /\ disk'[p].head = disk[p].head /\ disk'[p].ref = disk[p].ref
        /\ ~Cut(p, {"merge", "reset"}) => disk'[p].dirty = disk[p].dirty
  BY <1>2 DEF CopiesShape, Checkouts
<1>5. CopiesShape'
  <2>1. Copies!None \in Commits BY MaxEventsNat DEF Copies!None, Commits
  <2>2. pc' \in [Record -> Progress] BY <1>1, <1>3 DEF Progress
  <2>3. disk' \in [Project -> Checkouts] BY <1>2, <1>4
  <2>4. disturbed' \in [Project -> BOOLEAN] BY <1>2 DEF CopiesShape
  <2>5. /\ synced' \in [Project -> Commits] /\ given' \in [Record -> [Project -> Commits]]
        /\ seen' \in [Record -> [local : Commits, remote : Commits]]
    BY <1>2, <2>1 DEF Copies!Unseen
  <2>6. at' \in [Record -> Nat \ {0}] /\ step' \in [Record -> Copies!SyncStep]
    BY <1>2 DEF Copies!SyncStep
  <2>7. QED BY <1>1, <2>2, <2>3, <2>4, <2>5, <2>6 DEF CopiesShape
<1>6. \A r \in Record : pc'[r] \notin Equipping \cup Asking \cup {"sync"}
  BY <1>3 DEF Settled, Equipping, Asking
<1>7. \A r \in Record : ~Copies!Syncing(r)' BY <1>6 DEF Copies!Syncing
<1>8. CloneInv' BY <1>6, <1>7 DEF CloneInv, Cloning, Copies!Runs
<1>9. HeadInv'
  <2>1. \A p \in Project : upstream[p].era \in Nat BY DEF CopiesShape, Commits
  <2>2. \A p \in Project : upstream'[p].era <= events'
    BY <1>1, <2>1, MaxEventsNat DEF HeadInv
  <2>3. QED BY <1>1, <1>4, <2>2 DEF HeadInv, Copies!HasHead, Copies!Later
<1>10. ToldInv' BY <1>6, <1>7 DEF ToldInv, Told, Copies!Runs
<1>11. ASSUME NEW p \in Project, ~disturbed'[p] PROVE Calm(p)'
  <2>1. ~disturbed[p] /\ ~Cut(p, {"cloning", "checkout", "merge", "reset"})
    BY <1>2, <1>11
  <2>2. Calm(p) BY <2>1 DEF PinInv
  <2>3. ~disk'[p].dirty /\ disk'[p].tree \notin {"cloning", "half"}
    BY <1>4, <2>1, <2>2 DEF Calm, Copies!Midway
  <2>4. \A r \in Record : ~Copies!Midway(r, p)' BY <1>7 DEF Copies!Midway
  <2>5. synced'[p] = Copies!None BY <1>2
  <2>6. QED BY <1>6, <2>3, <2>4, <2>5 DEF Calm, Told
<1>12. Copies!HeadNeverGoesBackStep
  BY <1>4, HeadsStay DEF Copies!HeadNeverGoesBackStep, Checkouts
<1>13. QED BY <1>5, <1>8, <1>9, <1>10, <1>11, <1>12 DEF PinInv

(* Credentials and skill runs leave the copies alone, but for edits.       *)
LEMMA WorkKeeps ==
  ASSUME CopiesInv, NEW r \in Record, Work(r)
  PROVE  CopiesInv' /\ Copies!HeadNeverGoesBackStep
<1> USE DEF CopiesInv
<1>1. UNCHANGED <<copies, upstream, events, pc, at, step, seen, synced, given>>
  BY DEF Work, deployVars, worldVars
<1>2. PICK p \in Project : Copies!Edit(p)
  BY DEF Work, CopiesShape
<1>3. disk[p] \in Checkouts BY DEF CopiesShape
<1>4. /\ \/ disk' = [disk EXCEPT ![p] = [disk[p] EXCEPT !.dirty = TRUE]]
         \/ disk' = [disk EXCEPT ![p] = [disk[p] EXCEPT !.head = [disk[p].head EXCEPT !.own = TRUE]]]
      /\ disturbed' = [disturbed EXCEPT ![p] = TRUE]
  BY <1>2 DEF Copies!Edit
<1>5. [disk[p] EXCEPT !.dirty = TRUE] \in Checkouts
  BY <1>3 DEF Checkouts
<1>6. [disk[p] EXCEPT !.head = [disk[p].head EXCEPT !.own = TRUE]] \in Checkouts
  BY <1>3 DEF Checkouts, Commits
<1>7. /\ disk' \in [Project -> Checkouts]
      /\ disk'[p].tree = disk[p].tree /\ disk'[p].ref = disk[p].ref
      /\ disk'[p].head.era = disk[p].head.era /\ disk'[p].head.n = disk[p].head.n
      /\ \A q \in Project \ {p} : disk'[q] = disk[q]
  <2>1. CASE disk' = [disk EXCEPT ![p] = [disk[p] EXCEPT !.dirty = TRUE]]
    BY <1>3, <1>5, <2>1 DEF CopiesShape, Checkouts
  <2>2. CASE disk' = [disk EXCEPT ![p] =
                        [disk[p] EXCEPT !.head = [disk[p].head EXCEPT !.own = TRUE]]]
    BY <1>3, <1>6, <2>2 DEF CopiesShape, Checkouts, Commits
  <2>3. QED BY <1>4, <2>1, <2>2
<1>8. /\ disturbed' \in [Project -> BOOLEAN] /\ disturbed'[p]
      /\ \A q \in Project \ {p} : disturbed'[q] = disturbed[q]
  BY <1>4 DEF CopiesShape
<1>9. CopiesShape' BY <1>1, <1>7, <1>8 DEF CopiesShape
<1>10. \A q \in Project :
         /\ disk'[q].tree = disk[q].tree /\ disk'[q].ref = disk[q].ref
         /\ disk'[q].head.era = disk[q].head.era /\ disk'[q].head.n = disk[q].head.n
  BY <1>7
<1>11. \A q \in Record :
         /\ Copies!Syncing(q)' = Copies!Syncing(q) /\ Copies!Cur(q)' = Copies!Cur(q)
         /\ Copies!Syncing(q) => Copies!Cur(q) \in Project
  BY <1>1, SyncingHere DEF Copies!Syncing, Copies!Cur
<1>12. CloneInv'
  BY <1>1, <1>10, <1>11 DEF CloneInv, Cloning, Copies!Runs, Copies!HasHead
<1>13. HeadInv' BY <1>1, <1>10 DEF HeadInv, Copies!HasHead, Copies!Later
<1>14. ToldInv' BY <1>1, <1>11 DEF ToldInv, Told, Copies!Runs
<1>15. \A q \in Record, x \in Project : Copies!Midway(q, x)' = Copies!Midway(q, x)
  BY <1>1, <1>11 DEF Copies!Midway
<1>16. ASSUME NEW x \in Project, ~disturbed'[x] PROVE Calm(x)'
  <2>1. x # p /\ ~disturbed[x] /\ disk'[x] = disk[x] BY <1>7, <1>8, <1>16
  <2>2. Calm(x) BY <2>1 DEF PinInv
  <2>3. QED BY <1>1, <1>15, <2>1, <2>2 DEF Calm, Told
<1>17. Copies!HeadNeverGoesBackStep
  <2>1. \A q \in Project : disk'[q].head \in Commits BY <1>7 DEF Checkouts
  <2>2. QED BY <1>10, <2>1, HeadsStay DEF Copies!HeadNeverGoesBackStep
<1>18. QED BY <1>9, <1>12, <1>13, <1>14, <1>16, <1>17 DEF PinInv

(* The upstream moves or is rewritten.                                     *)
LEMMA PushKeeps ==
  ASSUME CopiesInv, World, NEW p \in Project, Copies!Push(p) \/ Copies!Rewrite(p)
  PROVE  CopiesInv' /\ UNCHANGED disk
<1> USE DEF CopiesInv
<1>1. UNCHANGED <<copies, pc, at, step, seen, disk, synced, given, disturbed>>
  BY DEF World, deployVars, copyVars
<1>2. upstream[p] \in Commits /\ upstream \in [Project -> Commits] BY DEF CopiesShape
<1>3. events \in Nat /\ events' = events + 1 /\ events' \in 0..MaxEvents
  BY MaxEventsNat DEF Copies!Push, Copies!Rewrite, CopiesShape
<1>4. /\ upstream' \in [Project -> Commits]
      /\ upstream'[p].era <= upstream[p].era + 1 /\ Copies!Later(upstream'[p], upstream[p])
      /\ \A q \in Project \ {p} : upstream'[q] = upstream[q]
  <2>1. CASE Copies!Push(p)
    <3>1. [upstream[p] EXCEPT !.n = upstream[p].n + 1] \in Commits
      BY <1>2 DEF Commits
    <3>2. upstream' = [upstream EXCEPT ![p] = [upstream[p] EXCEPT !.n = upstream[p].n + 1]]
      BY <2>1 DEF Copies!Push
    <3>3. QED BY <1>2, <3>1, <3>2 DEF Commits, Copies!Later
  <2>2. CASE Copies!Rewrite(p)
    <3>1. [upstream[p] EXCEPT !.era = upstream[p].era + 1] \in Commits
      BY <1>2 DEF Commits
    <3>2. upstream' = [upstream EXCEPT ![p] = [upstream[p] EXCEPT !.era = upstream[p].era + 1]]
      BY <2>2 DEF Copies!Rewrite
    <3>3. QED BY <1>2, <3>1, <3>2 DEF Commits, Copies!Later
  <2>3. QED BY <2>1, <2>2
<1>5. CopiesShape' BY <1>1, <1>3, <1>4 DEF CopiesShape
<1>6. \A r \in Record : Copies!Syncing(r)' = Copies!Syncing(r) /\ Copies!Cur(r)' = Copies!Cur(r)
  BY <1>1 DEF Copies!Syncing, Copies!Cur
<1>7. CloneInv' BY <1>1, <1>6 DEF CloneInv, Cloning, Copies!Runs, Copies!HasHead
<1>8. ToldInv' BY <1>1, <1>6 DEF ToldInv, Told, Copies!Runs
<1>9. \A r \in Record, x \in Project : Copies!Midway(r, x)' = Copies!Midway(r, x)
  BY <1>1, <1>6 DEF Copies!Midway
<1>10. PinInv' BY <1>1, <1>9 DEF PinInv, Calm, Told
<1>11. HeadInv'
  <2>1. \A q \in Project : upstream'[q].era <= events'
    BY <1>2, <1>3, <1>4 DEF HeadInv, Commits
  <2>2. \A a, b, c \in Commits : Copies!Later(a, b) /\ Copies!Later(b, c) => Copies!Later(a, c)
    BY DEF Commits, Copies!Later
  <2>3. \A q \in Project : disk[q].ref \in Commits /\ disk[q].head \in Commits
    BY DEF CopiesShape, Checkouts
  <2>4. \A q \in Project : Copies!HasHead(q) => Copies!Later(upstream'[q], disk[q].ref)
    BY <1>2, <1>4, <2>2, <2>3 DEF HeadInv
  <2>5. QED BY <1>1, <2>1, <2>4 DEF HeadInv, Copies!HasHead, Copies!Later
<1>12. QED BY <1>1, <1>5, <1>7, <1>8, <1>10, <1>11

(* Every step of the container.                                            *)
LEMMA CopiesStep ==
  ASSUME CopiesInv, MintInv, [Next]_vars
  PROVE  CopiesInv' /\ Copies!HeadNeverGoesBackStep
<1>1. ASSUME CopiesRest \/ (CopiesInv' /\ UNCHANGED disk)
      PROVE  CopiesInv' /\ Copies!HeadNeverGoesBackStep
  <2>1. CopiesInv' /\ UNCHANGED disk BY <1>1, RestKeeps DEF CopiesRest, copyVars
  <2>2. \A p \in Project : disk[p].head \in Commits
    BY DEF CopiesInv, CopiesShape, Checkouts
  <2>3. QED
    BY <2>1, <2>2, HeadsStay DEF Copies!HeadNeverGoesBackStep, CopiesInv
<1>2. CASE Receive BY <1>1, <1>2, ReceiveKeeps
<1>3. CASE Kill BY <1>3, KillKeeps
<1>4. ASSUME NEW r \in Record, SyncStep(r)
      PROVE  CopiesInv' /\ Copies!HeadNeverGoesBackStep
  BY <1>4, SyncKeeps
<1>5. ASSUME NEW r \in Record, Work(r)
      PROVE  CopiesInv' /\ Copies!HeadNeverGoesBackStep
  BY <1>5, WorkKeeps
<1>6. CASE World /\ \E p \in Project : Copies!Push(p) \/ Copies!Rewrite(p)
  BY <1>1, <1>6, PushKeeps
<1>7. CASE \/ Boot \/ BootWithoutCatalog \/ Refresh \/ Tick \/ UNCHANGED vars
           \/ \E p \in Param : KeyAnswer(p)
           \/ \E r \in Record :
                KeyStep(r) \/ CredentialsStep(r) \/ SkillStep(r) \/ Redeliver(r)
           \/ World /\ UNCHANGED upstream
  <2>1. CopiesRest BY <1>7, RestStep DEF CopiesInv, CopiesShape
  <2>2. QED BY <1>1, <2>1
<1>8. World => UNCHANGED upstream \/ \E p \in Project : Copies!Push(p) \/ Copies!Rewrite(p)
  BY DEF World
<1>9. QED BY <1>2, <1>3, <1>4, <1>5, <1>6, <1>7, <1>8 DEF Next

---------------------------------------------------------------------------
(* Tokens, and where the other steps leave a record *)

(* Only the resolution of r's own credentials takes r out of resolving, or *)
(* a kill; only its key can leave it unavailable.                          *)
LEMMA ElsewhereStep ==
  ASSUME CopiesShape, [Next]_vars,
         ~(\E r \in Record : CredentialsStep(r)), ~Kill,
         NEW q \in Record
  PROVE  /\ UNCHANGED <<minting, todo>>
         /\ pc[q] = "resolving" => pc'[q] = "resolving"
         /\ \/ \E r \in Record : KeyStep(r)
            \/ \E p \in Param : KeyAnswer(p)
            \/ pc'[q] = "unavailable" => pc[q] = "unavailable"
<1> USE DEF CopiesShape
<1>1. CASE UNCHANGED vars BY <1>1 DEF vars, credVars
<1>2. CASE Boot \/ BootWithoutCatalog \/ Refresh \/ Tick \/ World
  BY <1>2 DEF Boot, BootWithoutCatalog, Refresh, Tick, World, credVars
<1>3. CASE Receive
  BY <1>3 DEF Receive, credVars
<1>4. ASSUME NEW r \in Record, KeyStep(r)
      PROVE  UNCHANGED <<minting, todo>> /\ (pc[q] = "resolving" => pc'[q] = "resolving")
  BY <1>4 DEF KeyStep, Keys!NeedsNoFetch, Keys!UseCached, Keys!Join, Keys!Fetch, credVars
<1>5. ASSUME NEW p \in Param, KeyAnswer(p)
      PROVE  UNCHANGED <<minting, todo>> /\ (pc[q] = "resolving" => pc'[q] = "resolving")
  BY <1>5 DEF KeyAnswer, Keys!Served, Keys!Fetched, Keys!FetchFails, Keys!Waiting, credVars
<1>6. ASSUME NEW r \in Record, SyncStep(r)
      PROVE  /\ UNCHANGED <<minting, todo>> /\ (pc[q] = "resolving" => pc'[q] = "resolving")
             /\ (pc'[q] = "unavailable" => pc[q] = "unavailable")
  <2>1. /\ pc[r] = "sync"
        /\ pc' = pc \/ \E to \in {"failed", "credentials"} : pc' = [pc EXCEPT ![r] = to]
    BY <1>6, SyncMoves
  <2>2. UNCHANGED <<minting, todo>> BY <1>6 DEF SyncStep, credVars
  <2>3. QED BY <2>1, <2>2
<1>7. ASSUME NEW r \in Record, SkillStep(r)
      PROVE  /\ UNCHANGED <<minting, todo>> /\ (pc[q] = "resolving" => pc'[q] = "resolving")
             /\ (pc'[q] = "unavailable" => pc[q] = "unavailable")
  <2>1. UNCHANGED <<minting, todo>> BY <1>7 DEF SkillStep, credVars
  <2>2. QED BY <1>7, <2>1, SkillMoves
<1>8. ASSUME NEW r \in Record, Work(r) \/ Redeliver(r)
      PROVE  /\ UNCHANGED <<minting, todo>> /\ (pc[q] = "resolving" => pc'[q] = "resolving")
             /\ (pc'[q] = "unavailable" => pc[q] = "unavailable")
  BY <1>8 DEF Work, Redeliver, credVars, Settled
<1>9. QED BY <1>1, <1>2, <1>3, <1>4, <1>5, <1>6, <1>7, <1>8 DEF Next

(* Every step keeps what is known of tokens being minted.                  *)
LEMMA MintStep ==
  ASSUME CopiesShape, MintInv, [Next]_vars
  PROVE  MintInv'
<1>1. ASSUME NEW r \in Record, CredentialsStep(r) PROVE MintInv'
  BY <1>1, CredentialsMoves DEF CopiesShape
<1>2. CASE Kill BY <1>2 DEF Kill, MintInv
<1>3. CASE ~(\E r \in Record : CredentialsStep(r)) /\ ~Kill
  <2>1. \A q \in Record :
          UNCHANGED <<minting, todo>> /\ (pc[q] = "resolving" => pc'[q] = "resolving")
    BY <1>3, ElsewhereStep
  <2>2. CASE Record = {}
    BY <1>3, <2>2
    DEF Next, vars, MintInv, Boot, BootWithoutCatalog, Refresh, Receive, Tick, World, KeyAnswer, credVars
  <2>3. CASE Record # {} BY <2>1, <2>3 DEF MintInv
  <2>4. QED BY <2>2, <2>3
<1>4. QED BY <1>1, <1>2, <1>3

---------------------------------------------------------------------------
(* Signing keys *)

(* Steps that leave the cache and the parameters alone.                    *)
LEMMA KeysRest ==
  ASSUME KeysInv, UNCHANGED <<param, keys, fetching, answer, version, rotated>>,
         now' = now \/ now' = now + 1,
         key' \in [Record -> Nat], \A r \in Record : key'[r] \in {key[r], Keys!NoKey},
         \A r \in Record : pc'[r] = "unavailable" => pc[r] = "unavailable"
  PROVE  KeysInv' /\ Keys!KeysAreCurrentStep
<1>1. now' \in Nat BY DEF KeysInv, KeysShape
<1>2. KeysShape' BY <1>1 DEF KeysInv, KeysShape
<1>3. KeyTtl \in Nat BY ContainerAssumption
<1>4. \A p \in Param : /\ keys[p].exp <= now + KeyTtl => keys[p].exp <= now' + KeyTtl
                        /\ answer[p].read <= now'
  BY <1>1, <1>3 DEF KeysInv, KeysShape, CachedKey
<1>5. \A p \in Param :
        /\ keys'[p] = keys[p] /\ answer'[p] = answer[p] /\ version'[p] = version[p]
        /\ rotated'[p] = rotated[p] /\ (p \in fetching' <=> p \in fetching)
  OBVIOUS
<1>6. KeysInv' BY <1>2, <1>4, <1>5 DEF KeysInv, KeysShape
<1>7. QED BY <1>6 DEF Keys!KeysAreCurrentStep

(* A verification step keeps what is known of the key cache.               *)
LEMMA KeyStepKeeps ==
  ASSUME KeysInv, CopiesShape, NEW r \in Record, KeyStep(r)
  PROVE  KeysInv' /\ Keys!KeysAreCurrentStep
<1> USE DEF KeysInv, KeysShape
<1>1. UNCHANGED <<param, now, version, rotated>>
  BY DEF KeyStep, deployVars, worldVars
<1>2. KeyTtl \in Nat /\ pc \in [Record -> Progress]
  BY ContainerAssumption DEF CopiesShape
<1>3. CASE Keys!NeedsNoFetch(r)
  BY <1>1, <1>2, <1>3, KeysRest DEF Keys!NeedsNoFetch
<1>4. CASE Keys!Join(r)
  <2>1. param[r] \in fetching BY <1>4 DEF Keys!Join
  <2>2. UNCHANGED <<keys, fetching, answer, key>> /\ pc' = [pc EXCEPT ![r] = "key-wait"]
    BY <1>4, <2>1 DEF Keys!Join
  <2>3. QED BY <1>1, <1>2, <2>2, KeysRest
<1>5. CASE Keys!UseCached(r)
  <2>1. /\ UNCHANGED <<keys, fetching, answer>> /\ param[r] \in Param
        /\ keys[param[r]].kind = "value" /\ keys[param[r]].exp > now
        /\ key' = [key EXCEPT ![r] = keys[param[r]].value]
        /\ pc' = [pc EXCEPT ![r] = "sync"]
    BY <1>5 DEF Keys!UseCached
  <2>2. /\ keys[param[r]].value \in Nat /\ keys[param[r]].exp \in Nat
        /\ keys[param[r]].late \in Nat /\ rotated[param[r]] \in Nat
    BY <2>1 DEF CachedKey
  <2>3. KeysInv' BY <1>1, <2>1, <2>2
  <2>4. \/ key'[r] = version[param[r]]
        \/ now < rotated[param[r]] + keys[param[r]].late + KeyTtl
    BY <1>2, <2>1, <2>2
  <2>5. QED BY <1>2, <2>1, <2>3, <2>4 DEF Keys!KeysAreCurrentStep
<1>6. CASE Keys!Fetch(r)
  <2> DEFINE e == [Keys!NoEntry EXCEPT !.kind = "inFlight"]
  <2>1. /\ param[r] \in Param /\ keys' = [keys EXCEPT ![param[r]] = e]
        /\ fetching' = fetching \cup {param[r]} /\ UNCHANGED <<answer, key>>
        /\ pc' = [pc EXCEPT ![r] = "key-wait"]
    BY <1>6 DEF Keys!Fetch
  <2>2. e \in CachedKey /\ e.kind = "inFlight"
    BY MaxEventsNat DEF Keys!NoEntry, Keys!NoKey, CachedKey
  <2> HIDE DEF e
  <2>3. KeysInv' BY <1>1, <2>1, <2>2
  <2>4. QED BY <1>2, <2>1, <2>3 DEF Keys!KeysAreCurrentStep
<1>7. QED BY <1>3, <1>4, <1>5, <1>6 DEF KeyStep

(* An answer of the key store reaches the cache and whoever waits for it.  *)
LEMMA KeyAnswerKeeps ==
  ASSUME KeysInv, CopiesShape, NEW p \in Param, KeyAnswer(p)
  PROVE  KeysInv' /\ Keys!KeysAreCurrentStep
<1> USE DEF KeysInv, KeysShape
<1>1. UNCHANGED <<param, now, version, rotated>>
  BY DEF KeyAnswer, deployVars, worldVars
<1>2. KeyTtl \in Nat /\ pc \in [Record -> Progress]
  BY ContainerAssumption DEF CopiesShape
<1>5. /\ Keys!NoAnswer \in [value : Nat, read : Nat]
      /\ Keys!NoAnswer.value = Keys!NoKey /\ Keys!NoAnswer.read = 0
  BY MaxEventsNat DEF Keys!NoAnswer, Keys!NoKey
<1>3. CASE Keys!Fetched(p)
  <2> DEFINE e == [kind |-> "value", value |-> answer[p].value, exp |-> now + KeyTtl,
                   late |-> now - answer[p].read]
  <2>1. /\ keys' = [keys EXCEPT ![p] = e] /\ fetching' = fetching \ {p}
        /\ answer' = [answer EXCEPT ![p] = Keys!NoAnswer] /\ answer[p].value # Keys!NoKey
        /\ key' = [r \in Record |-> IF r \in Keys!Waiting(p) THEN answer[p].value ELSE key[r]]
        /\ pc' = [r \in Record |-> IF r \in Keys!Waiting(p) THEN "sync" ELSE pc[r]]
    BY <1>3 DEF Keys!Fetched
  <2>0. /\ answer[p].value \in Nat /\ answer[p].read \in Nat /\ answer[p].read <= now
        /\ answer[p].value = version[p] \/ answer[p].read <= rotated[p]
        /\ rotated[p] \in Nat /\ now \in Nat
    BY <2>1
  <2>2. /\ e \in CachedKey /\ e.kind = "value" /\ e.value = answer[p].value
        /\ e.exp = now + KeyTtl /\ e.late = now - answer[p].read
    BY <1>2, <2>0 DEF CachedKey
  <2> HIDE DEF e
  <2>3. keys'[p] = e /\ \A q \in Param \ {p} : keys'[q] = keys[q] BY <2>1
  <2>4. KeysShape'
    <3>1. keys' \in [Param -> CachedKey]
      BY <2>1, <2>2
    <3>2. key' \in [Record -> Nat] BY <2>0, <2>1
    <3>3. answer' \in [Param -> [value : Nat, read : Nat]]
      BY <1>5, <2>1
    <3>4. QED BY <1>1, <2>1, <3>1, <3>2, <3>3
  <2>5. e.exp <= now + KeyTtl
        /\ (e.value = version[p] \/ e.exp <= rotated[p] + e.late + KeyTtl)
    BY <1>2, <2>0, <2>2
  <2>6. KeysInv' BY <1>1, <1>2, <1>5, <2>1, <2>2, <2>3, <2>4, <2>5
  <2>7. e.value = version[p] \/ now <= rotated[p] + e.late
    BY <2>0, <2>2
  <2>8. \A r \in Record : key[r] = Keys!NoKey /\ key'[r] # Keys!NoKey =>
          param[r] = p /\ key'[r] = e.value
    BY <2>1, <2>2 DEF Keys!Waiting
  <2>9. QED BY <1>1, <1>2, <2>1, <2>3, <2>6, <2>7, <2>8 DEF Keys!KeysAreCurrentStep
<1>4. CASE Keys!FetchFails(p)
  <2>1. /\ keys' = [keys EXCEPT ![p] = Keys!NoEntry] /\ fetching' = fetching \ {p}
        /\ answer' = [answer EXCEPT ![p] = Keys!NoAnswer]
        /\ pc' = [r \in Record |-> IF r \in Keys!Waiting(p) THEN "unavailable" ELSE pc[r]]
        /\ UNCHANGED key /\ p \in fetching
    BY <1>4 DEF Keys!FetchFails
  <2>2. Keys!NoEntry \in CachedKey /\ Keys!NoEntry.kind = "none"
    BY MaxEventsNat DEF Keys!NoEntry, Keys!NoKey, CachedKey
  <2>3. KeysShape' BY <1>1, <1>5, <2>1, <2>2
  <2>4. KeysInv' BY <1>1, <1>5, <2>1, <2>2, <2>3
  <2>5. QED BY <1>2, <2>1, <2>4 DEF Keys!KeysAreCurrentStep, Keys!Waiting
<1>6. CASE Keys!Served(p)
  <2> DEFINE a == [value |-> version[p], read |-> now]
  <2>1. answer' = [answer EXCEPT ![p] = a] /\ UNCHANGED <<pc, keys, fetching, key>>
    BY <1>6 DEF Keys!Served
  <2>2. a \in [value : Nat, read : Nat] /\ a.value = version[p] /\ a.read = now
    OBVIOUS
  <2> HIDE DEF a
  <2>3. KeysShape' BY <1>1, <2>1, <2>2
  <2>4. KeysInv' BY <1>1, <2>1, <2>2, <2>3
  <2>5. QED BY <2>1, <2>4 DEF Keys!KeysAreCurrentStep
<1>7. QED BY <1>3, <1>4, <1>6 DEF KeyAnswer

(* Every step keeps the keys' invariant.                                   *)
LEMMA KeysStep ==
  ASSUME KeysInv, CopiesShape, MintInv, [Next]_vars
  PROVE  KeysInv' /\ Keys!KeysAreCurrentStep
<1> USE DEF KeysInv, KeysShape
<1>1. ASSUME NEW r \in Record, KeyStep(r) PROVE KeysInv' /\ Keys!KeysAreCurrentStep
  BY <1>1, KeyStepKeeps
<1>2. ASSUME NEW p \in Param, KeyAnswer(p) PROVE KeysInv' /\ Keys!KeysAreCurrentStep
  BY <1>2, KeyAnswerKeeps
<1>3. CASE Kill
  <2>1. /\ UNCHANGED <<param, now, version, rotated>> /\ fetching' = {}
        /\ answer' = [p \in Param |-> Keys!NoAnswer]
        /\ keys' = [p \in Param |-> Keys!NoEntry] /\ key' = [r \in Record |-> Keys!NoKey]
        /\ pc' = [r \in Record |-> IF r \in Active THEN "waiting" ELSE pc[r]]
    BY <1>3 DEF Kill, deployVars, worldVars
  <2>2. /\ Keys!NoEntry \in CachedKey
        /\ Keys!NoEntry.kind = "none" /\ Keys!NoKey \in Nat
        /\ Keys!NoAnswer \in [value : Nat, read : Nat]
        /\ Keys!NoAnswer.value = Keys!NoKey /\ Keys!NoAnswer.read = 0
    BY MaxEventsNat DEF Keys!NoEntry, Keys!NoKey, Keys!NoAnswer, CachedKey
  <2>3. KeysInv' BY <2>1, <2>2
  <2>4. QED BY <2>1, <2>3 DEF Keys!KeysAreCurrentStep
<1>4. ASSUME NEW p \in Param, World, Keys!Rotate(p), UNCHANGED <<upstream, stored, published>>
      PROVE  KeysInv' /\ Keys!KeysAreCurrentStep
  <2>1. /\ UNCHANGED <<param, now, keys, fetching, answer, key, pc>>
        /\ version' = [version EXCEPT ![p] = version[p] + 1]
        /\ rotated' = [rotated EXCEPT ![p] = now]
    BY <1>4 DEF World, deployVars, keyVars, Keys!Rotate
  <2>2. version' \in [Param -> Nat] /\ rotated' \in [Param -> Nat] BY <2>1
  <2>3. \A q \in Param : keys[q].kind = "value" =>
          keys[q].value = version'[q] \/ keys[q].exp <= rotated'[q] + keys[q].late + KeyTtl
    <3>1. KeyTtl \in Nat BY ContainerAssumption
    <3>2. \A q \in Param : keys[q].exp \in Nat /\ keys[q].late \in Nat /\ rotated[q] \in Nat
      BY DEF CachedKey
    <3>3. \A q \in Param \ {p} : rotated'[q] = rotated[q] /\ version'[q] = version[q]
      BY <2>1
    <3>4. rotated'[p] = now /\ now \in Nat
      BY <2>1
    <3>5. keys[p].kind = "value" => keys[p].exp <= rotated'[p] + keys[p].late + KeyTtl
      BY <3>1, <3>2, <3>4
    <3>6. QED BY <3>3, <3>5
  <2>4. KeysInv' BY <2>1, <2>2, <2>3
  <2>5. QED BY <2>1, <2>4 DEF Keys!KeysAreCurrentStep
<1>5. CASE \/ Boot \/ BootWithoutCatalog \/ Refresh \/ Tick \/ Receive \/ UNCHANGED vars
           \/ World /\ UNCHANGED <<version, rotated>>
           \/ \E r \in Record :
                SyncStep(r) \/ CredentialsStep(r) \/ SkillStep(r) \/ Work(r) \/ Redeliver(r)
  <2>1. UNCHANGED <<param, keys, fetching, answer, version, rotated>>
    BY <1>5 DEF Boot, BootWithoutCatalog, Refresh, Tick, Receive, World, SyncStep, CredentialsStep,
       SkillStep, Work, Redeliver, vars, deployVars, keyVars, worldVars
  <2>2. now' = now \/ now' = now + 1
    BY <1>5 DEF Boot, BootWithoutCatalog, Refresh, Tick, Receive, World, SyncStep, CredentialsStep,
       SkillStep, Work, Redeliver, vars
  <2>3. key' = key \/ (Receive /\ key' \in [Record -> Nat]
                       /\ \A r \in Record : key'[r] \in {key[r], Keys!NoKey})
    <3>1. CASE Receive
      <4>1. PICK batch \in SUBSET {r \in Record : pc[r] = "waiting"} :
              key' = [r \in Record |-> IF r \in batch THEN Keys!NoKey ELSE key[r]]
        BY <3>1 DEF Receive
      <4>2. Keys!NoKey \in Nat BY MaxEventsNat DEF Keys!NoKey
      <4>3. QED BY <3>1, <4>1, <4>2
    <3>2. CASE ~Receive
      BY <1>5, <3>2 DEF Boot, BootWithoutCatalog, Refresh, Tick, World, SyncStep, CredentialsStep,
         SkillStep, Work, Redeliver, vars, keyVars
    <3>3. QED BY <3>1, <3>2
  <2>4. \A q \in Record : pc'[q] = "unavailable" => pc[q] = "unavailable"
    <3>1. ASSUME NEW r \in Record, CredentialsStep(r), NEW q \in Record
          PROVE  pc'[q] = "unavailable" => pc[q] = "unavailable"
      BY <3>1, CredentialsMoves DEF CopiesShape
    <3>2. ASSUME NEW r \in Record, SyncStep(r), NEW q \in Record
          PROVE  pc'[q] = "unavailable" => pc[q] = "unavailable"
      BY <3>2, SyncMoves DEF CopiesShape
    <3>3. ASSUME NEW r \in Record, SkillStep(r), NEW q \in Record
          PROVE  pc'[q] = "unavailable" => pc[q] = "unavailable"
      BY <3>3, SkillMoves DEF CopiesShape
    <3>4. ASSUME NEW r \in Record, Work(r) \/ Redeliver(r), NEW q \in Record
          PROVE  pc'[q] = "unavailable" => pc[q] = "unavailable"
      BY <3>4 DEF Work, Redeliver, CopiesShape
    <3>5. CASE Boot \/ BootWithoutCatalog \/ Refresh \/ Tick \/ World \/ UNCHANGED vars
      BY <3>5 DEF Boot, BootWithoutCatalog, Refresh, Tick, World, vars
    <3>6. CASE Receive BY <3>6 DEF Receive
    <3>7. QED BY <1>5, <3>1, <3>2, <3>3, <3>4, <3>5, <3>6
  <2>5. key' \in [Record -> Nat] /\ \A r \in Record : key'[r] \in {key[r], Keys!NoKey}
    BY <2>3
  <2>6. QED BY <2>1, <2>2, <2>4, <2>5, KeysRest
<1>6. World => UNCHANGED <<version, rotated>>
               \/ \E p \in Param : Keys!Rotate(p) /\ UNCHANGED <<upstream, stored, published>>
  BY DEF World
<1>7. QED BY <1>1, <1>2, <1>3, <1>4, <1>5, <1>6 DEF Next

---------------------------------------------------------------------------
(* The first place *)

(* Any numbers have a least one.                                           *)
LEMMA LeastNumber ==
  ASSUME NEW S, S \subseteq Nat, S # {}
  PROVE  \E m \in S : \A n \in S : m <= n
<1>1. PICK m \in S : \A n \in S : ~(<<n, m>> \in OpToRel(<, Nat))
  BY WFMin, NatLessThanWellFounded, Zenon
<1>2. \A n \in S : ~(n < m)
  BY <1>1 DEF OpToRel
<1>3. ASSUME NEW n \in S PROVE m <= n
  <2>1. ~(n < m) BY <1>2
  <2>2. n \in Nat /\ m \in Nat OBVIOUS
  <2>3. QED BY <2>1, <2>2
<1>4. QED BY <1>3

Place == [project : Project, at : Nat]

(* Any places have one that resolveFor takes first.                        *)
LEMMA FirstPlace ==
  ASSUME NEW T, T \subseteq Place, T # {}
  PROVE  Credentials!First(T) \in T
<1> DEFINE A == {x.at : x \in T}
<1>1. A \subseteq Nat /\ A # {}
  BY DEF Place
<1>2. PICK a \in A : \A b \in A : a <= b
  <2> HIDE DEF A
  <2>1. QED BY <1>1, LeastNumber
<1>3. PICK x \in T : x.at = a
  BY <1>2
<1>4. \A y \in T : x.at <= y.at
  BY <1>2, <1>3
<1>5. QED BY <1>4 DEF Credentials!First

---------------------------------------------------------------------------
(* The environments of the runs *)

(* A run that resolves or is equipped; what it has resolved so far.        *)
Equipped == {"equipped", "staged", "skill"}
Knows(r) == pc[r] = "resolving" \/ (resolverWired(descriptor) /\ pc[r] \in Equipped)
Done(r) == Credentials!Places(block[r]) \ todo[r]

(* What a run has read: valid blocks of projects.                          *)
Blocks(b) ==
  /\ DOMAIN b \subseteq Project /\ b \in [DOMAIN b -> Seq(Credentials!Raw)]
  /\ \A p \in DOMAIN b : Credentials!parseCredentialsExtension(b[p])

CredShape ==
  /\ scenario \in Scenario
  /\ published \in Credentials!Bundles /\ declared \in Credentials!Bundles
  /\ stored \in [Project -> Nat]
  /\ tokens \in [Domain -> [n : Nat, exp : Nat]] /\ minted \in [Domain -> Nat]
  /\ DOMAIN block = Record /\ DOMAIN env = Record /\ DOMAIN todo = Record
  /\ \A r \in Record :
       /\ Blocks(block[r])
       /\ DOMAIN env[r] \subseteq Env /\ env[r] \in [DOMAIN env[r] -> Credentials!Value]
       /\ todo[r] \subseteq Credentials!Places(block[r])
  /\ minting \in [Record -> [n : Nat, exp : Nat]]
  /\ begun \in [Record -> [at : Nat, alone : BOOLEAN, steady : BOOLEAN]]
  /\ now \in Nat /\ \A r \in Record : begun[r].at <= now

(* What the entry at x left in the environment e.                          *)
Filled(b, e, x) ==
  \A v \in Credentials!envNamesOf(Credentials!Item(b, x)) :
    v \in DOMAIN e /\ e[v].of = Credentials!Source(b, x, v)

(* The environment has what was resolved, and nothing else.                *)
Resolves(b, e, done) ==
  /\ \A x \in done : Filled(b, e, x)
  /\ \A v \in DOMAIN e : \E x \in done : v \in Credentials!envNamesOf(Credentials!Item(b, x))

(* A token on its way is for the entry that is next.                       *)
OnItsWay(r) ==
  /\ Credentials!NextItem(r).provider = "codeartifact"
  /\ minting[r].n <= minted[Credentials!NextItem(r).domain]

(* What r has of a domain is the domain's token, and no other is on its    *)
(* way.                                                                    *)
Alone(r) ==
  /\ \A q \in Record \ {r} : minting[q] = Credentials!NoToken
  /\ \A e \in DOMAIN env[r] : env[r][e].of \in Domain =>
       /\ tokens[env[r][e].of].exp > now
       /\ env[r][e].n = tokens[env[r][e].of].n
  /\ minting[r] # Credentials!NoToken =>
       /\ tokens[Credentials!NextItem(r).domain].exp <= now
       /\ minting[r].exp > now

Projects(r) == {copies[r][i] : i \in DOMAIN copies[r]}

(* Its blocks are of its projects, of all of them in the end; as long as   *)
(* the catalog is steady they are what the container serves.               *)
RunInv(r) ==
  /\ minting[r] # Credentials!NoToken => OnItsWay(r)
  /\ DOMAIN block[r] \subseteq Projects(r)
  /\ begun[r].steady => \A p \in DOMAIN block[r] : block[r][p] = declared[p]
  /\ Knows(r) => Resolves(block[r], env[r], Done(r))
  /\ resolverWired(descriptor) /\ pc[r] \in Equipped =>
       todo[r] = {} /\ Projects(r) \subseteq DOMAIN block[r]
  /\ pc[r] = "resolving" /\ begun[r].alone /\ begun[r].at = now => Alone(r)

CredInv ==
  /\ CredShape
  /\ \A d \in Domain : tokens[d].n <= minted[d]
  /\ \A r \in Record : RunInv(r)

(* What the container serves is a bundle.                                  *)
LEMMA ServedIs ==
  ASSUME CredShape
  PROVE  declared \in [Project -> Seq(Credentials!Raw)]
<1>1. declared \in Credentials!Bundle
  BY ContainerAssumption DEF CredShape, Credentials!Bundles
<1>2. QED BY <1>1 DEF Credentials!Bundle

(* The places of entries in blocks.                                        *)
LEMMA PlacesAre ==
  ASSUME NEW b, Blocks(b)
  PROVE  /\ Credentials!Places(b) \subseteq Place
         /\ \A x \in Credentials!Places(b) :
              /\ x.project \in DOMAIN b /\ x.project \in Project
              /\ x.at \in DOMAIN b[x.project]
              /\ Credentials!Item(b, x) \in Credentials!Raw
              /\ Credentials!parseCredentialsExtension(b[x.project])
<1> SUFFICES ASSUME NEW x \in Credentials!Places(b)
             PROVE  /\ x \in Place
                    /\ x.project \in DOMAIN b /\ x.project \in Project
                    /\ x.at \in DOMAIN b[x.project]
                    /\ Credentials!Item(b, x) \in Credentials!Raw
                    /\ Credentials!parseCredentialsExtension(b[x.project])
  OBVIOUS
<1>1. PICK p \in DOMAIN b : x \in Credentials!PlacesOf(p, b[p])
  BY DEF Credentials!Places
<1>2. PICK j \in DOMAIN b[p] : x = [project |-> p, at |-> j]
  BY <1>1 DEF Credentials!PlacesOf
<1>3. p \in Project /\ b[p] \in Seq(Credentials!Raw)
  BY DEF Blocks
<1>4. j \in Nat /\ b[p][j] \in Credentials!Raw
  BY <1>2, <1>3
<1>5. x.project = p /\ x.at = j
  BY <1>2
<1>6. x \in Place
  BY <1>2, <1>3, <1>4 DEF Place
<1>7. Credentials!Item(b, x) \in Credentials!Raw
  BY <1>4, <1>5 DEF Credentials!Item
<1>8. QED BY <1>3, <1>5, <1>6, <1>7 DEF Blocks

(* What the variables of an entry are given from.                          *)
LEMMA SourcesAre ==
  ASSUME NEW b, Blocks(b), NEW x \in Credentials!Places(b), NEW item,
         item = Credentials!Item(b, x), NEW v \in Credentials!envNamesOf(item)
  PROVE  /\ v \in Env
         /\ v = item.env => Credentials!Source(b, x, v) =
                              IF item.provider = "ssm" THEN x.project ELSE item.domain
         /\ v # item.env => Credentials!Source(b, x, v) \in Repository
<1>1. /\ item \in Credentials!Raw /\ x.at \in DOMAIN b[x.project]
      /\ Credentials!parseCredentialsExtension(b[x.project])
  BY PlacesAre
<1>2. item.env \notin DOMAIN item.endpoints
  BY <1>1 DEF Credentials!parseCredentialsExtension, Credentials!Item
<1>3. item.env \in Env
  BY <1>1 DEF Credentials!Raw
<1>4. PICK names \in SUBSET Env : item.endpoints \in [names -> Repository]
  BY <1>1 DEF Credentials!Raw
<1>5. v = item.env \/ v \in DOMAIN item.endpoints
  BY DEF Credentials!envNamesOf
<1>6. CASE v = item.env
  BY <1>2, <1>3, <1>6 DEF Credentials!Source
<1>7. CASE v \in DOMAIN item.endpoints
  BY <1>2, <1>4, <1>7 DEF Credentials!Source
<1>8. QED BY <1>5, <1>6, <1>7

(* Two entries of one block that name one variable are one.                *)
LEMMA OneEntryPerName ==
  ASSUME NEW b, Blocks(b), NEW x \in Credentials!Places(b), NEW y \in Credentials!Places(b),
         x.project = y.project, NEW v, v \in Credentials!envNamesOf(Credentials!Item(b, x)),
         v \in Credentials!envNamesOf(Credentials!Item(b, y))
  PROVE  x = y
<1>1. /\ x.at \in DOMAIN b[x.project] /\ y.at \in DOMAIN b[x.project]
      /\ x \in Place /\ y \in Place
      /\ Credentials!parseCredentialsExtension(b[x.project])
  BY PlacesAre
<1>2. x.at = y.at
  BY <1>1 DEF Credentials!parseCredentialsExtension, Credentials!Item
<1>3. QED BY <1>1, <1>2 DEF Place

(* The next entry, and the values it gives.                                *)
LEMMA ValuesAre ==
  ASSUME CredShape, NEW r \in Record, todo[r] # {}, NEW x, x = Credentials!NextPlace(r)
  PROVE  /\ x \in todo[r] /\ x \in Credentials!Places(block[r])
         /\ Credentials!NextItem(r) = Credentials!Item(block[r], x)
         /\ Credentials!NextItem(r) \in Credentials!Raw
         /\ Credentials!NextItem(r).domain \in Domain
         /\ x.project \in Project
         /\ \A n \in Nat :
              /\ DOMAIN Credentials!Values(r, n) =
                   Credentials!envNamesOf(Credentials!NextItem(r))
              /\ \A v \in DOMAIN Credentials!Values(r, n) :
                   /\ v \in Env
                   /\ Credentials!Values(r, n)[v] \in Credentials!Value
                   /\ Credentials!Values(r, n)[v].of = Credentials!Source(block[r], x, v)
                   /\ Credentials!Values(r, n)[v].n =
                        IF v = Credentials!NextItem(r).env THEN n ELSE 0
<1>1. Blocks(block[r]) /\ todo[r] \subseteq Credentials!Places(block[r])
  BY DEF CredShape
<1>2. todo[r] \subseteq Place
  BY <1>1, PlacesAre
<1>3. x \in todo[r] /\ x \in Credentials!Places(block[r])
  BY <1>1, <1>2, FirstPlace DEF Credentials!NextPlace
<1> PICK item : item = Credentials!NextItem(r)
  OBVIOUS
<1>4. item = Credentials!Item(block[r], x)
  BY DEF Credentials!NextItem
<1>5. item \in Credentials!Raw /\ x.project \in Project
  BY <1>1, <1>3, <1>4, PlacesAre
<1>6. item.domain \in Domain
  BY <1>5 DEF Credentials!Raw
<1>7. ASSUME NEW n \in Nat, NEW v \in Credentials!envNamesOf(item)
      PROVE  /\ v \in Env
             /\ [of |-> Credentials!Source(block[r], x, v),
                 n |-> IF v = item.env THEN n ELSE 0] \in Credentials!Value
  <2>1. /\ v \in Env
        /\ v = item.env => Credentials!Source(block[r], x, v) \in Domain \cup Project
        /\ v # item.env => Credentials!Source(block[r], x, v) \in Repository
    BY <1>1, <1>3, <1>4, <1>5, <1>6, SourcesAre
  <2>2. QED BY <2>1 DEF Credentials!Value
<1>8. ASSUME NEW n \in Nat
      PROVE  Credentials!Values(r, n) = [v \in Credentials!envNamesOf(item) |->
               [of |-> Credentials!Source(block[r], x, v), n |-> IF v = item.env THEN n ELSE 0]]
  BY DEF Credentials!Values
<1>9. ASSUME NEW n \in Nat
      PROVE  /\ DOMAIN Credentials!Values(r, n) = Credentials!envNamesOf(item)
             /\ \A v \in DOMAIN Credentials!Values(r, n) :
                  /\ v \in Env
                  /\ Credentials!Values(r, n)[v] \in Credentials!Value
                  /\ Credentials!Values(r, n)[v].of = Credentials!Source(block[r], x, v)
                  /\ Credentials!Values(r, n)[v].n = IF v = item.env THEN n ELSE 0
  BY <1>7, <1>8
<1>10. QED BY <1>3, <1>4, <1>5, <1>6, <1>9

(* r has taken the values got, or found that they contradict what it has.  *)
Taken(r, got) ==
  /\ DOMAIN env' = Record /\ DOMAIN todo' = Record
  /\ \A q \in Record \ {r} : env'[q] = env[q] /\ todo'[q] = todo[q]
  /\ DOMAIN env'[r] \subseteq Env /\ env'[r] \in [DOMAIN env'[r] -> Credentials!Value]
  /\ todo'[r] \subseteq todo[r]
  /\ \/ /\ pc' = pc
        /\ Resolves(block[r], env'[r], Credentials!Places(block[r]) \ todo'[r])
        /\ \A e \in DOMAIN env'[r] :
             \/ e \in DOMAIN got /\ env'[r][e] = got[e]
             \/ e \in DOMAIN env[r] /\ env'[r][e] = env[r][e]
     \/ /\ pc' = [pc EXCEPT ![r] = "conflict"]
        /\ \E v \in DOMAIN got \cap DOMAIN env[r] : env[r][v] # got[v]

(* Values taken are in the environment, or contradict what is there.       *)
LEMMA TakeResult ==
  ASSUME CredShape, pc \in [Record -> Progress], NEW r \in Record, todo[r] # {},
         Resolves(block[r], env[r], Done(r)), NEW n \in Nat, Credentials!Take(r, n)
  PROVE  Taken(r, Credentials!Values(r, n))
<1> PICK x : x = Credentials!NextPlace(r)
  OBVIOUS
<1> PICK got : got = Credentials!Values(r, n)
  OBVIOUS
<1> PICK item : item = Credentials!Item(block[r], x)
  OBVIOUS
<1>1. /\ x \in todo[r] /\ x \in Credentials!Places(block[r])
      /\ DOMAIN got = Credentials!envNamesOf(item)
      /\ \A v \in DOMAIN got :
           /\ v \in Env /\ got[v] \in Credentials!Value
           /\ got[v].of = Credentials!Source(block[r], x, v)
  BY ValuesAre
<1>2. /\ DOMAIN env = Record /\ DOMAIN todo = Record
      /\ DOMAIN env[r] \subseteq Env /\ env[r] \in [DOMAIN env[r] -> Credentials!Value]
      /\ todo[r] \subseteq Credentials!Places(block[r])
  BY DEF CredShape
<1>3. CASE \E v \in DOMAIN got \cap DOMAIN env[r] : env[r][v] # got[v]
  <2>1. /\ pc' = [pc EXCEPT ![r] = "conflict"] /\ todo' = [todo EXCEPT ![r] = {}] /\ env' = env
    BY <1>3 DEF Credentials!Take
  <2>2. QED BY <1>2, <1>3, <2>1 DEF Taken
<1>4. CASE ~(\E v \in DOMAIN got \cap DOMAIN env[r] : env[r][v] # got[v])
  <2> PICK made : made = [v \in DOMAIN env[r] \cup DOMAIN got |->
                            IF v \in DOMAIN got THEN got[v] ELSE env[r][v]]
    OBVIOUS
  <2>1. /\ env' = [env EXCEPT ![r] = made]
        /\ todo' = [todo EXCEPT ![r] = todo[r] \ {x}] /\ pc' = pc
    BY <1>4 DEF Credentials!Take
  <2>2. /\ env'[r] = made /\ todo'[r] = todo[r] \ {x}
        /\ \A q \in Record \ {r} : env'[q] = env[q] /\ todo'[q] = todo[q]
        /\ DOMAIN env' = Record /\ DOMAIN todo' = Record
    BY <1>2, <2>1
  <2>3. /\ DOMAIN made = DOMAIN env[r] \cup DOMAIN got
        /\ \A v \in DOMAIN got : made[v] = got[v]
        /\ \A v \in DOMAIN env[r] : made[v] = env[r][v]
    BY <1>4
  <2>4. DOMAIN made \subseteq Env /\ made \in [DOMAIN made -> Credentials!Value]
    <3>1. \A v \in DOMAIN made : v \in Env /\ made[v] \in Credentials!Value
      BY <1>1, <1>2, <2>3
    <3>2. made = [v \in DOMAIN made |-> made[v]]
      OBVIOUS
    <3>3. QED BY <3>1, <3>2
  <2>5. Credentials!Places(block[r]) \ todo'[r] = Done(r) \cup {x}
    BY <1>1, <2>2 DEF Done
  <2>6. Resolves(block[r], made, Done(r) \cup {x})
    <3>1. ASSUME NEW y \in Done(r) PROVE Filled(block[r], made, y)
      <4>1. Filled(block[r], env[r], y)
        BY DEF Resolves
      <4>2. QED BY <2>3, <4>1 DEF Filled
    <3>2. Filled(block[r], made, x)
      BY <1>1, <2>3 DEF Filled
    <3>3. \A v \in DOMAIN made : \E y \in Done(r) \cup {x} :
            v \in Credentials!envNamesOf(Credentials!Item(block[r], y))
      BY <1>1, <2>3 DEF Resolves
    <3>4. QED BY <3>1, <3>2, <3>3 DEF Resolves
  <2>7. \A e \in DOMAIN made :
          \/ e \in DOMAIN got /\ made[e] = got[e]
          \/ e \in DOMAIN env[r] /\ made[e] = env[r][e]
    BY <2>3
  <2>8. /\ DOMAIN env'[r] \subseteq Env /\ env'[r] \in [DOMAIN env'[r] -> Credentials!Value]
        /\ Resolves(block[r], env'[r], Credentials!Places(block[r]) \ todo'[r])
        /\ \A e \in DOMAIN env'[r] :
             \/ e \in DOMAIN got /\ env'[r][e] = got[e]
             \/ e \in DOMAIN env[r] /\ env'[r][e] = env[r][e]
    BY <2>2, <2>4, <2>5, <2>6, <2>7, Zenon
  <2>9. QED BY <2>1, <2>2, <2>8 DEF Taken
<1>5. QED BY <1>3, <1>4

(* What another run does leaves a run's own invariant.                     *)
LEMMA OthersKeep ==
  ASSUME CredShape, MintInv, NEW q \in Record, RunInv(q),
         UNCHANGED <<declared, copies, descriptor, now>>,
         pc'[q] = pc[q], block'[q] = block[q], env'[q] = env[q], todo'[q] = todo[q],
         minting'[q] = minting[q], begun'[q].at = begun[q].at,
         begun'[q].steady = begun[q].steady, begun'[q].alone => begun[q].alone,
         minted' \in [Domain -> Nat], \A d \in Domain : minted[d] <= minted'[d],
         begun'[q].alone =>
           \/ /\ tokens' = tokens
              /\ \A p \in Record \ {q} : minting'[p] \in {minting[p], Credentials!NoToken}
           \/ \E p \in Record \ {q} : minting[p] # Credentials!NoToken
  PROVE  RunInv(q)'
<1>1. Credentials!NextItem(q)' = Credentials!NextItem(q)
  BY DEF Credentials!NextItem, Credentials!NextPlace
<1>2. Projects(q)' = Projects(q) /\ Done(q)' = Done(q)
  BY DEF Projects, Done
<1>3. minting'[q] # Credentials!NoToken => OnItsWay(q)'
  <2> SUFFICES ASSUME minting[q] # Credentials!NoToken PROVE OnItsWay(q)'
    OBVIOUS
  <2> PICK d : d = Credentials!NextItem(q).domain
    OBVIOUS
  <2>1. OnItsWay(q)
    BY DEF RunInv
  <2>2. d \in Domain
    BY ValuesAre DEF MintInv
  <2>3. minting[q].n \in Nat /\ minted[d] \in Nat /\ minted'[d] \in Nat
    BY <2>2 DEF CredShape
  <2>4. minting[q].n <= minted'[d]
    BY <2>1, <2>2, <2>3 DEF OnItsWay
  <2>5. QED BY <1>1, <2>1, <2>4 DEF OnItsWay
<1>4. Knows(q)' => Resolves(block'[q], env'[q], Done(q)')
  BY <1>2 DEF RunInv, Knows
<1>5. /\ DOMAIN block'[q] \subseteq Projects(q)'
      /\ begun'[q].steady => \A p \in DOMAIN block'[q] : block'[q][p] = declared'[p]
      /\ resolverWired(descriptor)' /\ pc'[q] \in Equipped =>
           todo'[q] = {} /\ Projects(q)' \subseteq DOMAIN block'[q]
  BY <1>2 DEF RunInv
<1>6. pc'[q] = "resolving" /\ begun'[q].alone /\ begun'[q].at = now' => Alone(q)'
  <2> SUFFICES ASSUME pc[q] = "resolving", begun'[q].alone, begun[q].at = now PROVE Alone(q)'
    OBVIOUS
  <2>1. Alone(q)
    BY DEF RunInv
  <2>2. /\ tokens' = tokens
        /\ \A p \in Record \ {q} : minting'[p] \in {minting[p], Credentials!NoToken}
    BY <2>1 DEF Alone
  <2>3. QED BY <1>1, <2>1, <2>2 DEF Alone
<1>7. QED BY <1>3, <1>4, <1>5, <1>6 DEF RunInv

(* A run that begins to resolve.                                           *)
LEMMA BeginKeeps ==
  ASSUME CredInv, MintInv, CopiesShape, NEW r \in Record, Credentials!Begin(r),
         UNCHANGED <<scenario, published, declared, copies, descriptor, now>>
  PROVE  CredInv'
<1>1. /\ pc[r] = "credentials" /\ pc' = [pc EXCEPT ![r] = "resolving"]
      /\ todo' = [todo EXCEPT ![r] = {}]
      /\ block' = [block EXCEPT ![r] = Credentials!Empty]
      /\ env' = [env EXCEPT ![r] = Credentials!Empty]
      /\ begun' = [begun EXCEPT ![r] = [at |-> now, steady |-> TRUE,
           alone |-> \A q \in Record \ {r} : minting[q] = Credentials!NoToken]]
      /\ UNCHANGED <<stored, tokens, minted, minting>>
  BY DEF Credentials!Begin
<1>2. CredShape /\ pc \in [Record -> Progress]
  BY DEF CredInv, CopiesShape
<1>3. minting[r] = Credentials!NoToken
  BY <1>1 DEF MintInv
<1>4. /\ DOMAIN Credentials!Empty = {} /\ Credentials!Empty \in [{} -> Credentials!Value]
      /\ Credentials!Empty \in [{} -> Seq(Credentials!Raw)]
  BY DEF Credentials!Empty
<1>5. /\ pc'[r] = "resolving" /\ todo'[r] = {}
      /\ block'[r] = Credentials!Empty /\ env'[r] = Credentials!Empty
      /\ begun'[r].at = now
      /\ begun'[r].alone <=> \A q \in Record \ {r} : minting[q] = Credentials!NoToken
      /\ \A q \in Record \ {r} :
           /\ pc'[q] = pc[q] /\ block'[q] = block[q] /\ env'[q] = env[q]
           /\ todo'[q] = todo[q] /\ begun'[q] = begun[q]
      /\ DOMAIN block' = Record /\ DOMAIN env' = Record /\ DOMAIN todo' = Record
  BY <1>1, <1>2 DEF CredShape
<1>6. Blocks(Credentials!Empty)
  BY <1>4 DEF Blocks
<1>7. CredShape'
  <2>1. begun' \in [Record -> [at : Nat, alone : BOOLEAN, steady : BOOLEAN]]
    BY <1>1, <1>2 DEF CredShape
  <2>2. \A q \in Record : begun'[q].at <= now
    <3>1. now \in Nat /\ begun'[r].at <= now
      BY <1>2, <1>5 DEF CredShape
    <3>2. \A q \in Record \ {r} : begun[q].at <= now
      BY <1>2 DEF CredShape
    <3>3. QED BY <1>5, <3>1, <3>2
  <2>3. \A q \in Record :
          /\ Blocks(block'[q])
          /\ DOMAIN env'[q] \subseteq Env
          /\ env'[q] \in [DOMAIN env'[q] -> Credentials!Value]
          /\ todo'[q] \subseteq Credentials!Places(block'[q])
    <3>1. /\ Blocks(block'[r])
          /\ DOMAIN env'[r] \subseteq Env
          /\ env'[r] \in [DOMAIN env'[r] -> Credentials!Value]
          /\ todo'[r] \subseteq Credentials!Places(block'[r])
      BY <1>4, <1>5, <1>6
    <3>2. QED BY <1>2, <1>5, <3>1 DEF CredShape
  <2>4. Credentials!Bundles' = Credentials!Bundles
    BY DEF Credentials!Bundles
  <2>5. QED BY <1>1, <1>2, <1>5, <2>1, <2>2, <2>3, <2>4 DEF CredShape
<1>8. RunInv(r)'
  <2>1. Done(r)' = {}
    BY <1>4, <1>5 DEF Done, Credentials!Places
  <2>2. Resolves(block'[r], env'[r], Done(r)')
    BY <1>4, <1>5, <2>1 DEF Resolves
  <2>3. begun'[r].alone => Alone(r)'
    BY <1>1, <1>3, <1>4, <1>5 DEF Alone
  <2>4. QED BY <1>1, <1>3, <1>4, <1>5, <2>2, <2>3 DEF RunInv, Equipped
<1>9. ASSUME NEW q \in Record \ {r} PROVE RunInv(q)'
  <2>1. RunInv(q)
    BY DEF CredInv
  <2>2. minted' \in [Domain -> Nat] /\ \A d \in Domain : minted[d] <= minted'[d]
    BY <1>1, <1>2 DEF CredShape
  <2>3. /\ tokens' = tokens /\ \A p \in Record \ {q} : minting'[p] \in {minting[p]}
        /\ minting'[q] = minting[q]
    BY <1>1
  <2>4. /\ pc'[q] = pc[q] /\ block'[q] = block[q] /\ env'[q] = env[q] /\ todo'[q] = todo[q]
        /\ begun'[q].at = begun[q].at /\ begun'[q].steady = begun[q].steady
        /\ begun'[q].alone => begun[q].alone
    BY <1>5
  <2>5. QED BY <1>2, <2>1, <2>2, <2>3, <2>4, OthersKeep
<1>10. QED BY <1>1, <1>7, <1>8, <1>9 DEF CredInv

(* A project's block that is read.                                         *)
LEMMA ReadBlockKeeps ==
  ASSUME CredInv, MintInv, CopiesShape, NEW r \in Record, Credentials!ReadBlock(r),
         UNCHANGED <<scenario, published, declared, copies, descriptor, now>>
  PROVE  CredInv'
<1>1. PICK p \in Project :
        /\ Credentials!ComesTo(r, p) /\ Credentials!parseCredentialsExtension(declared[p])
        /\ block' = [block EXCEPT ![r] =
             [q \in DOMAIN block[r] \cup {p} |-> IF q = p THEN declared[p] ELSE block[r][q]]]
        /\ todo' = [todo EXCEPT ![r] = Credentials!PlacesOf(p, declared[p])]
  BY DEF Credentials!ReadBlock
<1>2. UNCHANGED <<pc, stored, tokens, minted, env, minting, begun>>
  BY DEF Credentials!ReadBlock
<1>3. /\ pc[r] = "resolving" /\ todo[r] = {}
      /\ p \notin DOMAIN block[r] /\ p \in Projects(r)
  BY <1>1 DEF Credentials!ComesTo, Credentials!Unread, Projects
<1>4. CredShape /\ Blocks(block[r]) /\ RunInv(r) /\ minting[r] = Credentials!NoToken
  BY <1>3 DEF CredInv, CredShape, MintInv
<1> PICK b, c : b = block[r] /\ c = [q \in DOMAIN b \cup {p} |->
                                       IF q = p THEN declared[p] ELSE b[q]]
  OBVIOUS
<1>5. /\ block'[r] = c /\ todo'[r] = Credentials!PlacesOf(p, declared[p])
      /\ \A q \in Record \ {r} : block'[q] = block[q] /\ todo'[q] = todo[q]
      /\ DOMAIN block' = Record /\ DOMAIN todo' = Record
  BY <1>1, <1>4 DEF CredShape
<1>6. /\ DOMAIN c = DOMAIN b \cup {p} /\ c[p] = declared[p]
      /\ \A q \in DOMAIN b : c[q] = b[q]
  BY <1>3
<1>7. Blocks(c)
  <2>1. declared[p] \in Seq(Credentials!Raw)
    BY <1>4, ServedIs
  <2>2. \A q \in DOMAIN c : c[q] \in Seq(Credentials!Raw) /\ q \in Project
    BY <1>4, <1>6, <2>1 DEF Blocks
  <2>3. c \in [DOMAIN c -> Seq(Credentials!Raw)]
    <3>1. c = [q \in DOMAIN c |-> c[q]]
      OBVIOUS
    <3>2. QED BY <2>2, <3>1
  <2>4. \A q \in DOMAIN c : Credentials!parseCredentialsExtension(c[q])
    BY <1>1, <1>4, <1>6 DEF Blocks
  <2>5. QED BY <2>2, <2>3, <2>4 DEF Blocks
<1>8. Credentials!Places(c) = Credentials!Places(b) \cup Credentials!PlacesOf(p, declared[p])
  BY <1>6 DEF Credentials!Places
<1>9. \A x \in Credentials!Places(b) :
        /\ x.project \in DOMAIN b /\ x \notin Credentials!PlacesOf(p, declared[p])
        /\ Credentials!Item(c, x) = Credentials!Item(b, x)
  <2>1. \A x \in Credentials!Places(b) : x.project \in DOMAIN b
    BY <1>4, PlacesAre
  <2>2. \A x \in Credentials!PlacesOf(p, declared[p]) : x.project = p
    BY DEF Credentials!PlacesOf
  <2>3. QED BY <1>3, <1>6, <2>1, <2>2 DEF Credentials!Item
<1>10. CredShape'
  <2>1. \A q \in Record :
          /\ Blocks(block'[q])
          /\ DOMAIN env'[q] \subseteq Env
          /\ env'[q] \in [DOMAIN env'[q] -> Credentials!Value]
          /\ todo'[q] \subseteq Credentials!Places(block'[q])
    <3>1. Blocks(block'[r]) /\ todo'[r] \subseteq Credentials!Places(block'[r])
      BY <1>5, <1>7, <1>8
    <3>2. QED BY <1>2, <1>4, <1>5, <3>1 DEF CredShape
  <2>2. Credentials!Bundles' = Credentials!Bundles
    BY DEF Credentials!Bundles
  <2>3. QED BY <1>2, <1>4, <1>5, <2>1, <2>2 DEF CredShape
<1>11. RunInv(r)'
  <2>1. Done(r)' = Done(r) /\ Done(r) = Credentials!Places(b)
    BY <1>3, <1>5, <1>8, <1>9 DEF Done
  <2>2. Resolves(c, env[r], Credentials!Places(b))
    <3>1. Resolves(b, env[r], Credentials!Places(b))
      BY <1>3, <1>4, <2>1 DEF RunInv, Knows
    <3>2. ASSUME NEW x \in Credentials!Places(b), NEW v
          PROVE  Credentials!Source(c, x, v) = Credentials!Source(b, x, v)
      <4> PICK item : item = Credentials!Item(b, x)
        OBVIOUS
      <4>1. Credentials!Item(c, x) = item
        BY <1>9
      <4>2. CASE v \in DOMAIN item.endpoints
        BY <4>1, <4>2 DEF Credentials!Source
      <4>3. CASE v \notin DOMAIN item.endpoints
        BY <4>1, <4>3 DEF Credentials!Source
      <4>4. QED BY <4>2, <4>3
    <3>3. ASSUME NEW x \in Credentials!Places(b) PROVE Filled(c, env[r], x)
      <4>1. Filled(b, env[r], x)
        BY <3>1 DEF Resolves
      <4>2. QED BY <1>9, <3>2, <4>1 DEF Filled
    <3>4. \A v \in DOMAIN env[r] : \E x \in Credentials!Places(b) :
            v \in Credentials!envNamesOf(Credentials!Item(c, x))
      BY <1>9, <3>1 DEF Resolves
    <3>5. QED BY <3>3, <3>4 DEF Resolves
  <2>3. Projects(r)' = Projects(r)
    BY DEF Projects
  <2>4. DOMAIN c \subseteq Projects(r)
    BY <1>3, <1>4, <1>6 DEF RunInv
  <2>5. begun[r].steady => \A q \in DOMAIN c : c[q] = declared[q]
    BY <1>4, <1>6 DEF RunInv
  <2>6. pc[r] = "resolving" /\ begun[r].alone /\ begun[r].at = now => Alone(r)'
    <3> SUFFICES ASSUME begun[r].alone, begun[r].at = now PROVE Alone(r)'
      OBVIOUS
    <3>1. Alone(r)
      BY <1>3, <1>4 DEF RunInv
    <3>2. QED BY <1>2, <1>4, <3>1 DEF Alone
  <2>7. QED BY <1>2, <1>3, <1>4, <1>5, <2>1, <2>2, <2>3, <2>4, <2>5, <2>6 DEF RunInv, Equipped
<1>12. ASSUME NEW q \in Record \ {r} PROVE RunInv(q)'
  <2>1. RunInv(q)
    BY DEF CredInv
  <2>2. minted' \in [Domain -> Nat] /\ \A d \in Domain : minted[d] <= minted'[d]
    BY <1>2, <1>4 DEF CredShape
  <2>3. QED BY <1>2, <1>4, <1>5, <2>1, <2>2, OthersKeep
<1>13. QED BY <1>2, <1>10, <1>11, <1>12 DEF CredInv

(* A run that goes on, or fails, with its environment as it is.            *)
LEMMA QuietKeeps ==
  ASSUME CredInv, MintInv, CopiesShape, NEW r \in Record,
         UNCHANGED <<scenario, published, declared, copies, descriptor, now, stored, minted,
                     block, env, begun>>,
         DOMAIN todo' = Record, \A q \in Record \ {r} : todo'[q] = todo[q],
         todo'[r] = {} \/ todo'[r] = todo[r],
         \A q \in Record \ {r} : minting'[q] = minting[q] /\ pc'[q] = pc[q],
         minting' \in [Record -> [n : Nat, exp : Nat]], minting'[r] = Credentials!NoToken,
         tokens' = tokens \/ minting[r] # Credentials!NoToken,
         tokens' \in [Domain -> [n : Nat, exp : Nat]],
         \A d \in Domain : tokens'[d].n <= minted[d],
         \/ ~Knows(r)'
         \/ /\ pc[r] = "resolving" /\ todo[r] = {} /\ Credentials!Unread(r) = {}
            /\ pc'[r] = "equipped"
  PROVE  CredInv'
<1>1. CredShape
  BY DEF CredInv
<1>2. CredShape'
  <2>1. \A q \in Record : todo'[q] \subseteq Credentials!Places(block[q])
    BY <1>1 DEF CredShape
  <2>2. Credentials!Bundles' = Credentials!Bundles
    BY DEF Credentials!Bundles
  <2>3. QED BY <1>1, <2>1, <2>2 DEF CredShape
<1>3. RunInv(r)'
  <2>1. /\ DOMAIN block'[r] \subseteq Projects(r)'
        /\ begun'[r].steady => \A p \in DOMAIN block'[r] : block'[r][p] = declared'[p]
    BY DEF CredInv, RunInv, Projects
  <2>2. CASE ~Knows(r)'
    BY <2>1, <2>2 DEF RunInv, Knows, Equipped
  <2>3. CASE /\ pc[r] = "resolving" /\ todo[r] = {} /\ Credentials!Unread(r) = {}
             /\ pc'[r] = "equipped"
    <3>1. Resolves(block[r], env[r], Done(r))
      BY <2>3 DEF CredInv, RunInv, Knows
    <3>2. todo'[r] = {} /\ Done(r)' = Done(r)
      BY <2>3 DEF Done
    <3>3. Resolves(block'[r], env'[r], Done(r)')
      BY <3>1, <3>2
    <3>4. Projects(r)' \subseteq DOMAIN block'[r]
      BY <2>3 DEF Projects, Credentials!Unread
    <3>5. QED BY <2>1, <2>3, <3>2, <3>3, <3>4 DEF RunInv
  <2>4. QED BY <2>2, <2>3
<1>4. ASSUME NEW q \in Record \ {r} PROVE RunInv(q)'
  <2>1. RunInv(q)
    BY DEF CredInv
  <2>2. minted' \in [Domain -> Nat] /\ \A d \in Domain : minted[d] <= minted'[d]
    BY <1>1 DEF CredShape
  <2>3. \A p \in Record \ {q} : minting'[p] \in {minting[p], Credentials!NoToken}
    OBVIOUS
  <2>4. tokens' = tokens \/ \E p \in Record \ {q} : minting[p] # Credentials!NoToken
    OBVIOUS
  <2>5. QED BY <1>1, <2>1, <2>2, <2>3, <2>4, OthersKeep
<1>5. QED BY <1>2, <1>3, <1>4 DEF CredInv

(* A conflict between a value and the environment, as ConflictsAreReal has *)
(* it.                                                                     *)
Conflicting(r) ==
  \/ /\ Credentials!Disagree(block[r])
     /\ begun[r].steady => Credentials!Disagree([p \in DOMAIN block[r] |-> declared[p]])
  \/ now # begun[r].at
  \/ ~begun[r].alone

(* The values the next entry gives contradict what a run has only in       *)
(* another source, or in another token.                                    *)
LEMMA TakeConflicts ==
  ASSUME CredInv, NEW r \in Record, todo[r] # {}, Resolves(block[r], env[r], Done(r)),
         NEW n \in Nat, NEW got, got = Credentials!Values(r, n),
         NEW v, v \in DOMAIN got, v \in DOMAIN env[r], env[r][v] # got[v],
         begun[r].alone /\ begun[r].at = now =>
           (env[r][v].of \in Domain /\ got[v].of = env[r][v].of => got[v].n = env[r][v].n)
  PROVE  Conflicting(r)
<1> SUFFICES ASSUME begun[r].alone, begun[r].at = now PROVE Conflicting(r)
  BY DEF Conflicting
<1> PICK b, x : b = block[r] /\ x = Credentials!NextPlace(r)
  OBVIOUS
<1> PICK item : item = Credentials!Item(b, x)
  OBVIOUS
<1>1. /\ Blocks(b) /\ env[r] \in [DOMAIN env[r] -> Credentials!Value]
      /\ RunInv(r) /\ CredShape
  BY DEF CredInv, CredShape
<1>2. /\ x \in todo[r] /\ x \in Credentials!Places(b) /\ item \in Credentials!Raw
      /\ v \in Credentials!envNamesOf(item)
      /\ got[v] \in Credentials!Value /\ got[v].of = Credentials!Source(b, x, v)
      /\ got[v].n = IF v = item.env THEN n ELSE 0
  BY <1>1, ValuesAre
<1>3. PICK y \in Done(r) : v \in Credentials!envNamesOf(Credentials!Item(b, y))
  BY DEF Resolves
<1>4. /\ y \in Credentials!Places(b) /\ y # x
      /\ env[r][v].of = Credentials!Source(b, y, v)
  BY <1>2, <1>3 DEF Done, Resolves, Filled
<1>5. env[r][v] \in Credentials!Value
  BY <1>1
<1>6. Credentials!Source(b, x, v) # Credentials!Source(b, y, v)
  <2> SUFFICES ASSUME got[v].of = env[r][v].of PROVE FALSE
    BY <1>2, <1>4
  <2>1. got[v].n # env[r][v].n
    <3>1. \A a \in Credentials!Value : a = [of |-> a.of, n |-> a.n]
      BY DEF Credentials!Value
    <3>2. QED BY <1>2, <1>5, <3>1
  <2> PICK other : other = Credentials!Item(b, y)
    OBVIOUS
  <2>a. /\ v = item.env =>
             got[v].of = IF item.provider = "ssm" THEN x.project ELSE item.domain
        /\ v # item.env => got[v].of \in Repository
    BY <1>1, <1>2, SourcesAre
  <2>b. /\ v = other.env =>
             env[r][v].of = IF other.provider = "ssm" THEN y.project ELSE other.domain
        /\ v # other.env => env[r][v].of \in Repository
    BY <1>1, <1>3, <1>4, SourcesAre
  <2>2. /\ v = item.env => got[v].of \in {x.project, item.domain}
        /\ v # item.env => got[v].of \in Repository
        /\ v = other.env => env[r][v].of \in {y.project, other.domain}
        /\ v # other.env => env[r][v].of \in Repository
    BY <2>a, <2>b
  <2>3. x.project \in Project /\ y.project \in Project /\ other \in Credentials!Raw
    BY <1>1, <1>2, <1>4, PlacesAre
  <2>4. item.domain \in Domain /\ other.domain \in Domain
    BY <1>2, <2>3 DEF Credentials!Raw
  <2>5. Domain \cap Project = {} /\ Repository \cap (Domain \cup Project) = {}
    BY ContainerAssumption
  <2>6. CASE got[v].of \in Repository
    <3>1. v # item.env
      BY <2>2, <2>3, <2>4, <2>5, <2>6
    <3>2. got[v].n = 0
      BY <1>2, <3>1
    <3>3. env[r][v].n = 0
      BY <1>5, <2>5, <2>6 DEF Credentials!Value
    <3>4. QED BY <2>1, <3>2, <3>3
  <2>7. CASE got[v].of \in Project
    <3>1. got[v].of = x.project /\ env[r][v].of = y.project
      BY <2>2, <2>4, <2>5, <2>7
    <3>2. QED BY <1>1, <1>2, <1>3, <1>4, <3>1, OneEntryPerName
  <2>8. CASE got[v].of \in Domain
    BY <2>1, <2>8
  <2>9. got[v].of \in Domain \cup Project \cup Repository
    BY <1>2 DEF Credentials!Value
  <2>10. QED BY <2>6, <2>7, <2>8, <2>9
<1>7. Credentials!Disagree(b)
  BY <1>2, <1>3, <1>4, <1>6 DEF Credentials!Disagree
<1>8. ASSUME begun[r].steady PROVE [p \in DOMAIN b |-> declared[p]] = b
  <2>1. \A p \in DOMAIN b : b[p] = declared[p]
    BY <1>1, <1>8 DEF RunInv
  <2>2. b \in [DOMAIN b -> Seq(Credentials!Raw)]
    BY <1>1 DEF Blocks
  <2>3. QED BY <2>1, <2>2
<1>9. QED BY <1>7, <1>8 DEF Conflicting

(* What r has of a domain, and what it takes, is the domain's token.       *)
Backed(r, got) ==
  begun[r].alone /\ begun[r].at = now =>
    /\ \A e \in DOMAIN env[r] : env[r][e].of \in Domain =>
         /\ tokens'[env[r][e].of].exp > now
         /\ env[r][e].n = tokens'[env[r][e].of].n
    /\ \A v \in DOMAIN got : got[v].of \in Domain =>
         tokens'[got[v].of].exp > now /\ got[v].n = tokens'[got[v].of].n

(* What the values of the next entry do to a run.                          *)
LEMMA TakeKeeps ==
  ASSUME CredInv, MintInv, CopiesShape, NEW r \in Record,
         pc[r] = "resolving", todo[r] # {}, NEW n \in Nat, Credentials!Take(r, n),
         UNCHANGED <<scenario, published, declared, copies, descriptor, now, stored, minted,
                     block, begun>>,
         minting' = [minting EXCEPT ![r] = Credentials!NoToken],
         tokens' = tokens \/ minting[r] # Credentials!NoToken,
         tokens' \in [Domain -> [n : Nat, exp : Nat]],
         \A d \in Domain : tokens'[d].n <= minted[d],
         Backed(r, Credentials!Values(r, n))
  PROVE  CredInv' /\ (pc'[r] = "conflict" => Conflicting(r))
<1> PICK got : got = Credentials!Values(r, n)
  OBVIOUS
<1>1. CredShape /\ pc \in [Record -> Progress] /\ RunInv(r)
  BY DEF CredInv, CopiesShape
<1>2. Resolves(block[r], env[r], Done(r))
  BY <1>1 DEF RunInv, Knows
<1>a. Taken(r, got) /\ Backed(r, got)
  BY <1>1, <1>2, TakeResult
<1>3. /\ DOMAIN env' = Record /\ DOMAIN todo' = Record
      /\ \A q \in Record \ {r} : env'[q] = env[q] /\ todo'[q] = todo[q]
      /\ DOMAIN env'[r] \subseteq Env /\ env'[r] \in [DOMAIN env'[r] -> Credentials!Value]
      /\ todo'[r] \subseteq todo[r]
      /\ \/ /\ pc' = pc
            /\ Resolves(block[r], env'[r], Credentials!Places(block[r]) \ todo'[r])
            /\ \A e \in DOMAIN env'[r] :
                 \/ e \in DOMAIN got /\ env'[r][e] = got[e]
                 \/ e \in DOMAIN env[r] /\ env'[r][e] = env[r][e]
         \/ /\ pc' = [pc EXCEPT ![r] = "conflict"]
            /\ \E v \in DOMAIN got \cap DOMAIN env[r] : env[r][v] # got[v]
  BY <1>a DEF Taken
<1>b. begun[r].alone /\ begun[r].at = now =>
        /\ \A e \in DOMAIN env[r] : env[r][e].of \in Domain =>
             /\ tokens'[env[r][e].of].exp > now
             /\ env[r][e].n = tokens'[env[r][e].of].n
        /\ \A v \in DOMAIN got : got[v].of \in Domain =>
             tokens'[got[v].of].exp > now /\ got[v].n = tokens'[got[v].of].n
  BY <1>a DEF Backed
<1>4. /\ minting' \in [Record -> [n : Nat, exp : Nat]] /\ minting'[r] = Credentials!NoToken
      /\ \A q \in Record \ {r} : minting'[q] = minting[q]
  <2>1. Credentials!NoToken \in [n : Nat, exp : Nat]
    BY DEF Credentials!NoToken
  <2>2. QED BY <1>1, <2>1 DEF CredShape
<1>5. \A q \in Record \ {r} : pc'[q] = pc[q]
  BY <1>1, <1>3
<1>6. CredShape'
  <2>1. \A q \in Record :
          /\ DOMAIN env'[q] \subseteq Env
          /\ env'[q] \in [DOMAIN env'[q] -> Credentials!Value]
          /\ todo'[q] \subseteq Credentials!Places(block[q])
    BY <1>1, <1>3 DEF CredShape
  <2>2. Credentials!Bundles' = Credentials!Bundles
    BY DEF Credentials!Bundles
  <2>3. QED BY <1>1, <1>3, <1>4, <2>1, <2>2 DEF CredShape
<1>7. /\ DOMAIN block'[r] \subseteq Projects(r)'
      /\ begun'[r].steady => \A p \in DOMAIN block'[r] : block'[r][p] = declared'[p]
  BY <1>1 DEF RunInv, Projects
<1>8. ASSUME pc' = [pc EXCEPT ![r] = "conflict"],
             \E v \in DOMAIN got \cap DOMAIN env[r] : env[r][v] # got[v]
      PROVE  RunInv(r)' /\ Conflicting(r)
  <2>1. pc'[r] = "conflict"
    BY <1>1, <1>8
  <2>2. RunInv(r)'
    BY <1>4, <1>7, <2>1 DEF RunInv, Knows, Equipped
  <2>3. PICK v \in DOMAIN got : v \in DOMAIN env[r] /\ env[r][v] # got[v]
    BY <1>8
  <2>4. begun[r].alone /\ begun[r].at = now =>
          (env[r][v].of \in Domain /\ got[v].of = env[r][v].of => got[v].n = env[r][v].n)
    BY <1>b, <2>3
  <2>5. QED BY <1>2, <2>2, <2>3, <2>4, TakeConflicts
<1>9. ASSUME pc' = pc,
             Resolves(block[r], env'[r], Credentials!Places(block[r]) \ todo'[r]),
             \A e \in DOMAIN env'[r] :
               \/ e \in DOMAIN got /\ env'[r][e] = got[e]
               \/ e \in DOMAIN env[r] /\ env'[r][e] = env[r][e]
      PROVE  RunInv(r)' /\ pc'[r] = "resolving"
  <2>1. ASSUME begun[r].alone, begun[r].at = now PROVE Alone(r)'
    <3>1. Alone(r)
      BY <1>1, <2>1 DEF RunInv
    <3>2. \A q \in Record \ {r} : minting'[q] = Credentials!NoToken
      BY <1>4, <3>1 DEF Alone
    <3>3. \A e \in DOMAIN env'[r] : env'[r][e].of \in Domain =>
            /\ tokens'[env'[r][e].of].exp > now
            /\ env'[r][e].n = tokens'[env'[r][e].of].n
      BY <1>9, <1>b, <2>1
    <3>4. QED BY <1>4, <3>2, <3>3 DEF Alone
  <2>2. Done(r)' = Credentials!Places(block[r]) \ todo'[r]
    BY DEF Done
  <2>3. Resolves(block'[r], env'[r], Done(r)')
    BY <1>9, <2>2
  <2>4. QED BY <1>4, <1>7, <1>9, <2>1, <2>3 DEF RunInv, Equipped
<1>10. RunInv(r)' /\ (pc'[r] = "conflict" => Conflicting(r))
  BY <1>3, <1>8, <1>9
<1>11. ASSUME NEW q \in Record \ {r} PROVE RunInv(q)'
  <2>1. RunInv(q)
    BY DEF CredInv
  <2>2. minted' \in [Domain -> Nat] /\ \A d \in Domain : minted[d] <= minted'[d]
    BY <1>1 DEF CredShape
  <2>3. \A p \in Record \ {q} : minting'[p] \in {minting[p], Credentials!NoToken}
    BY <1>4
  <2>4. \/ tokens' = tokens
        \/ \E p \in Record \ {q} : minting[p] # Credentials!NoToken
    OBVIOUS
  <2>5. /\ pc'[q] = pc[q] /\ env'[q] = env[q] /\ todo'[q] = todo[q]
        /\ minting'[q] = minting[q] /\ begun'[q] = begun[q] /\ block'[q] = block[q]
    BY <1>3, <1>4, <1>5
  <2>6. QED BY <1>1, <2>1, <2>2, <2>3, <2>4, <2>5, OthersKeep
<1>12. QED BY <1>6, <1>10, <1>11 DEF CredInv

(* The resolution's steps that take values.                                *)
LEMMA ValuesKeep ==
  ASSUME CredInv, MintInv, CopiesShape, NEW r \in Record,
         UNCHANGED <<scenario, published, declared, copies, descriptor, now>>,
         Credentials!ReadSsm(r) \/ Credentials!UseToken(r) \/ Credentials!Minted(r)
  PROVE  CredInv' /\ (pc'[r] = "conflict" => Conflicting(r))
<1> PICK x, item : x = Credentials!NextPlace(r) /\ item = Credentials!NextItem(r)
  OBVIOUS
<1> PICK d : d = item.domain
  OBVIOUS
<1>1. /\ CredShape /\ RunInv(r) /\ Blocks(block[r])
      /\ minting \in [Record -> [n : Nat, exp : Nat]]
  BY DEF CredInv, CredShape
<1>2. pc[r] = "resolving" /\ todo[r] # {}
  BY DEF Credentials!ReadSsm, Credentials!UseToken, Credentials!Resolving, Credentials!Minted,
         MintInv
<1>3. /\ x \in Credentials!Places(block[r]) /\ item = Credentials!Item(block[r], x)
      /\ item \in Credentials!Raw /\ d \in Domain /\ x.project \in Project
  BY <1>1, <1>2, ValuesAre
<1>4. begun[r].alone /\ begun[r].at = now => Alone(r)
  BY <1>1, <1>2 DEF RunInv
<1>5. Domain \cap Project = {} /\ Repository \cap (Domain \cup Project) = {}
  BY ContainerAssumption
<1>6. ASSUME NEW n \in Nat, NEW v \in DOMAIN Credentials!Values(r, n),
             Credentials!Values(r, n)[v].of \in Domain
      PROVE  /\ item.provider # "ssm" /\ Credentials!Values(r, n)[v].of = d
             /\ Credentials!Values(r, n)[v].n = n
  <2>1. /\ v \in Credentials!envNamesOf(item)
        /\ Credentials!Values(r, n)[v].of = Credentials!Source(block[r], x, v)
        /\ Credentials!Values(r, n)[v].n = IF v = item.env THEN n ELSE 0
    BY <1>1, <1>2, ValuesAre
  <2>2. /\ v = item.env => Credentials!Source(block[r], x, v) =
                             IF item.provider = "ssm" THEN x.project ELSE item.domain
        /\ v # item.env => Credentials!Source(block[r], x, v) \in Repository
    BY <1>1, <1>3, <2>1, SourcesAre
  <2>3. QED BY <1>3, <1>5, <1>6, <2>1, <2>2
<1>7. CASE Credentials!ReadSsm(r)
  <2> PICK n : n = stored[x.project]
    OBVIOUS
  <2>1. /\ item.provider = "ssm" /\ Credentials!Take(r, n)
        /\ minting[r] = Credentials!NoToken
        /\ UNCHANGED <<stored, tokens, minted, block, minting, begun>>
    BY <1>7 DEF Credentials!ReadSsm, Credentials!Resolving
  <2>2. n \in Nat
    BY <1>1, <1>3 DEF CredShape
  <2>3. minting' = [minting EXCEPT ![r] = Credentials!NoToken]
    BY <1>1, <2>1
  <2>4. tokens' \in [Domain -> [n : Nat, exp : Nat]] /\ \A c \in Domain : tokens'[c].n <= minted[c]
    BY <2>1 DEF CredInv, CredShape
  <2> PICK got : got = Credentials!Values(r, n)
    OBVIOUS
  <2>5. \A v \in DOMAIN got : got[v].of \notin Domain
    BY <1>6, <2>1, <2>2
  <2>6. ASSUME begun[r].alone, begun[r].at = now
        PROVE  \A e \in DOMAIN env[r] : env[r][e].of \in Domain =>
                 /\ tokens'[env[r][e].of].exp > now
                 /\ env[r][e].n = tokens'[env[r][e].of].n
    <3>1. Alone(r)
      BY <1>4, <2>6
    <3>2. tokens' = tokens
      BY <2>1
    <3>3. QED BY <3>1, <3>2 DEF Alone
  <2>7. Backed(r, got)
    BY <2>5, <2>6 DEF Backed
  <2>8. QED BY <1>2, <2>1, <2>2, <2>3, <2>4, <2>7, TakeKeeps
<1>8. CASE Credentials!UseToken(r)
  <2> PICK n : n = tokens[d].n
    OBVIOUS
  <2>1. /\ Credentials!Take(r, n) /\ tokens[d].exp > now /\ minting[r] = Credentials!NoToken
        /\ UNCHANGED <<stored, tokens, minted, block, minting, begun>>
    BY <1>8 DEF Credentials!UseToken, Credentials!Resolving
  <2>2. n \in Nat
    BY <1>1, <1>3 DEF CredShape
  <2>3. minting' = [minting EXCEPT ![r] = Credentials!NoToken]
    BY <1>1, <2>1
  <2>4. tokens' \in [Domain -> [n : Nat, exp : Nat]] /\ \A c \in Domain : tokens'[c].n <= minted[c]
    BY <2>1 DEF CredInv, CredShape
  <2> PICK got : got = Credentials!Values(r, n)
    OBVIOUS
  <2>5. \A v \in DOMAIN got : got[v].of \in Domain =>
          tokens'[got[v].of].exp > now /\ got[v].n = tokens'[got[v].of].n
    BY <1>6, <2>1, <2>2
  <2>6. ASSUME begun[r].alone, begun[r].at = now
        PROVE  \A e \in DOMAIN env[r] : env[r][e].of \in Domain =>
                 /\ tokens'[env[r][e].of].exp > now
                 /\ env[r][e].n = tokens'[env[r][e].of].n
    <3>1. Alone(r)
      BY <1>4, <2>6
    <3>2. QED BY <2>1, <3>1 DEF Alone
  <2>7. Backed(r, got)
    BY <2>5, <2>6 DEF Backed
  <2>8. QED BY <1>2, <2>1, <2>2, <2>3, <2>4, <2>7, TakeKeeps
<1>9. CASE Credentials!Minted(r)
  <2> PICK n : n = minting[r].n
    OBVIOUS
  <2>1. /\ minting[r] # Credentials!NoToken /\ Credentials!Take(r, n)
        /\ tokens' = [tokens EXCEPT ![d] = minting[r]]
        /\ minting' = [minting EXCEPT ![r] = Credentials!NoToken]
        /\ UNCHANGED <<stored, minted, block, begun>>
    BY <1>9 DEF Credentials!Minted
  <2>2. n <= minted[d] /\ minting[r] \in [n : Nat, exp : Nat] /\ n \in Nat
    BY <1>1, <2>1 DEF RunInv, OnItsWay
  <2>3. /\ tokens' \in [Domain -> [n : Nat, exp : Nat]] /\ tokens'[d] = minting[r]
        /\ \A c \in Domain : c # d => tokens'[c] = tokens[c]
    BY <1>1, <1>3, <2>1, <2>2 DEF CredShape
  <2>4. \A c \in Domain : tokens'[c].n <= minted[c]
    BY <2>2, <2>3 DEF CredInv
  <2> PICK got : got = Credentials!Values(r, n)
    OBVIOUS
  <2>5. ASSUME begun[r].alone, begun[r].at = now
        PROVE  /\ \A e \in DOMAIN env[r] : env[r][e].of \in Domain =>
                    /\ tokens'[env[r][e].of].exp > now
                    /\ env[r][e].n = tokens'[env[r][e].of].n
               /\ \A v \in DOMAIN got : got[v].of \in Domain =>
                    tokens'[got[v].of].exp > now /\ got[v].n = tokens'[got[v].of].n
    <3>1. Alone(r)
      BY <1>4, <2>5
    <3>2. tokens[d].exp <= now /\ minting[r].exp > now
      BY <2>1, <3>1 DEF Alone
    <3>3. tokens[d].exp \in Nat /\ now \in Nat
      BY <1>1, <1>3 DEF CredShape
    <3>4. ASSUME NEW e \in DOMAIN env[r], env[r][e].of \in Domain
          PROVE  /\ tokens'[env[r][e].of].exp > now
                 /\ env[r][e].n = tokens'[env[r][e].of].n
      <4>1. tokens[env[r][e].of].exp > now /\ env[r][e].n = tokens[env[r][e].of].n
        BY <3>1, <3>4 DEF Alone
      <4>2. env[r][e].of # d
        BY <3>2, <3>3, <4>1
      <4>3. QED BY <2>3, <3>4, <4>1, <4>2
    <3>5. \A v \in DOMAIN got : got[v].of \in Domain =>
            tokens'[got[v].of].exp > now /\ got[v].n = tokens'[got[v].of].n
      BY <1>6, <2>2, <2>3, <3>2
    <3>6. QED BY <3>4, <3>5
  <2>6. Backed(r, got)
    BY <2>5 DEF Backed
  <2>7. QED BY <1>2, <2>1, <2>2, <2>3, <2>4, <2>6, TakeKeeps
<1>10. QED BY <1>7, <1>8, <1>9

(* A token that is sent for.                                               *)
LEMMA MintKeeps ==
  ASSUME CredInv, MintInv, CopiesShape, NEW r \in Record, Credentials!Mint(r),
         UNCHANGED <<scenario, published, declared, copies, descriptor, now>>
  PROVE  CredInv'
<1> PICK d : d = Credentials!NextItem(r).domain
  OBVIOUS
<1>1. CredShape /\ RunInv(r)
  BY DEF CredInv
<1>2. /\ pc[r] = "resolving" /\ todo[r] # {}
      /\ Credentials!NextItem(r).provider = "codeartifact" /\ tokens[d].exp <= now
      /\ minted' = [minted EXCEPT ![d] = minted[d] + 1]
      /\ minting' = [minting EXCEPT ![r] = [n |-> minted[d] + 1, exp |-> now + TokenLife]]
      /\ begun' = [q \in Record |->
           IF q = r THEN begun[q] ELSE [begun[q] EXCEPT !.alone = FALSE]]
      /\ UNCHANGED <<pc, stored, tokens, block, env, todo>>
  BY DEF Credentials!Mint, Credentials!Resolving
<1>3. d \in Domain
  BY <1>1, <1>2, ValuesAre
<1>4. /\ minted[d] \in Nat /\ now \in Nat /\ TokenLife \in Nat /\ TokenLife > 0
      /\ minted \in [Domain -> Nat]
  BY <1>1, <1>3, ContainerAssumption DEF CredShape
<1>5. /\ minted' \in [Domain -> Nat] /\ minted'[d] = minted[d] + 1
      /\ \A c \in Domain : c # d => minted'[c] = minted[c]
  BY <1>2, <1>3, <1>4
<1>6. \A c \in Domain : minted[c] <= minted'[c]
  BY <1>4, <1>5
<1>7. /\ minting' \in [Record -> [n : Nat, exp : Nat]]
      /\ minting'[r] = [n |-> minted[d] + 1, exp |-> now + TokenLife]
      /\ \A q \in Record : q # r => minting'[q] = minting[q]
  <2>1. minting \in [Record -> [n : Nat, exp : Nat]]
    BY <1>1 DEF CredShape
  <2>2. [n |-> minted[d] + 1, exp |-> now + TokenLife] \in [n : Nat, exp : Nat]
    BY <1>4
  <2> PICK token : token = [n |-> minted[d] + 1, exp |-> now + TokenLife]
    OBVIOUS
  <2>3. minting' = [minting EXCEPT ![r] = token] /\ token \in [n : Nat, exp : Nat]
    BY <1>2, <2>2
  <2>4. QED BY <2>1, <2>3
<1>8. /\ begun' \in [Record -> [at : Nat, alone : BOOLEAN, steady : BOOLEAN]]
      /\ \A q \in Record : begun'[q].at = begun[q].at /\ begun'[q].steady = begun[q].steady
      /\ begun'[r] = begun[r]
      /\ \A q \in Record : q # r => ~begun'[q].alone
  BY <1>1, <1>2 DEF CredShape
<1>9. CredShape'
  <2>1. Credentials!Bundles' = Credentials!Bundles
    BY DEF Credentials!Bundles
  <2>2. \A q \in Record : begun'[q].at <= now'
    BY <1>1, <1>8 DEF CredShape
  <2>3. /\ stored' = stored /\ tokens' = tokens /\ block' = block /\ env' = env
        /\ todo' = todo /\ now' = now
    BY <1>2
  <2>4. QED BY <1>1, <1>5, <1>7, <1>8, <2>1, <2>2, <2>3 DEF CredShape
<1>10. \A c \in Domain : tokens'[c].n <= minted'[c]
  <2>1. \A c \in Domain : tokens[c].n <= minted[c] /\ tokens[c].n \in Nat /\ minted[c] \in Nat
    BY <1>1 DEF CredInv, CredShape
  <2>2. QED BY <1>2, <1>5, <1>6, <2>1
<1>11. Credentials!NextItem(r)' = Credentials!NextItem(r)
  BY <1>2 DEF Credentials!NextItem, Credentials!NextPlace
<1>12. RunInv(r)'
  <2>1. OnItsWay(r)'
    BY <1>2, <1>3, <1>4, <1>5, <1>7, <1>11 DEF OnItsWay
  <2>2. Resolves(block'[r], env'[r], Done(r)')
    <3>1. Resolves(block[r], env[r], Done(r))
      BY <1>1, <1>2 DEF RunInv, Knows
    <3>2. Done(r)' = Done(r)
      BY <1>2 DEF Done
    <3>3. QED BY <1>2, <3>1, <3>2
  <2>3. ASSUME begun[r].alone, begun[r].at = now PROVE Alone(r)'
    <3>1. Alone(r)
      BY <1>1, <1>2, <2>3 DEF RunInv
    <3>2. minting'[r].exp > now
      BY <1>4, <1>7
    <3>3. QED BY <1>2, <1>7, <1>11, <3>1, <3>2 DEF Alone
  <2>4. /\ DOMAIN block'[r] \subseteq Projects(r)'
        /\ begun'[r].steady => \A p \in DOMAIN block'[r] : block'[r][p] = declared'[p]
    BY <1>1, <1>2, <1>8 DEF RunInv, Projects
  <2>5. pc'[r] = "resolving"
    BY <1>2
  <2>6. QED BY <1>8, <2>1, <2>2, <2>3, <2>4, <2>5 DEF RunInv, Equipped
<1>13. ASSUME NEW q \in Record \ {r} PROVE RunInv(q)'
  <2>1. RunInv(q)
    BY DEF CredInv
  <2>2. /\ pc'[q] = pc[q] /\ block'[q] = block[q] /\ env'[q] = env[q] /\ todo'[q] = todo[q]
        /\ minting'[q] = minting[q] /\ begun'[q].at = begun[q].at
        /\ begun'[q].steady = begun[q].steady /\ ~begun'[q].alone
    BY <1>2, <1>7, <1>8
  <2>3. QED BY <1>1, <1>5, <1>6, <2>1, <2>2, OthersKeep
<1>14. QED BY <1>9, <1>10, <1>12, <1>13 DEF CredInv

(* A step of a run's resolution.                                           *)
LEMMA CredentialsKeep ==
  ASSUME CredInv, MintInv, CopiesShape, NEW r \in Record, CredentialsStep(r)
  PROVE  CredInv' /\ Credentials!ConflictsAreRealStep
<1>1. UNCHANGED <<scenario, published, declared, copies, descriptor, now>>
  BY DEF CredentialsStep, deployVars
<1>2. pc \in [Record -> Progress] /\ CredShape
  BY DEF CopiesShape, CredInv
<1>3. /\ \A q \in Record \ {r} : pc'[q] = pc[q]
      /\ pc'[r] = "conflict" => Conflicting(r) \/ pc[r] = "conflict"
      /\ CredInv'
  <2>1. CASE Credentials!ReadSsm(r) \/ Credentials!UseToken(r) \/ Credentials!Minted(r)
    <3>1. CredInv' /\ (pc'[r] = "conflict" => Conflicting(r))
      BY <1>1, <2>1, ValuesKeep
    <3>2. \A q \in Record \ {r} : pc'[q] = pc[q]
      BY <1>2, <2>1 DEF Credentials!ReadSsm, Credentials!UseToken, Credentials!Minted,
                        Credentials!Take
    <3>3. QED BY <3>1, <3>2
  <2>2. CASE Credentials!Begin(r)
    <3>1. CredInv'
      BY <1>1, <2>2, BeginKeeps
    <3>2. pc' = [pc EXCEPT ![r] = "resolving"]
      BY <2>2 DEF Credentials!Begin
    <3>3. QED BY <1>2, <3>1, <3>2
  <2>3. CASE Credentials!ReadBlock(r)
    <3>1. CredInv'
      BY <1>1, <2>3, ReadBlockKeeps
    <3>2. pc' = pc
      BY <2>3 DEF Credentials!ReadBlock
    <3>3. QED BY <3>1, <3>2
  <2>4. CASE Credentials!Mint(r)
    <3>1. CredInv'
      BY <1>1, <2>4, MintKeeps
    <3>2. pc' = pc
      BY <2>4 DEF Credentials!Mint
    <3>3. QED BY <3>1, <3>2
  <2>5. CASE Unequipped(r) \/ Credentials!RefuseBlock(r) \/ Credentials!Resolved(r)
             \/ Credentials!ResolveFails(r)
    <3>1. /\ UNCHANGED <<stored, minted, block, env, begun>>
          /\ \/ tokens' = tokens
             \/ /\ minting[r] # Credentials!NoToken
                /\ tokens' = [tokens EXCEPT ![Credentials!NextItem(r).domain] = minting[r]]
          /\ todo' = todo \/ todo' = [todo EXCEPT ![r] = {}]
          /\ \/ minting' = minting /\ minting[r] = Credentials!NoToken
             \/ minting' = [minting EXCEPT ![r] = Credentials!NoToken]
          /\ \/ pc' = [pc EXCEPT ![r] = "failed"]
             \/ /\ pc[r] = "resolving" /\ todo[r] = {} /\ Credentials!Unread(r) = {}
                /\ pc' = [pc EXCEPT ![r] = "equipped"]
             \/ pc' = [pc EXCEPT ![r] = "equipped"] /\ ~resolverWired(descriptor)
      BY <2>5 DEF Unequipped, Credentials!RefuseBlock, Credentials!ComesTo, Credentials!Resolved,
                  Credentials!Resolving, Credentials!ResolveFails, MintInv, credVars
    <3>2. /\ DOMAIN todo' = Record /\ \A q \in Record \ {r} : todo'[q] = todo[q]
          /\ todo'[r] = {} \/ todo'[r] = todo[r]
      BY <1>2, <3>1 DEF CredShape
    <3>3. Credentials!NoToken \in [n : Nat, exp : Nat]
      BY DEF Credentials!NoToken
    <3>4. /\ minting' \in [Record -> [n : Nat, exp : Nat]]
          /\ minting'[r] = Credentials!NoToken
          /\ \A q \in Record \ {r} : minting'[q] = minting[q]
      <4>1. minting \in [Record -> [n : Nat, exp : Nat]]
        BY <1>2 DEF CredShape
      <4> PICK none : none = Credentials!NoToken
        OBVIOUS
      <4>2. /\ none \in [n : Nat, exp : Nat]
            /\ \/ minting' = minting /\ minting[r] = none
               \/ minting' = [minting EXCEPT ![r] = none]
        BY <3>1, <3>3
      <4>3. QED BY <4>1, <4>2
    <3>5. /\ \A q \in Record \ {r} : pc'[q] = pc[q]
          /\ \/ pc'[r] = "failed"
             \/ /\ pc[r] = "resolving" /\ todo[r] = {} /\ Credentials!Unread(r) = {}
                /\ pc'[r] = "equipped"
             \/ pc'[r] = "equipped" /\ ~resolverWired(descriptor)
      BY <1>2, <3>1
    <3>6. \/ ~Knows(r)'
          \/ /\ pc[r] = "resolving" /\ todo[r] = {} /\ Credentials!Unread(r) = {}
             /\ pc'[r] = "equipped"
      BY <1>1, <3>5 DEF Knows, Equipped
    <3>7. /\ tokens' \in [Domain -> [n : Nat, exp : Nat]]
          /\ \A d \in Domain : tokens'[d].n <= minted[d]
      <4>1. /\ tokens \in [Domain -> [n : Nat, exp : Nat]]
            /\ \A d \in Domain : tokens[d].n <= minted[d]
        BY DEF CredInv, CredShape
      <4>2. ASSUME minting[r] # Credentials!NoToken, NEW d, d = Credentials!NextItem(r).domain,
                   tokens' = [tokens EXCEPT ![d] = minting[r]]
            PROVE  /\ tokens' \in [Domain -> [n : Nat, exp : Nat]]
                   /\ \A c \in Domain : tokens'[c].n <= minted[c]
        <5>1. OnItsWay(r) /\ todo[r] # {}
          BY <4>2 DEF CredInv, RunInv, MintInv
        <5>2. d \in Domain
          BY <1>2, <4>2, <5>1, ValuesAre
        <5>3. minting[r] \in [n : Nat, exp : Nat] /\ minting[r].n <= minted[d]
          BY <1>2, <4>2, <5>1 DEF CredShape, OnItsWay
        <5>4. QED BY <4>1, <4>2, <5>2, <5>3
      <4>3. QED BY <3>1, <4>1, <4>2
    <3>8. CredInv'
      BY <1>1, <3>1, <3>2, <3>4, <3>5, <3>6, <3>7, QuietKeeps
    <3>9. QED BY <3>5, <3>8
  <2>6. QED BY <2>1, <2>2, <2>3, <2>4, <2>5 DEF CredentialsStep
<1>4. QED BY <1>3 DEF Credentials!ConflictsAreRealStep, Conflicting

---------------------------------------------------------------------------
(* The staged skills *)

(* A coding agent runs while its record is at the skill, and what was      *)
(* staged stays until then.                                                *)
StagedInv ==
  /\ staged \subseteq Record /\ child \in [Record -> Runs!Child] /\ left \subseteq Record
  /\ \A r \in Record :
       /\ child[r] = "runs" => pc[r] = "skill"
       /\ pc[r] \in {"staged", "skill"} => r \in staged

(* A record that neither resolves nor runs a skill: it may leave what it   *)
(* is at, but not for a skill, an environment or a conflict.               *)
Passes(r) ==
  \/ pc'[r] = pc[r]
  \/ /\ pc[r] \notin {"staged", "skill"}
     /\ pc'[r] \notin Equipped \cup {"resolving", "conflict"}

(* Outside of the resolution, the skills, a kill and what loads a catalog, *)
(* every record passes and nothing that is served, staged or given changes.*)
LEMMA PassStep ==
  ASSUME CopiesShape, [Next]_vars,
         ~(\E r \in Record : CredentialsStep(r) \/ SkillStep(r)), ~Kill, ~Boot, ~Refresh
  PROVE  /\ UNCHANGED <<scenario, copies, descriptor, agent, message, credVars, staged, left>>
         /\ now' = now \/ now' = now + 1
         /\ \A q \in Record : Passes(q)
         /\ child' = child \/ \E batch \in SUBSET Record :
              child' = [r \in Record |-> IF r \in batch THEN "none" ELSE child[r]]
<1> USE DEF CopiesShape, Equipped, Passes
<1>1. CASE UNCHANGED vars
  BY <1>1 DEF vars, deployVars, skillVars
<1>2. CASE BootWithoutCatalog \/ Tick \/ World
  BY <1>2 DEF BootWithoutCatalog, Tick, World, deployVars, skillVars
<1>3. CASE Receive
  <2>1. /\ UNCHANGED <<scenario, copies, descriptor, agent, message, credVars, staged, left, now>>
        /\ \E batch \in SUBSET Record :
             child' = [r \in Record |-> IF r \in batch THEN "none" ELSE child[r]]
    BY <1>3 DEF Receive, deployVars
  <2>2. \A q \in Record : Passes(q)
    BY <1>3 DEF Receive
  <2>3. QED BY <2>1, <2>2
<1>4. ASSUME NEW r \in Record, KeyStep(r)
      PROVE  /\ UNCHANGED <<deployVars, credVars, skillVars, now>> /\ \A q \in Record : Passes(q)
  BY <1>4 DEF KeyStep, Keys!NeedsNoFetch, Keys!UseCached, Keys!Join, Keys!Fetch
<1>5. ASSUME NEW p \in Param, KeyAnswer(p)
      PROVE  /\ UNCHANGED <<deployVars, credVars, skillVars, now>> /\ \A q \in Record : Passes(q)
  BY <1>5 DEF KeyAnswer, Keys!Served, Keys!Fetched, Keys!FetchFails, Keys!Waiting
<1>6. ASSUME NEW r \in Record, SyncStep(r)
      PROVE  /\ UNCHANGED <<deployVars, credVars, skillVars, now>> /\ \A q \in Record : Passes(q)
  <2>1. /\ pc[r] = "sync"
        /\ pc' = pc \/ \E to \in {"failed", "credentials"} : pc' = [pc EXCEPT ![r] = to]
    BY <1>6, SyncMoves
  <2>2. UNCHANGED <<deployVars, credVars, skillVars, now>> BY <1>6 DEF SyncStep
  <2>3. QED BY <2>1, <2>2
<1>7. ASSUME NEW r \in Record, Work(r) \/ Redeliver(r)
      PROVE  /\ UNCHANGED <<deployVars, credVars, skillVars, now>> /\ \A q \in Record : Passes(q)
  BY <1>7 DEF Work, Redeliver, Settled
<1>8. QED
  BY <1>1, <1>2, <1>3, <1>4, <1>5, <1>6, <1>7 DEF Next, deployVars, skillVars

(* The secrets' versions are numbers, and what is published is a bundle,   *)
(* whatever happens.                                                       *)
LEMMA StoredStep ==
  ASSUME stored \in [Project -> Nat], published \in Credentials!Bundles, [Next]_vars
  PROVE  stored' \in [Project -> Nat] /\ published' \in Credentials!Bundles
<1>1. stored' = stored \/ \E p \in Project : Credentials!Store(p)
  BY DEF Next, Boot, BootWithoutCatalog, Refresh, Receive, Kill, Tick, World, KeyAnswer,
     KeyStep, SyncStep, CredentialsStep, Unequipped, Credentials!Begin, Credentials!ReadBlock,
     Credentials!RefuseBlock, Credentials!ReadSsm, Credentials!UseToken, Credentials!Mint,
     Credentials!Minted, Credentials!Resolved, Credentials!ResolveFails, SkillStep, Work,
     Redeliver, worldVars, vars
<1>2. published' = published \/ Credentials!Publish
  BY DEF Next, Boot, BootWithoutCatalog, Refresh, Receive, Kill, Tick, World, KeyAnswer,
     KeyStep, SyncStep, CredentialsStep, SkillStep, Work, Redeliver, worldVars, vars
<1>3. ASSUME NEW p \in Project, Credentials!Store(p) PROVE stored' \in [Project -> Nat]
  BY <1>3 DEF Credentials!Store
<1>4. Credentials!Publish => published' \in Credentials!Bundles
  BY DEF Credentials!Publish
<1>5. QED BY <1>1, <1>2, <1>3, <1>4

(* What a run knows while others, or its skill, go on.                     *)
LEMMA ElsewhereKeeps ==
  ASSUME CredInv, UNCHANGED <<scenario, copies, descriptor, credVars>>,
         stored' \in [Project -> Nat], published' \in Credentials!Bundles,
         now' = now \/ now' = now + 1,
         \A q \in Record :
           \/ pc'[q] = pc[q]
           \/ pc'[q] \notin Equipped \cup {"resolving"}
           \/ pc[q] \in Equipped /\ pc'[q] \in Equipped
  PROVE  CredInv'
<1>1. CredShape /\ now \in Nat /\ \A q \in Record : begun[q].at \in Nat /\ begun[q].at <= now
  BY DEF CredInv, CredShape
<1>2. UNCHANGED <<declared, tokens, minted, block, env, todo, minting, begun>>
  BY DEF credVars
<1>3. CredShape'
  <2>1. now' \in Nat /\ \A q \in Record : begun'[q].at <= now'
    BY <1>1, <1>2
  <2>2. Credentials!Bundles' = Credentials!Bundles
    BY DEF Credentials!Bundles
  <2>3. QED BY <1>1, <1>2, <2>1, <2>2 DEF CredShape
<1>4. ASSUME NEW q \in Record PROVE RunInv(q)'
  <2>1. RunInv(q)
    BY DEF CredInv
  <2>2. Credentials!NextItem(q)' = Credentials!NextItem(q)
    BY <1>2 DEF Credentials!NextItem, Credentials!NextPlace
  <2>3. Projects(q)' = Projects(q) /\ Done(q)' = Done(q)
    BY <1>2 DEF Projects, Done
  <2>4. minting'[q] # Credentials!NoToken => OnItsWay(q)'
    BY <1>2, <2>1, <2>2 DEF RunInv, OnItsWay
  <2>5. Knows(q)' => Knows(q)
    BY DEF Knows, Equipped
  <2>6. Knows(q)' => Resolves(block'[q], env'[q], Done(q)')
    BY <1>2, <2>1, <2>3, <2>5 DEF RunInv
  <2>7. /\ DOMAIN block'[q] \subseteq Projects(q)'
        /\ begun'[q].steady => \A p \in DOMAIN block'[q] : block'[q][p] = declared'[p]
        /\ resolverWired(descriptor)' /\ pc'[q] \in Equipped =>
             todo'[q] = {} /\ Projects(q)' \subseteq DOMAIN block'[q]
    BY <1>2, <2>1, <2>3 DEF RunInv, Equipped
  <2>8. ASSUME pc'[q] = "resolving", begun'[q].alone, begun'[q].at = now' PROVE Alone(q)'
    <3>1. now' = now
      BY <1>1, <1>2, <2>8
    <3>2. pc[q] = "resolving"
      BY <2>8 DEF Equipped
    <3>3. Alone(q)
      BY <1>2, <2>1, <2>8, <3>1, <3>2 DEF RunInv
    <3>4. QED BY <1>2, <2>2, <3>1, <3>3 DEF Alone
  <2>9. QED BY <2>4, <2>6, <2>7, <2>8 DEF RunInv
<1>5. QED BY <1>2, <1>3, <1>4 DEF CredInv

(* Another bundle is served: the runs keep the blocks they have read.      *)
LEMMA LoadKeeps ==
  ASSUME CredInv, Credentials!Load,
         UNCHANGED <<scenario, published, stored, copies, descriptor, now, pc, tokens, minted,
                     block, env, todo, minting>>
  PROVE  CredInv'
<1>1. CredShape /\ declared' = published
  BY DEF CredInv, Credentials!Load
<1>2. /\ begun' \in [Record -> [at : Nat, alone : BOOLEAN, steady : BOOLEAN]]
      /\ \A q \in Record :
           /\ begun'[q].at = begun[q].at /\ begun'[q].alone = begun[q].alone
           /\ begun'[q].steady => begun[q].steady /\ published = declared
  BY <1>1 DEF Credentials!Load, CredShape
<1>3. CredShape'
  <2>1. Credentials!Bundles' = Credentials!Bundles
    BY DEF Credentials!Bundles
  <2>2. declared' \in Credentials!Bundles /\ \A q \in Record : begun'[q].at <= now'
    BY <1>1, <1>2 DEF CredShape
  <2>3. QED BY <1>1, <1>2, <2>1, <2>2 DEF CredShape
<1>4. ASSUME NEW q \in Record PROVE RunInv(q)'
  <2>1. RunInv(q)
    BY DEF CredInv
  <2>2. Credentials!NextItem(q)' = Credentials!NextItem(q)
    BY DEF Credentials!NextItem, Credentials!NextPlace
  <2>3. Projects(q)' = Projects(q) /\ Done(q)' = Done(q)
    BY DEF Projects, Done
  <2>4. minting'[q] # Credentials!NoToken => OnItsWay(q)'
    BY <2>1, <2>2 DEF RunInv, OnItsWay
  <2>5. Knows(q)' => Resolves(block'[q], env'[q], Done(q)')
    BY <2>1, <2>3 DEF RunInv, Knows
  <2>6. /\ DOMAIN block'[q] \subseteq Projects(q)'
        /\ begun'[q].steady => \A p \in DOMAIN block'[q] : block'[q][p] = declared'[p]
        /\ resolverWired(descriptor)' /\ pc'[q] \in Equipped =>
             todo'[q] = {} /\ Projects(q)' \subseteq DOMAIN block'[q]
    BY <1>1, <1>2, <2>1, <2>3 DEF RunInv
  <2>7. ASSUME pc'[q] = "resolving", begun'[q].alone, begun'[q].at = now' PROVE Alone(q)'
    <3>1. Alone(q)
      BY <1>2, <2>1, <2>7 DEF RunInv
    <3>2. QED BY <2>2, <3>1 DEF Alone
  <2>8. QED BY <2>4, <2>5, <2>6, <2>7 DEF RunInv
<1>5. QED BY <1>3, <1>4 DEF CredInv

(* A kill leaves nothing of the runs.                                      *)
LEMMA KillForgets ==
  ASSUME CredInv, StagedInv, CopiesShape, Kill
  PROVE  CredInv' /\ StagedInv' /\ Credentials!ConflictsAreRealStep
<1>1. /\ pc' = [r \in Record |-> IF r \in Active THEN "waiting" ELSE pc[r]]
      /\ tokens' = [d \in Domain |-> Credentials!NoToken]
      /\ block' = [r \in Record |-> Credentials!Empty]
      /\ env' = [r \in Record |-> Credentials!Empty]
      /\ todo' = [r \in Record |-> {}]
      /\ minting' = [r \in Record |-> Credentials!NoToken]
      /\ staged' = {} /\ left' = {} /\ child' = [r \in Record |-> "none"]
      /\ UNCHANGED <<scenario, published, declared, copies, descriptor, stored, now, minted, begun>>
  BY DEF Kill, deployVars, worldVars
<1>2. \A r \in Record : pc'[r] \in Settled /\ (pc'[r] = pc[r] \/ pc'[r] = "waiting")
  BY <1>1 DEF Active, Settled
<1>3. \A r \in Record : pc'[r] \notin Equipped \cup {"resolving"}
  BY <1>2 DEF Settled, Equipped
<1>4. CredShape /\ \A d \in Domain : minted[d] \in Nat
  BY DEF CredInv, CredShape
<1>5. /\ Credentials!NoToken \in [n : Nat, exp : Nat] /\ Credentials!NoToken.n = 0
      /\ DOMAIN Credentials!Empty = {} /\ Credentials!Empty \in [{} -> Credentials!Value]
      /\ Credentials!Empty \in [{} -> Seq(Credentials!Raw)]
  BY DEF Credentials!NoToken, Credentials!Empty
<1>6. CredShape'
  <2>1. \A r \in Record :
          /\ DOMAIN env'[r] \subseteq Env /\ env'[r] \in [DOMAIN env'[r] -> Credentials!Value]
          /\ todo'[r] = {} /\ Blocks(block'[r])
    BY <1>1, <1>5 DEF Blocks
  <2>2. /\ tokens' \in [Domain -> [n : Nat, exp : Nat]]
        /\ minting' \in [Record -> [n : Nat, exp : Nat]]
    BY <1>1, <1>5
  <2>3. DOMAIN block' = Record /\ DOMAIN env' = Record /\ DOMAIN todo' = Record
    BY <1>1
  <2>4. Credentials!Bundles' = Credentials!Bundles
    BY <1>1 DEF Credentials!Bundles
  <2>5. QED BY <1>1, <1>4, <2>1, <2>2, <2>3, <2>4 DEF CredShape
<1>7. \A d \in Domain : tokens'[d].n <= minted'[d]
  BY <1>1, <1>4, <1>5
<1>8. \A r \in Record : RunInv(r)'
  <2>1. \A r \in Record : DOMAIN block'[r] = {} /\ minting'[r] = Credentials!NoToken
    BY <1>1, <1>5
  <2>2. QED BY <1>3, <2>1 DEF RunInv, Knows
<1>9. StagedInv'
  BY <1>1, <1>3 DEF StagedInv, Runs!Child, Equipped
<1>10. QED BY <1>2, <1>6, <1>7, <1>8, <1>9 DEF CredInv, Credentials!ConflictsAreRealStep

(* A step of a skill's run stages before it spawns, and leaves what the    *)
(* run was given.                                                          *)
LEMMA SkillKeeps ==
  ASSUME StagedInv, CopiesShape, NEW r \in Record, SkillStep(r)
  PROVE  /\ StagedInv'
         /\ UNCHANGED <<scenario, published, copies, descriptor, credVars, now>>
         /\ \A q \in Record : pc'[q] # "conflict" \/ pc'[q] = pc[q]
<1> USE DEF StagedInv, CopiesShape, Runs!Child
<1>1. UNCHANGED <<scenario, published, copies, descriptor, credVars, now>>
  BY DEF SkillStep, deployVars, worldVars
<1>2. CASE Runs!RefuseCall(r)
  BY <1>1, <1>2 DEF Runs!RefuseCall
<1>3. CASE Runs!Stage(r)
  BY <1>1, <1>3 DEF Runs!Stage
<1>4. CASE Runs!Spawn(r)
  BY <1>1, <1>4 DEF Runs!Spawn
<1>5. CASE Runs!LeaveBehind(r) \/ Runs!Reap(r)
  BY <1>1, <1>5 DEF Runs!LeaveBehind, Runs!Reap
<1>6. CASE Runs!Exit(r)
  BY <1>1, <1>6 DEF Runs!Exit
<1>7. CASE Runs!Close(r)
  BY <1>1, <1>7 DEF Runs!Close
<1>8. CASE Runs!Timeout(r)
  BY <1>1, <1>8 DEF Runs!Timeout
<1>9. CASE Runs!Cleanup(r)
  BY <1>1, <1>9 DEF Runs!Cleanup
<1>10. QED BY <1>2, <1>3, <1>4, <1>5, <1>6, <1>7, <1>8, <1>9 DEF SkillStep

(* Every step keeps what is known of the runs and their credentials.       *)
LEMMA RunsStep ==
  ASSUME CredInv, StagedInv, MintInv, CopiesShape, [Next]_vars
  PROVE  CredInv' /\ StagedInv' /\ Credentials!ConflictsAreRealStep
<1>1. stored' \in [Project -> Nat] /\ published' \in Credentials!Bundles
  BY StoredStep DEF CredInv, CredShape
<1>2. ASSUME NEW r \in Record, CredentialsStep(r)
      PROVE  CredInv' /\ StagedInv' /\ Credentials!ConflictsAreRealStep
  <2>1. UNCHANGED skillVars
    BY <1>2 DEF CredentialsStep
  <2>2. \/ pc' = pc
        \/ \E to \in {"resolving", "equipped", "failed", "conflict"} :
             pc[r] \in {"credentials", "resolving"} /\ pc' = [pc EXCEPT ![r] = to]
    BY <1>2, CredentialsMoves DEF CopiesShape
  <2>3. StagedInv'
    BY <2>1, <2>2 DEF StagedInv, skillVars, CopiesShape
  <2>4. QED BY <1>2, <2>3, CredentialsKeep
<1>3. ASSUME NEW r \in Record, SkillStep(r)
      PROVE  CredInv' /\ StagedInv' /\ Credentials!ConflictsAreRealStep
  <2>1. /\ StagedInv' /\ UNCHANGED <<scenario, published, copies, descriptor, credVars, now>>
        /\ \A q \in Record : pc'[q] # "conflict" \/ pc'[q] = pc[q]
    BY <1>3, SkillKeeps
  <2>2. \A q \in Record :
          \/ pc'[q] = pc[q]
          \/ pc'[q] \notin Equipped \cup {"resolving"}
          \/ pc[q] \in Equipped /\ pc'[q] \in Equipped
    BY <1>3, SkillMoves DEF CopiesShape, Equipped
  <2>3. CredInv'
    BY <1>1, <2>1, <2>2, ElsewhereKeeps
  <2>4. QED BY <2>1, <2>3 DEF Credentials!ConflictsAreRealStep
<1>4. CASE Kill
  BY <1>4, KillForgets
<1>5. CASE Boot \/ Refresh
  <2>1. /\ Credentials!Load /\ UNCHANGED skillVars
        /\ UNCHANGED <<scenario, published, stored, copies, descriptor, now, pc, tokens, minted,
                       block, env, todo, minting>>
    BY <1>5 DEF Boot, Refresh, deployVars, worldVars
  <2>2. CredInv'
    BY <2>1, LoadKeeps
  <2>3. StagedInv'
    BY <2>1 DEF StagedInv, skillVars
  <2>4. QED BY <2>1, <2>2, <2>3 DEF Credentials!ConflictsAreRealStep
<1>6. CASE ~(\E r \in Record : CredentialsStep(r) \/ SkillStep(r)) /\ ~Kill /\ ~Boot /\ ~Refresh
  <2>1. /\ UNCHANGED <<scenario, copies, descriptor, credVars, staged, left>>
        /\ now' = now \/ now' = now + 1
        /\ \A q \in Record : Passes(q)
        /\ child' = child \/ \E batch \in SUBSET Record :
             child' = [r \in Record |-> IF r \in batch THEN "none" ELSE child[r]]
    BY <1>6, PassStep
  <2>2. CredInv'
    BY <1>1, <2>1, ElsewhereKeeps DEF Passes
  <2>3. StagedInv'
    BY <2>1 DEF StagedInv, Passes, Equipped, Runs!Child
  <2>4. \A q \in Record : pc'[q] # "conflict" \/ pc'[q] = pc[q]
    BY <2>1 DEF Passes
  <2>5. QED BY <2>2, <2>3, <2>4 DEF Credentials!ConflictsAreRealStep
<1>7. QED BY <1>2, <1>3, <1>4, <1>5, <1>6

---------------------------------------------------------------------------
(* The deployed agents *)

(* The members of the sequences the descriptors are made of.               *)
LEMMA ElementsAre ==
  /\ \A a : Elements(<<a>>) = {a}
  /\ \A a, b : Elements(<<a, b>>) = {a, b}
  /\ \A a, b, c : Elements(<<a, b, c>>) = {a, b, c}
  /\ \A a, b, c, d : Elements(<<a, b, c, d>>) = {a, b, c, d}
<1>1. ASSUME NEW a PROVE Elements(<<a>>) = {a}
  <2>1. DOMAIN <<a>> = {1} /\ <<a>>[1] = a OBVIOUS
  <2>2. QED BY <2>1 DEF Elements
<1>2. ASSUME NEW a, NEW b PROVE Elements(<<a, b>>) = {a, b}
  <2>1. DOMAIN <<a, b>> = {1, 2} /\ <<a, b>>[1] = a /\ <<a, b>>[2] = b OBVIOUS
  <2>2. QED BY <2>1 DEF Elements
<1>3. ASSUME NEW a, NEW b, NEW c PROVE Elements(<<a, b, c>>) = {a, b, c}
  <2>1. /\ DOMAIN <<a, b, c>> = {1, 2, 3}
        /\ <<a, b, c>>[1] = a /\ <<a, b, c>>[2] = b /\ <<a, b, c>>[3] = c
    OBVIOUS
  <2>2. QED BY <2>1 DEF Elements
<1>4. ASSUME NEW a, NEW b, NEW c, NEW d PROVE Elements(<<a, b, c, d>>) = {a, b, c, d}
  <2>1. /\ DOMAIN <<a, b, c, d>> = {1, 2, 3, 4}
        /\ <<a, b, c, d>>[1] = a /\ <<a, b, c, d>>[2] = b /\ <<a, b, c, d>>[3] = c
        /\ <<a, b, c, d>>[4] = d
    OBVIOUS
  <2>2. QED BY <2>1 DEF Elements
<1>5. QED BY <1>1, <1>2, <1>3, <1>4

(* A descriptor that is well formed.                                       *)
WellFormed(d) ==
  /\ d.malformed = FALSE /\ d.compute = "lambda"
  /\ d.skills = {Skill("entrypoints"), Skill("support")}
  /\ d.stages # <<>> /\ Elements(d.stages) \subseteq STAGES
  /\ Elements(d.needs) \subseteq needSpecs
  /\ DOMAIN d.needs \subseteq Nat
  /\ \A i, j \in DOMAIN d.needs : d.needs[i] = d.needs[j] => i = j

(* The deployed descriptors are, and this is what they list.               *)
LEMMA RosterIs ==
  /\ \A a \in Agent : WellFormed(Roster[a])
  /\ Elements(Roster["ask_the_code"].stages) = {"init"}
  /\ Elements(Roster["ask_the_code"].needs) =
       {"eventbridge", "sqs", "s3", "target-credentials"}
  /\ Roster["ask_the_code"].triggers = SignedConsumer
  /\ Elements(Roster["triage_it"].stages) = {"init"}
  /\ Elements(Roster["triage_it"].needs) =
       {"s3", "sqs", "eventbridge", "target-credentials"}
  /\ Roster["triage_it"].triggers = SignedConsumer
  /\ Elements(Roster["ship_it"].stages) = {"init", "revisit"}
  /\ Elements(Roster["ship_it"].needs) =
       {"github", "jira", "target-credentials"}
  /\ Roster["ship_it"].triggers = SignedConsumer
  /\ Elements(Roster["bump_it"].stages) = {"init", "breakdown", "revisit"}
  /\ Elements(Roster["bump_it"].needs) =
       {"github", "target-credentials"}
  /\ Roster["bump_it"].triggers = Scheduled
  /\ Elements(Roster["document_it"].stages) = {"init", "breakdown"}
  /\ Elements(Roster["document_it"].needs) =
       {"github", "target-credentials"}
  /\ Roster["document_it"].triggers = Scheduled
<1>1. ASSUME NEW stages, NEW needs, NEW triggers, stages # <<>>,
             Elements(stages) \subseteq STAGES, Elements(needs) \subseteq needSpecs,
             DOMAIN needs \subseteq Nat,
             \A i, j \in DOMAIN needs : needs[i] = needs[j] => i = j
      PROVE  WellFormed(Descriptor(stages, needs, triggers))
  BY <1>1 DEF WellFormed, Descriptor
<1>2. \A stages, needs, triggers :
        /\ Descriptor(stages, needs, triggers).stages = stages
        /\ Descriptor(stages, needs, triggers).needs = needs
        /\ Descriptor(stages, needs, triggers).triggers = triggers
  BY DEF Descriptor
<1>3. /\ WellFormed(Roster["ask_the_code"])
      /\ Elements(Roster["ask_the_code"].stages) = {"init"}
      /\ Elements(Roster["ask_the_code"].needs) = {"eventbridge", "sqs", "s3", "target-credentials"}
      /\ Roster["ask_the_code"].triggers = SignedConsumer
  <2>1. Roster["ask_the_code"] = Descriptor(<<"init">>,
          <<"eventbridge", "sqs", "s3", "target-credentials">>, SignedConsumer)
    BY DEF Roster
  <2>2. /\ Elements(<<"init">>) = {"init"}
        /\ Elements(<<"eventbridge", "sqs", "s3", "target-credentials">>) = {"eventbridge", "sqs", "s3", "target-credentials"}
    BY ElementsAre
  <2>3. /\ DOMAIN <<"eventbridge", "sqs", "s3", "target-credentials">> \subseteq Nat
        /\ \A i, j \in DOMAIN <<"eventbridge", "sqs", "s3", "target-credentials">> :
             <<"eventbridge", "sqs", "s3", "target-credentials">>[i] = <<"eventbridge", "sqs", "s3", "target-credentials">>[j]
               => i = j
    OBVIOUS
  <2>4. <<"init">> # <<>>
    OBVIOUS
  <2>5. WellFormed(Descriptor(<<"init">>, <<"eventbridge", "sqs", "s3", "target-credentials">>, SignedConsumer))
    BY <1>1, <2>2, <2>3, <2>4 DEF STAGES, needSpecs
  <2>6. QED BY <1>2, <2>1, <2>2, <2>5
<1>4. /\ WellFormed(Roster["triage_it"])
      /\ Elements(Roster["triage_it"].stages) = {"init"}
      /\ Elements(Roster["triage_it"].needs) = {"s3", "sqs", "eventbridge", "target-credentials"}
      /\ Roster["triage_it"].triggers = SignedConsumer
  <2>1. Roster["triage_it"] = Descriptor(<<"init">>,
          <<"s3", "sqs", "eventbridge", "target-credentials">>, SignedConsumer)
    BY DEF Roster
  <2>2. /\ Elements(<<"init">>) = {"init"}
        /\ Elements(<<"s3", "sqs", "eventbridge", "target-credentials">>) = {"s3", "sqs", "eventbridge", "target-credentials"}
    BY ElementsAre
  <2>3. /\ DOMAIN <<"s3", "sqs", "eventbridge", "target-credentials">> \subseteq Nat
        /\ \A i, j \in DOMAIN <<"s3", "sqs", "eventbridge", "target-credentials">> :
             <<"s3", "sqs", "eventbridge", "target-credentials">>[i] = <<"s3", "sqs", "eventbridge", "target-credentials">>[j]
               => i = j
    OBVIOUS
  <2>4. <<"init">> # <<>>
    OBVIOUS
  <2>5. WellFormed(Descriptor(<<"init">>, <<"s3", "sqs", "eventbridge", "target-credentials">>, SignedConsumer))
    BY <1>1, <2>2, <2>3, <2>4 DEF STAGES, needSpecs
  <2>6. QED BY <1>2, <2>1, <2>2, <2>5
<1>5. /\ WellFormed(Roster["ship_it"])
      /\ Elements(Roster["ship_it"].stages) = {"init", "revisit"}
      /\ Elements(Roster["ship_it"].needs) = {"github", "jira", "target-credentials"}
      /\ Roster["ship_it"].triggers = SignedConsumer
  <2>1. Roster["ship_it"] = Descriptor(<<"init", "revisit">>,
          <<"github", "jira", "target-credentials">>, SignedConsumer)
    BY DEF Roster
  <2>2. /\ Elements(<<"init", "revisit">>) = {"init", "revisit"}
        /\ Elements(<<"github", "jira", "target-credentials">>) = {"github", "jira", "target-credentials"}
    BY ElementsAre
  <2>3. /\ DOMAIN <<"github", "jira", "target-credentials">> \subseteq Nat
        /\ \A i, j \in DOMAIN <<"github", "jira", "target-credentials">> :
             <<"github", "jira", "target-credentials">>[i] = <<"github", "jira", "target-credentials">>[j]
               => i = j
    OBVIOUS
  <2>4. <<"init", "revisit">> # <<>>
    OBVIOUS
  <2>5. WellFormed(Descriptor(<<"init", "revisit">>, <<"github", "jira", "target-credentials">>, SignedConsumer))
    BY <1>1, <2>2, <2>3, <2>4 DEF STAGES, needSpecs
  <2>6. QED BY <1>2, <2>1, <2>2, <2>5
<1>6. /\ WellFormed(Roster["bump_it"])
      /\ Elements(Roster["bump_it"].stages) = {"init", "breakdown", "revisit"}
      /\ Elements(Roster["bump_it"].needs) = {"github", "target-credentials"}
      /\ Roster["bump_it"].triggers = Scheduled
  <2>1. Roster["bump_it"] = Descriptor(<<"init", "breakdown", "revisit">>,
          <<"github", "target-credentials">>, Scheduled)
    BY DEF Roster
  <2>2. /\ Elements(<<"init", "breakdown", "revisit">>) = {"init", "breakdown", "revisit"}
        /\ Elements(<<"github", "target-credentials">>) = {"github", "target-credentials"}
    BY ElementsAre
  <2>3. /\ DOMAIN <<"github", "target-credentials">> \subseteq Nat
        /\ \A i, j \in DOMAIN <<"github", "target-credentials">> :
             <<"github", "target-credentials">>[i] = <<"github", "target-credentials">>[j]
               => i = j
    OBVIOUS
  <2>4. <<"init", "breakdown", "revisit">> # <<>>
    OBVIOUS
  <2>5. WellFormed(Descriptor(<<"init", "breakdown", "revisit">>, <<"github", "target-credentials">>, Scheduled))
    BY <1>1, <2>2, <2>3, <2>4 DEF STAGES, needSpecs
  <2>6. QED BY <1>2, <2>1, <2>2, <2>5
<1>7. /\ WellFormed(Roster["document_it"])
      /\ Elements(Roster["document_it"].stages) = {"init", "breakdown"}
      /\ Elements(Roster["document_it"].needs) = {"github", "target-credentials"}
      /\ Roster["document_it"].triggers = Scheduled
  <2>1. Roster["document_it"] = Descriptor(<<"init", "breakdown">>,
          <<"github", "target-credentials">>, Scheduled)
    BY DEF Roster
  <2>2. /\ Elements(<<"init", "breakdown">>) = {"init", "breakdown"}
        /\ Elements(<<"github", "target-credentials">>) = {"github", "target-credentials"}
    BY ElementsAre
  <2>3. /\ DOMAIN <<"github", "target-credentials">> \subseteq Nat
        /\ \A i, j \in DOMAIN <<"github", "target-credentials">> :
             <<"github", "target-credentials">>[i] = <<"github", "target-credentials">>[j]
               => i = j
    OBVIOUS
  <2>4. <<"init", "breakdown">> # <<>>
    OBVIOUS
  <2>5. WellFormed(Descriptor(<<"init", "breakdown">>, <<"github", "target-credentials">>, Scheduled))
    BY <1>1, <2>2, <2>3, <2>4 DEF STAGES, needSpecs
  <2>6. QED BY <1>2, <2>1, <2>2, <2>5
<1>8. Agent = {"ask_the_code", "triage_it", "ship_it", "bump_it", "document_it"}
  BY DEF Agent, Roster
<1>9. QED BY <1>3, <1>4, <1>5, <1>6, <1>7, <1>8

(* What the two kinds of triggers are.                                     *)
LEMMA TriggersAre ==
  ASSUME NEW d
  PROVE  /\ d.triggers = SignedConsumer =>
              /\ Has(d, "consumer") /\ ~Has(d, "scheduler")
              /\ usesSignedEnvelope(d) /\ SignedTrigger(d)
         /\ d.triggers = Scheduled =>
              /\ Has(d, "scheduler") /\ ~Has(d, "consumer") /\ ~SignedTrigger(d)
<1>1. /\ Trigger("consumer", TRUE).type = "consumer" /\ Trigger("consumer", TRUE).signed
      /\ Trigger("scheduler", FALSE).type = "scheduler"
  BY DEF Trigger
<1>2. /\ Elements(SignedConsumer) = {Trigger("consumer", TRUE)}
      /\ Elements(Scheduled) = {Trigger("scheduler", FALSE)}
  BY ElementsAre DEF SignedConsumer, Scheduled
<1>3. /\ DOMAIN SignedConsumer = {1} /\ SignedConsumer[1] = Trigger("consumer", TRUE)
      /\ DOMAIN Scheduled = {1} /\ Scheduled[1] = Trigger("scheduler", FALSE)
  BY DEF SignedConsumer, Scheduled
<1>4. ASSUME d.triggers = SignedConsumer PROVE SignedTrigger(d)
  <2>1. \A j \in 1..(1 - 1) : d.triggers[j].type # "consumer"
    OBVIOUS
  <2>2. QED BY <1>1, <1>3, <1>4, <2>1 DEF SignedTrigger
<1>5. QED BY <1>1, <1>2, <1>3, <1>4 DEF Has, usesSignedEnvelope, SignedTrigger

(* A well formed descriptor has no issues.                                 *)
LEMMA WellFormedParses ==
  ASSUME NEW d, WellFormed(d), d.triggers \in {SignedConsumer, Scheduled},
         NEW phase \in Phase, d.triggers = Scheduled => phase # "phase-1"
  PROVE  Parses(d, phase)
<1>1. validateStages(d) = {} /\ validateNeeds(d) = {}
  <2>1. d.stages # <<>> /\ Elements(d.stages) \subseteq STAGES
        /\ Elements(d.needs) \subseteq needSpecs
    BY DEF WellFormed
  <2>2. ~(\E i, j \in DOMAIN d.needs : i < j /\ d.needs[i] = d.needs[j])
    <3>1. /\ DOMAIN d.needs \subseteq Nat
          /\ \A i, j \in DOMAIN d.needs : d.needs[i] = d.needs[j] => i = j
      BY DEF WellFormed
    <3>2. SUFFICES ASSUME NEW i \in DOMAIN d.needs, NEW j \in DOMAIN d.needs,
                          i < j, d.needs[i] = d.needs[j]
                   PROVE  FALSE
      OBVIOUS
    <3>3. i = j /\ i \in Nat BY <3>1, <3>2
    <3>4. QED BY <3>2, <3>3
  <2>3. QED BY <2>1, <2>2 DEF validateStages, validateNeeds, If
<1>2. validateSkills(d) = {}
  <2>1. Skill("entrypoints") \in d.skills /\ Skill("entrypoints").role = "entrypoints"
    BY DEF WellFormed, Skill
  <2>2. Entrypoints(d) # {}
    BY <2>1 DEF Entrypoints
  <2>3. QED BY <2>2 DEF validateSkills, If
<1>3. validateTriggers(d, phase) = {}
  <2>1. d.triggers # <<>>
    <3>1. SignedConsumer # <<>> /\ Scheduled # <<>>
      BY DEF SignedConsumer, Scheduled
    <3>2. QED BY <3>1
  <2>2. \A t \in Elements(d.triggers) :
          \/ t.type = "consumer"
          \/ t.type = "scheduler" /\ phase # "phase-1"
    <3>1. /\ Elements(SignedConsumer) = {Trigger("consumer", TRUE)}
          /\ Elements(Scheduled) = {Trigger("scheduler", FALSE)}
      BY ElementsAre DEF SignedConsumer, Scheduled
    <3>2. /\ Trigger("consumer", TRUE).type = "consumer"
          /\ Trigger("scheduler", FALSE).type = "scheduler"
      BY DEF Trigger
    <3>3. QED BY <3>1, <3>2
  <2>3. \A t \in Elements(d.triggers) : isTriggerTypeInPhase(t.type, phase)
    BY <2>2 DEF isTriggerTypeInPhase, Phase
  <2>4. QED BY <2>1, <2>3 DEF validateTriggers, If
<1>4. d.malformed = FALSE /\ d.compute = "lambda"
  BY DEF WellFormed
<1>5. QED BY <1>1, <1>2, <1>3, <1>4 DEF Parses, validateDescriptor, If

(* Its skills load and fit.                                                *)
LEMMA WellFormedFits ==
  ASSUME NEW d, WellFormed(d)
  PROVE  wireClients(d) /\ buildRuntime(d, resolverWired(d))
<1>1. d.skills = {Skill("entrypoints"), Skill("support")}
      /\ Elements(d.needs) \subseteq needSpecs
  BY DEF WellFormed
<1>2. \A s \in d.skills : s.compatible /\ s.file = "fine" /\ s.schemas = "subset"
  BY <1>1 DEF Skill
<1>3. validateSkillsCompatibility(d)
  BY <1>2 DEF validateSkillsCompatibility, load, loadEntrypoint, assertSubset
<1>4. QED BY <1>1, <1>3 DEF wireClients, buildRuntime, resolverWired

(* The entries of the agents.                                              *)
HasEntry(a, requires, phase, registry, publisher, unsigned) ==
  /\ EntryOf[a].requires = {"IDEMPOTENCY_TABLE_NAME", "CATALOG_BUCKET"} \cup requires
  /\ EntryOf[a].phase = phase /\ EntryOf[a].registry = registry
  /\ EntryOf[a].publisher = publisher
  /\ EntryOf[a].allowUnsignedRuntimeMessages = unsigned

(* Three take signed requests, three publish to themselves, one does both. *)
LEMMA EntriesAre ==
  /\ Agent = {"ask_the_code", "triage_it", "ship_it", "bump_it", "document_it"}
  /\ HasEntry("ask_the_code", {"CONSUMER_REGISTRY_TABLE_NAME"}, "phase-1", TRUE, FALSE, FALSE)
  /\ HasEntry("triage_it", {"CONSUMER_REGISTRY_TABLE_NAME"}, "phase-1", TRUE, FALSE, FALSE)
  /\ HasEntry("ship_it", {"CONSUMER_REGISTRY_TABLE_NAME"} \cup SelfPublishEnv, "phase-1", TRUE, TRUE, TRUE)
  /\ HasEntry("bump_it", SelfPublishEnv, "phase-2", FALSE, TRUE, FALSE)
  /\ HasEntry("document_it", SelfPublishEnv, "phase-2", FALSE, TRUE, FALSE)
<1>1. Agent = {"ask_the_code", "triage_it", "ship_it", "bump_it", "document_it"}
  BY DEF Agent, Roster
<1>2. ASSUME NEW a, NEW requires, NEW phase, NEW registry, NEW publisher, NEW unsigned,
             EntryOf[a] = Entry(requires, phase, registry, publisher, unsigned)
      PROVE  HasEntry(a, requires, phase, registry, publisher, unsigned)
  BY <1>2 DEF HasEntry, Entry
<1>3. HasEntry("ask_the_code", {"CONSUMER_REGISTRY_TABLE_NAME"}, "phase-1", TRUE, FALSE, FALSE)
  <2>1. EntryOf["ask_the_code"] = createAtcLambdaHandler
    BY DEF EntryOf
  <2>2. QED BY <1>2, <2>1 DEF createAtcLambdaHandler
<1>4. HasEntry("triage_it", {"CONSUMER_REGISTRY_TABLE_NAME"}, "phase-1", TRUE, FALSE, FALSE)
  <2>1. EntryOf["triage_it"] = createTriageItLambdaHandler
    BY DEF EntryOf
  <2>2. QED BY <1>2, <2>1 DEF createTriageItLambdaHandler
<1>5. HasEntry("ship_it", {"CONSUMER_REGISTRY_TABLE_NAME"} \cup SelfPublishEnv, "phase-1", TRUE, TRUE, TRUE)
  <2>1. EntryOf["ship_it"] = createShipItLambdaHandler
    BY DEF EntryOf
  <2>2. QED BY <1>2, <2>1 DEF createShipItLambdaHandler
<1>6. HasEntry("bump_it", SelfPublishEnv, "phase-2", FALSE, TRUE, FALSE)
  <2>1. EntryOf["bump_it"] = createBumpItLambdaHandler
    BY DEF EntryOf
  <2>2. QED BY <1>2, <2>1 DEF createBumpItLambdaHandler
<1>7. HasEntry("document_it", SelfPublishEnv, "phase-2", FALSE, TRUE, FALSE)
  <2>1. EntryOf["document_it"] = createDocumentItLambdaHandler
    BY DEF EntryOf
  <2>2. QED BY <1>2, <2>1 DEF createDocumentItLambdaHandler
<1>8. QED BY <1>1, <1>3, <1>4, <1>5, <1>6, <1>7

(* A deployed agent starts, and its shim takes what its stack and its own  *)
(* handlers send.                                                          *)
LEMMA RosterStarts ==
  ASSUME NEW a \in Agent
  PROVE  /\ Starts(a, Roster[a])
         /\ \A m \in Messages(a, Roster[a]) : Admits(a, Roster[a], m)
<1>1. WellFormed(Roster[a])
  BY RosterIs
<1>2. wireClients(Roster[a]) /\ buildRuntime(Roster[a], resolverWired(Roster[a]))
  BY <1>1, WellFormedFits
<1>3. \A source, stage : Message(source, stage).source = source
                         /\ Message(source, stage).stage = stage
  BY DEF Message
<1>4. a \in {"ask_the_code", "triage_it", "ship_it", "bump_it", "document_it"}
  BY EntriesAre
<1>5. CASE a \in {"ask_the_code", "triage_it", "ship_it"}
  <2>1. Roster[a].triggers = SignedConsumer
    BY <1>5, RosterIs
  <2>2. /\ Has(Roster[a], "consumer") /\ ~Has(Roster[a], "scheduler")
        /\ usesSignedEnvelope(Roster[a])
    BY <2>1, TriggersAre
  <2>3. EntryOf[a].phase = "phase-1" /\ EntryOf[a].registry
    BY <1>5, EntriesAre DEF HasEntry
  <2>4. EntryOf[a].requires \subseteq StackEnv(Roster[a])
    <3>1. a = "ship_it" => schedulerWiring(Roster[a])
      <4>1. Roster["ship_it"].stages = <<"init", "revisit">>
        BY DEF Roster, Descriptor
      <4>2. Len(Roster["ship_it"].stages) = 2 BY <4>1
      <4>3. 2 > 1 OBVIOUS
      <4>4. QED BY <4>2, <4>3 DEF schedulerWiring
    <3>2. "CONSUMER_REGISTRY_TABLE_NAME" \in StackEnv(Roster[a])
      BY <2>2 DEF StackEnv, If
    <3>3. "IDEMPOTENCY_TABLE_NAME" \in StackEnv(Roster[a])
          /\ "CATALOG_BUCKET" \in StackEnv(Roster[a])
      BY DEF StackEnv
    <3>4. a = "ship_it" => SelfPublishEnv \subseteq StackEnv(Roster[a])
      BY <3>1 DEF StackEnv
    <3>5. QED BY <1>5, <3>2, <3>3, <3>4, EntriesAre DEF HasEntry
  <2>5. Parses(Roster[a], "phase-1")
    BY <1>1, <2>1, <2>2, TriggersAre, WellFormedParses DEF Phase
  <2>6. createSqsLambdaShim(Roster[a], EntryOf[a])
    BY <2>2, <2>3 DEF createSqsLambdaShim
  <2>7. Starts(a, Roster[a])
    BY <1>2, <2>3, <2>4, <2>5, <2>6 DEF Starts
  <2>8. ASSUME NEW m \in Messages(a, Roster[a]) PROVE Admits(a, Roster[a], m)
    <3>1. \/ m = Message("consumer", "init")
          \/ a = "ship_it" /\ m = Message("self", "revisit")
      BY <1>5, <2>2 DEF Messages, Published
    <3>2. Elements(Roster["ship_it"].stages) = {"init", "revisit"}
      BY RosterIs
    <3>3. EntryOf["ship_it"].allowUnsignedRuntimeMessages
      BY EntriesAre DEF HasEntry
    <3>4. QED BY <1>3, <2>2, <3>1, <3>2, <3>3 DEF Admits
  <2>9. QED BY <2>7, <2>8
<1>6. CASE a \in {"bump_it", "document_it"}
  <2>1. Roster[a].triggers = Scheduled
    BY <1>6, RosterIs
  <2>2. Has(Roster[a], "scheduler") /\ ~Has(Roster[a], "consumer")
        /\ ~SignedTrigger(Roster[a])
    BY <2>1, TriggersAre
  <2>3. EntryOf[a].phase = "phase-2"
    BY <1>6, EntriesAre DEF HasEntry
  <2>4. EntryOf[a].requires \subseteq StackEnv(Roster[a])
    <3>1. schedulerWiring(Roster[a])
      BY <2>2 DEF schedulerWiring
    <3>2. SelfPublishEnv \subseteq StackEnv(Roster[a])
          /\ {"IDEMPOTENCY_TABLE_NAME", "CATALOG_BUCKET"} \subseteq StackEnv(Roster[a])
      BY <3>1 DEF StackEnv
    <3>3. QED BY <1>6, <3>2, EntriesAre DEF HasEntry
  <2>5. Parses(Roster[a], "phase-2")
    BY <1>1, <2>1, WellFormedParses DEF Phase
  <2>6. createSqsLambdaShim(Roster[a], EntryOf[a])
    BY <2>2 DEF createSqsLambdaShim
  <2>7. Starts(a, Roster[a])
    BY <1>2, <2>3, <2>4, <2>5, <2>6 DEF Starts
  <2>8. ASSUME NEW m \in Messages(a, Roster[a]) PROVE Admits(a, Roster[a], m)
    <3>1. \/ m = Message("scheduler", "init")
          \/ m = Message("self", "breakdown")
          \/ a = "bump_it" /\ m = Message("self", "revisit")
      BY <1>6, <2>2 DEF Messages, Published
    <3>2. /\ {"init", "breakdown"} \subseteq Elements(Roster[a].stages)
          /\ a = "bump_it" => "revisit" \in Elements(Roster[a].stages)
      BY <1>6, RosterIs
    <3>3. QED BY <1>3, <2>2, <3>1, <3>2 DEF Admits
  <2>9. QED BY <2>7, <2>8
<1>7. QED BY <1>4, <1>5, <1>6

(* The parts of a stack's grants.                                          *)
LEMMA GrantsAre ==
  ASSUME NEW d, NEW configured
  PROVE  /\ RuntimeCalls \subseteq Grants(d, configured)
         /\ usesSignedEnvelope(d) => SignedCalls \subseteq Grants(d, configured)
         /\ \A need \in Elements(d.needs) :
              needPolicyStatements(need, configured) \subseteq Grants(d, configured)
         /\ "target-credentials" \in Elements(d.needs)
              => <<"kms:Decrypt", "secrets">> \in Grants(d, configured)
         /\ schedulerWiring(d) => SelfPublishCalls \subseteq Grants(d, configured)
<1>1. /\ RuntimeCalls \subseteq Grants(d, configured)
      /\ usesSignedEnvelope(d) => SignedCalls \subseteq Grants(d, configured)
      /\ NeedGrants(d, configured) \subseteq Grants(d, configured)
      /\ schedulerWiring(d) => SelfPublishCalls \subseteq Grants(d, configured)
  BY DEF Grants
<1>2. \A need \in Elements(d.needs) :
        needPolicyStatements(need, configured) \subseteq Statements(d, configured)
  BY DEF Statements
<1>3. Statements(d, configured) \subseteq NeedGrants(d, configured)
  BY DEF NeedGrants
<1>4. ASSUME "target-credentials" \in Elements(d.needs)
      PROVE  <<"kms:Decrypt", "secrets">> \in NeedGrants(d, configured)
  BY <1>4 DEF NeedGrants, If
<1>5. QED BY <1>1, <1>2, <1>3, <1>4

(* The handler of a deployed agent may make the calls it makes.       *)
LEMMA RosterMayCall ==
  ASSUME NEW a \in Agent
  PROVE  /\ \A client \in Clients[a] : gateClientsByNeeds(Roster[a], client)
         /\ HandlerCalls(a) \subseteq Grants(Roster[a], FALSE)
<1>1. Clients[a] \subseteq Elements(Roster[a].needs)
  BY RosterIs DEF Clients, Agent, Roster
<1>2. Clients[a] \subseteq {"eventbridge", "sqs", "s3"}
  BY DEF Clients, Agent, Roster
<1>3. \A client \in Clients[a] :
        needPolicyStatements(client, FALSE) \subseteq Grants(Roster[a], FALSE)
  BY <1>1, GrantsAre
<1>4. HandlerCalls(a) = UNION {needPolicyStatements(client, FALSE) : client \in Clients[a]}
  BY <1>2 DEF HandlerCalls, needPolicyStatements
<1>5. QED BY <1>1, <1>3, <1>4 DEF gateClientsByNeeds

(* A container that has started is granted what its entry wired.           *)
LEMMA StartsGranted ==
  ASSUME NEW a \in Agent, NEW d, Starts(a, d), NEW configured \in BOOLEAN
  PROVE  EntryCalls(a, d, configured) \subseteq Grants(d, configured)
<1>1. RuntimeCalls \subseteq Grants(d, configured)
  BY GrantsAre
<1>2. SignedTrigger(d) => SignedCalls \subseteq Grants(d, configured)
  BY GrantsAre DEF SignedTrigger, usesSignedEnvelope, Elements
<1>3. ASSUME EntryOf[a].publisher PROVE SelfPublishCalls \subseteq Grants(d, configured)
  <2>1. EntryOf[a].requires \subseteq StackEnv(d)
    BY DEF Starts
  <2>2. SelfPublishEnv \subseteq EntryOf[a].requires
    BY <1>3, EntriesAre DEF HasEntry
  <2>3. "SELF_QUEUE_URL" \in StackEnv(d)
    BY <2>1, <2>2 DEF SelfPublishEnv
  <2>4. schedulerWiring(d)
    BY <2>3 DEF StackEnv, If
  <2>5. QED BY <2>4, GrantsAre
<1>4. ASSUME resolverWired(d)
      PROVE  /\ targetCredentialsNeed \subseteq Grants(d, configured)
             /\ configured => CodeArtifact \subseteq Grants(d, configured)
  <2>1. "target-credentials" \in Elements(d.needs)
    BY <1>4 DEF resolverWired
  <2>2. targetCredentialsStatements(configured) \subseteq Grants(d, configured)
    <3>1. needPolicyStatements("target-credentials", configured)
            = targetCredentialsStatements(configured)
      BY DEF needPolicyStatements
    <3>2. needPolicyStatements("target-credentials", configured) \subseteq Grants(d, configured)
      BY <2>1, GrantsAre
    <3>3. QED BY <3>1, <3>2
  <2>3. <<"kms:Decrypt", "secrets">> \in Grants(d, configured)
    BY <2>1, GrantsAre
  <2>4. QED BY <2>2, <2>3 DEF targetCredentialsNeed, targetCredentialsStatements
<1>5. QED BY <1>1, <1>2, <1>3, <1>4 DEF EntryCalls

(* Whom a container serves; what of it has been decided.                   *)
ServeInv ==
  /\ agent \in Agent
  /\ \A s \in descriptor.skills : s.role \in {"entrypoints", "support"}
  /\ message \in [Record -> Messages(agent, descriptor)]
  /\ entry = "ready" => Starts(agent, descriptor)
  /\ descriptor = Roster[agent] =>
       entry # "failed" /\ \A r \in Record : pc[r] # "rejected"

(* It decides when it starts, and when it takes a batch.                   *)
LEMMA ServeStep ==
  ASSUME ServeInv, MintInv, CopiesShape, [Next]_vars
  PROVE  ServeInv'
<1>1. UNCHANGED <<agent, descriptor, message>>
  <2>1. UNCHANGED deployVars
    BY DEF Next, Boot, BootWithoutCatalog, Refresh, Receive, Kill, Tick, World, KeyAnswer, KeyStep,
       SyncStep, CredentialsStep, SkillStep, Work, Redeliver, vars
  <2>2. QED BY <2>1 DEF deployVars
<1>2. SUFFICES ASSUME \/ entry' = entry \/ entry' \in {"cold", "no-catalog"}
                      \/ entry' = "ready" /\ Starts(agent, descriptor)
                      \/ entry' = "failed" /\ ~Starts(agent, descriptor),
                      \A r \in Record :
                        \/ pc'[r] = pc[r]
                        \/ pc'[r] # "rejected"
                        \/ ~Admits(agent, descriptor, message[r])
               PROVE  ServeInv'
  <2>1. ASSUME NEW r \in Record, CredentialsStep(r) \/ SkillStep(r)
        PROVE  UNCHANGED entry /\ \A q \in Record : pc'[q] = pc[q] \/ pc'[q] # "rejected"
    <3>1. UNCHANGED entry
      BY <2>1 DEF CredentialsStep, SkillStep
    <3>2. \/ pc' = pc
          \/ \E to \in {"resolving", "equipped", "failed", "conflict", "staged", "skill",
                        "answered", "threw", "done"} : pc' = [pc EXCEPT ![r] = to]
      BY <2>1, CredentialsMoves, SkillMoves DEF CopiesShape
    <3>3. QED BY <3>1, <3>2 DEF CopiesShape
  <2>2. ASSUME NEW r \in Record, SyncStep(r)
        PROVE  UNCHANGED entry /\ \A q \in Record : pc'[q] = pc[q] \/ pc'[q] # "rejected"
    <3>1. pc' = pc \/ \E to \in {"failed", "credentials"} : pc' = [pc EXCEPT ![r] = to]
      BY <2>2, SyncMoves
    <3>2. QED BY <2>2, <3>1 DEF SyncStep, CopiesShape
  <2>3. ASSUME NEW r \in Record, KeyStep(r)
        PROVE  UNCHANGED entry /\ \A q \in Record : pc'[q] = pc[q] \/ pc'[q] # "rejected"
    BY <2>3 DEF KeyStep, Keys!NeedsNoFetch, Keys!UseCached, Keys!Join, Keys!Fetch, CopiesShape
  <2>4. ASSUME NEW p \in Param, KeyAnswer(p)
        PROVE  UNCHANGED entry /\ \A q \in Record : pc'[q] = pc[q] \/ pc'[q] # "rejected"
    BY <2>4 DEF KeyAnswer, Keys!Served, Keys!Fetched, Keys!FetchFails, CopiesShape
  <2>5. ASSUME NEW r \in Record, Work(r) \/ Redeliver(r)
        PROVE  UNCHANGED entry /\ \A q \in Record : pc'[q] = pc[q] \/ pc'[q] # "rejected"
    BY <2>5 DEF Work, Redeliver, CopiesShape
  <2>6. ASSUME Refresh \/ Tick \/ World \/ UNCHANGED vars PROVE UNCHANGED <<entry, pc>>
    BY <2>6 DEF Refresh, Tick, World, vars
  <2>7. ASSUME Kill
        PROVE  entry' = "cold" /\ \A q \in Record : pc'[q] = pc[q] \/ pc'[q] # "rejected"
    BY <2>7 DEF Kill
  <2>8. ASSUME Boot \/ BootWithoutCatalog
        PROVE  /\ UNCHANGED pc
               /\ \/ entry' = "no-catalog"
                  \/ entry' = "ready" /\ Starts(agent, descriptor)
                  \/ entry' = "failed" /\ ~Starts(agent, descriptor)
    BY <2>8 DEF Boot, BootWithoutCatalog
  <2>9. ASSUME Receive
        PROVE  /\ UNCHANGED entry
               /\ \A q \in Record :
                    \/ pc'[q] = pc[q]
                    \/ pc'[q] # "rejected"
                    \/ ~Admits(agent, descriptor, message[q])
    BY <2>9 DEF Receive
  <2>10. QED
    BY <1>2, <2>1, <2>2, <2>3, <2>4, <2>5, <2>6, <2>7, <2>8, <2>9 DEF Next
<1>3. descriptor = Roster[agent] =>
        Starts(agent, descriptor) /\ \A r \in Record : Admits(agent, descriptor, message[r])
  BY RosterStarts DEF ServeInv
<1>4. QED BY <1>1, <1>2, <1>3 DEF ServeInv

---------------------------------------------------------------------------
(* The bounds of the model *)

(* What the world counts is counted in events.                             *)
BoundsInv ==
  /\ entry \in {"cold", "ready", "failed", "no-catalog"} /\ now \in 0..MaxNow
  /\ version \in [Param -> 0..events] /\ stored \in [Project -> 0..events]
  /\ rotated \in [Param -> 0..MaxNow]
  /\ keys \in [Param -> Keys!Entry] /\ key \in [Record -> 0..Keys!NoKey]
  /\ answer \in [Param -> [value : 0..Keys!NoKey, read : 0..MaxNow]]

(* What neither the keys nor the world do.                                 *)
LEMMA BoundsRest ==
  ASSUME BoundsInv, events \in 0..MaxEvents, events' \in 0..MaxEvents, events <= events',
         entry' \in {"cold", "ready", "failed", "no-catalog"}, now' \in 0..MaxNow,
         UNCHANGED <<version, stored, rotated>>, keys' \in [Param -> Keys!Entry],
         key' \in [Record -> 0..Keys!NoKey],
         answer' \in [Param -> [value : 0..Keys!NoKey, read : 0..MaxNow]]
  PROVE  BoundsInv'
<1>1. 0..events \subseteq 0..events'
  BY MaxEventsNat
<1>2. version' \in [Param -> 0..events'] /\ stored' \in [Project -> 0..events']
  BY <1>1 DEF BoundsInv
<1>3. QED BY <1>2 DEF BoundsInv, Keys!Entry, Keys!NoKey

(* Every step stays within the bounds.                                     *)
LEMMA BoundsStep ==
  ASSUME BoundsInv, KeysInv, events \in 0..MaxEvents, [Next]_vars
  PROVE  BoundsInv' /\ events' \in 0..MaxEvents /\ events <= events'
<1>1. /\ MaxEvents \in Nat /\ MaxNow \in Nat /\ KeyTtl \in Nat
      /\ events \in Nat /\ Keys!NoKey = MaxEvents + 1 /\ Keys!NoKey \in 0..Keys!NoKey
  BY ContainerAssumption DEF Keys!NoKey
<1>2. /\ Keys!NoEntry \in Keys!Entry /\ [Keys!NoEntry EXCEPT !.kind = "inFlight"] \in Keys!Entry
  BY <1>1 DEF Keys!NoEntry, Keys!Entry
<1>a. Keys!NoAnswer \in [value : 0..Keys!NoKey, read : 0..MaxNow]
  BY <1>1 DEF Keys!NoAnswer
<1>3. CASE Boot \/ Refresh \/ UNCHANGED vars
  BY <1>1, <1>3, BoundsRest DEF Boot, Refresh, vars, keyVars, worldVars, BoundsInv
<1>4. CASE BootWithoutCatalog
  <2>1. /\ UNCHANGED <<version, stored, rotated, keys, answer, key, now>>
        /\ events' = events + 1 /\ events < MaxEvents /\ entry' = "no-catalog"
    BY <1>4 DEF BootWithoutCatalog, keyVars, worldVars
  <2>2. QED BY <1>1, <2>1, BoundsRest DEF BoundsInv
<1>5. CASE Receive
  <2>1. PICK batch \in SUBSET {r \in Record : pc[r] = "waiting"} :
          key' = [r \in Record |-> IF r \in batch THEN Keys!NoKey ELSE key[r]]
    BY <1>5 DEF Receive
  <2>2. key' \in [Record -> 0..Keys!NoKey]
    BY <1>1, <2>1 DEF BoundsInv
  <2>3. UNCHANGED <<version, stored, rotated, keys, answer, now, events, entry>>
    BY <1>5 DEF Receive, worldVars
  <2>4. QED BY <1>1, <2>2, <2>3, BoundsRest DEF BoundsInv
<1>6. CASE Kill
  <2>1. /\ UNCHANGED <<version, stored, rotated, now>>
        /\ events' = events + 1 /\ events < MaxEvents /\ entry' = "cold"
        /\ answer' = [p \in Param |-> Keys!NoAnswer]
        /\ keys' = [p \in Param |-> Keys!NoEntry] /\ key' = [r \in Record |-> Keys!NoKey]
    BY <1>6 DEF Kill, worldVars
  <2>2. /\ keys' \in [Param -> Keys!Entry] /\ key' \in [Record -> 0..Keys!NoKey]
        /\ answer' \in [Param -> [value : 0..Keys!NoKey, read : 0..MaxNow]]
    BY <1>1, <1>2, <1>a, <2>1
  <2>3. QED BY <1>1, <2>1, <2>2, BoundsRest DEF BoundsInv
<1>7. CASE Tick
  <2>1. /\ UNCHANGED <<version, stored, rotated, keys, answer, key, events, entry>>
        /\ now < MaxNow /\ now' = now + 1
    BY <1>7 DEF Tick, keyVars, worldVars
  <2>2. now' \in 0..MaxNow
    BY <1>1, <2>1 DEF BoundsInv
  <2>3. QED BY <1>1, <2>1, <2>2, BoundsRest DEF BoundsInv
<1>8. ASSUME NEW r \in Record, KeyStep(r)
      PROVE  BoundsInv' /\ events' \in 0..MaxEvents /\ events <= events'
  <2>1. UNCHANGED <<version, stored, rotated, answer, now, events, entry>>
    BY <1>8 DEF KeyStep, Keys!NeedsNoFetch, Keys!UseCached, Keys!Join, Keys!Fetch, worldVars
  <2>2. keys' \in [Param -> Keys!Entry] /\ key' \in [Record -> 0..Keys!NoKey]
    <3>1. CASE Keys!NeedsNoFetch(r) \/ Keys!Join(r)
      BY <3>1 DEF Keys!NeedsNoFetch, Keys!Join, BoundsInv
    <3>2. CASE Keys!UseCached(r)
      <4>1. /\ UNCHANGED keys /\ param[r] \in Param
            /\ key' = [key EXCEPT ![r] = keys[param[r]].value]
        BY <3>2 DEF Keys!UseCached
      <4>2. keys[param[r]].value \in 0..Keys!NoKey
        BY <4>1 DEF BoundsInv, Keys!Entry
      <4>3. QED BY <4>1, <4>2 DEF BoundsInv
    <3>3. CASE Keys!Fetch(r)
      <4>1. /\ UNCHANGED key /\ param[r] \in Param
            /\ keys' = [keys EXCEPT ![param[r]] = [Keys!NoEntry EXCEPT !.kind = "inFlight"]]
        BY <3>3 DEF Keys!Fetch
      <4>2. QED BY <1>2, <4>1 DEF BoundsInv
    <3>4. QED BY <1>8, <3>1, <3>2, <3>3 DEF KeyStep
  <2>3. QED BY <1>1, <2>1, <2>2, BoundsRest DEF BoundsInv
<1>9. ASSUME NEW p \in Param, KeyAnswer(p)
      PROVE  BoundsInv' /\ events' \in 0..MaxEvents /\ events <= events'
  <2>1. UNCHANGED <<version, stored, rotated, now, entry>>
    BY <1>9 DEF KeyAnswer, worldVars
  <2>2. events' \in 0..MaxEvents /\ events <= events'
    BY <1>1, <1>9 DEF KeyAnswer, Keys!FetchFails
  <2>3. /\ keys' \in [Param -> Keys!Entry] /\ key' \in [Record -> 0..Keys!NoKey]
        /\ answer' \in [Param -> [value : 0..Keys!NoKey, read : 0..MaxNow]]
    <3>1. CASE Keys!Fetched(p)
      <4> PICK e : e = [kind |-> "value", value |-> answer[p].value, exp |-> now + KeyTtl,
                        late |-> now - answer[p].read]
        OBVIOUS
      <4>1. /\ keys' = [keys EXCEPT ![p] = e]
            /\ answer' = [answer EXCEPT ![p] = Keys!NoAnswer]
            /\ key' = [r \in Record |->
                 IF r \in Keys!Waiting(p) THEN answer[p].value ELSE key[r]]
        BY <3>1 DEF Keys!Fetched
      <4>2. /\ answer[p].value \in 0..Keys!NoKey /\ answer[p].read \in 0..MaxNow
            /\ answer[p].read <= now /\ now \in 0..MaxNow
        BY DEF BoundsInv, KeysInv
      <4>3. now - answer[p].read \in 0..MaxNow /\ now + KeyTtl \in 0..(MaxNow + KeyTtl)
        BY <1>1, <4>2
      <4>4. e \in Keys!Entry
        BY <4>2, <4>3 DEF Keys!Entry
      <4>5. answer' \in [Param -> [value : 0..Keys!NoKey, read : 0..MaxNow]]
        BY <1>a, <4>1 DEF BoundsInv
      <4>6. QED BY <4>1, <4>2, <4>4, <4>5 DEF BoundsInv
    <3>2. CASE Keys!FetchFails(p)
      BY <1>2, <1>a, <3>2 DEF Keys!FetchFails, BoundsInv
    <3>3. CASE Keys!Served(p)
      <4>1. /\ answer' = [answer EXCEPT ![p] = [value |-> version[p], read |-> now]]
            /\ UNCHANGED <<keys, key>>
        BY <3>3 DEF Keys!Served
      <4>2. version[p] \in 0..Keys!NoKey /\ now \in 0..MaxNow
        BY <1>1 DEF BoundsInv
      <4>3. QED BY <4>1, <4>2 DEF BoundsInv
    <3>4. QED BY <1>9, <3>1, <3>2, <3>3 DEF KeyAnswer
  <2>4. QED BY <1>1, <2>1, <2>2, <2>3, BoundsRest DEF BoundsInv
<1>10. ASSUME NEW r \in Record,
              SyncStep(r) \/ CredentialsStep(r) \/ SkillStep(r) \/ Work(r) \/ Redeliver(r)
       PROVE  BoundsInv' /\ events' \in 0..MaxEvents /\ events <= events'
  <2>1. UNCHANGED <<version, rotated, keys, answer, key, now, entry>>
    BY <1>10 DEF SyncStep, CredentialsStep, SkillStep, Work, Redeliver, keyVars, worldVars
  <2>2. UNCHANGED stored
    BY <1>10 DEF SyncStep, CredentialsStep, Unequipped, Credentials!Begin,
       Credentials!ReadBlock, Credentials!RefuseBlock, Credentials!ReadSsm, Credentials!UseToken,
       Credentials!Mint, Credentials!Minted, Credentials!Resolved, Credentials!ResolveFails,
       SkillStep, Work, Redeliver, worldVars
  <2>3. events' = events \/ (events < MaxEvents /\ events' = events + 1)
    BY <1>10 DEF SyncStep, Copies!CloneFails, Copies!GitFails, CredentialsStep,
       Credentials!ResolveFails, SkillStep, Work, Redeliver
  <2>4. QED BY <1>1, <2>1, <2>2, <2>3, BoundsRest DEF BoundsInv
<1>11. CASE World
  <2>1. UNCHANGED <<keys, answer, key, now, entry>>
    BY <1>11 DEF World, keyVars
  <2>2. events < MaxEvents /\ events' = events + 1
    BY <1>11 DEF World, Copies!Push, Copies!Rewrite, Keys!Rotate, Credentials!Store,
              Credentials!Publish
  <2>3. \A f, S : f \in [S -> 0..events] => f \in [S -> 0..events']
    <3>1. 0..events \subseteq 0..events' BY <1>1, <2>2
    <3>2. QED BY <3>1
  <2>4. version' \in [Param -> 0..events'] /\ rotated' \in [Param -> 0..MaxNow]
    <3>1. CASE UNCHANGED <<version, rotated>> BY <2>3, <3>1 DEF BoundsInv
    <3>2. ASSUME NEW p \in Param, Keys!Rotate(p)
          PROVE  version' \in [Param -> 0..events'] /\ rotated' \in [Param -> 0..MaxNow]
      <4>1. /\ version' = [version EXCEPT ![p] = version[p] + 1]
            /\ rotated' = [rotated EXCEPT ![p] = now]
        BY <3>2 DEF Keys!Rotate
      <4>2. version[p] + 1 \in 0..events' BY <1>1, <2>2 DEF BoundsInv
      <4>3. version \in [Param -> 0..events'] BY <2>3 DEF BoundsInv
      <4>4. QED BY <4>1, <4>2, <4>3 DEF BoundsInv
    <3>3. QED BY <1>11, <3>1, <3>2 DEF World
  <2>5. stored' \in [Project -> 0..events']
    <3>1. CASE UNCHANGED stored BY <2>3, <3>1 DEF BoundsInv
    <3>2. ASSUME NEW p \in Project, Credentials!Store(p) PROVE stored' \in [Project -> 0..events']
      <4>1. stored' = [stored EXCEPT ![p] = stored[p] + 1]
        BY <3>2 DEF Credentials!Store
      <4>2. stored[p] + 1 \in 0..events' BY <1>1, <2>2 DEF BoundsInv
      <4>3. stored \in [Project -> 0..events'] BY <2>3 DEF BoundsInv
      <4>4. QED BY <4>1, <4>2, <4>3
    <3>3. QED BY <1>11, <3>1, <3>2 DEF World
  <2>6. QED BY <1>1, <2>1, <2>2, <2>4, <2>5 DEF BoundsInv, Keys!Entry, Keys!NoKey
<1>12. QED BY <1>3, <1>4, <1>5, <1>6, <1>7, <1>8, <1>9, <1>10, <1>11 DEF Next

(* The commits there are: of as many eras and as long as there were events. *)
Pushed(e) == [era : 0..e, n : 0..e, own : BOOLEAN]
Known == Copies!Commit \cup {Copies!None}

Heads(d) ==
  /\ d.head \in Known /\ d.ref \in Known
  /\ d.tree \in {"half", "whole"} => d.head \in Copies!Commit /\ d.ref \in Copies!Commit

CommitsInv ==
  /\ \A p \in Project : upstream[p] \in Pushed(events) /\ Heads(disk[p]) /\ synced[p] \in Known
  /\ \A r \in Record :
       /\ at[r] <= Len(copies[r]) + 1
       /\ seen[r].local \in Known /\ seen[r].remote \in Known
       /\ \A p \in Project : given[r][p] \in Known

(* A command sees what is there.                                           *)
LEMMA SyncSees ==
  ASSUME CopiesShape, CommitsInv, NEW r \in Record, SyncStep(r), Copies!Syncing(r)
  PROVE  seen'[r].local \in Known /\ seen'[r].remote \in Known
<1>1. Copies!Cur(r) \in Project /\ seen[r] \in [local : Commits, remote : Commits]
  BY SyncingHere DEF CopiesShape
<1>2. /\ disk[Copies!Cur(r)].head \in Known /\ disk[Copies!Cur(r)].ref \in Known
      /\ seen[r].local \in Known /\ seen[r].remote \in Known /\ Copies!None \in Known
  BY <1>1 DEF CommitsInv, Heads, Known
<1>3. CASE Copies!Look(r)
  BY <1>2, <1>3 DEF Copies!Look, Copies!Unseen, CopiesShape
<1>4. CASE Copies!LocalHead(r)
  <2>1. seen' = [seen EXCEPT ![r] = [seen[r] EXCEPT !.local = disk[Copies!Cur(r)].head]]
    BY <1>4 DEF Copies!LocalHead
  <2>2. seen'[r] = [seen[r] EXCEPT !.local = disk[Copies!Cur(r)].head]
    BY <2>1 DEF CopiesShape
  <2>3. QED BY <1>1, <1>2, <2>2
<1>5. CASE Copies!RemoteHead(r)
  <2>1. UNCHANGED seen
        \/ seen' = [seen EXCEPT ![r] = [seen[r] EXCEPT !.remote = disk[Copies!Cur(r)].ref]]
    BY <1>5 DEF Copies!RemoteHead
  <2>2. UNCHANGED seen \/ seen'[r] = [seen[r] EXCEPT !.remote = disk[Copies!Cur(r)].ref]
    BY <2>1 DEF CopiesShape
  <2>3. QED BY <1>1, <1>2, <2>2
<1>6. CASE UNCHANGED seen
  BY <1>2, <1>6
<1>7. QED
  BY <1>3, <1>4, <1>5, <1>6
  DEF SyncStep, Copies!Dedup, Copies!CloneRefused, Copies!Clone, Copies!CloneFetched,
      Copies!Cloned, Copies!CloneHead, Copies!From, Copies!NoHead, Copies!Fetch,
      Copies!FastForward, Copies!MergeRefused, Copies!ResetHard, Copies!NewHead, Copies!Synced,
      Copies!CloneFails, Copies!GitFails, Copies!Throw

(* The commands bring commits of the upstream, and report such.            *)
LEMMA SyncKnows ==
  ASSUME CopiesInv, CommitsInv, NEW r \in Record, SyncStep(r), Copies!Syncing(r),
         events' \in 0..MaxEvents, events <= events'
  PROVE  CommitsInv'
<1> USE DEF CopiesInv
<1>1. Copies!Cur(r) \in Project /\ at[r] \in 1..Len(copies[r])
  BY SyncingHere
<1>2. PICK p \in Project : p = Copies!Cur(r)
  BY <1>1
<1>3. Copies!None \in Known /\ Copies!Commit \subseteq Known
  BY DEF Known
<1>4. \A q \in Project : upstream'[q] \in Pushed(events') /\ upstream[q] \in Copies!Commit
  <2>1. upstream' = upstream /\ events \in 0..MaxEvents
    BY SyncMoves DEF CopiesShape
  <2>2. 0..events \subseteq 0..events' /\ 0..events \subseteq 0..MaxEvents
    BY <2>1, MaxEventsNat
  <2>3. QED BY <2>1, <2>2 DEF CommitsInv, Pushed, Copies!Commit
<1>5. Heads(disk'[p])
  <2>1. Commands(r, disk'[p]) /\ Heads(disk[p]) /\ disk[p] \in Checkouts
    BY <1>2, CheckoutStep DEF CommitsInv, CopiesShape
  <2>2. /\ Copies!Absent.tree = "absent" /\ Copies!Absent.head = Copies!None
        /\ Copies!Absent.ref = Copies!None
        /\ [Copies!Absent EXCEPT !.tree = "cloning"].tree = "cloning"
        /\ [Copies!Absent EXCEPT !.tree = "cloning"].head = Copies!None
        /\ [Copies!Absent EXCEPT !.tree = "cloning"].ref = Copies!None
    BY DEF Copies!Absent
  <2>3. Copies!Cloned(r) => disk[p].tree \in {"half", "whole"}
    BY <1>2 DEF CloneInv, Copies!Cloned, Copies!HasHead
  <2>4. Copies!Fetch(r) \/ Copies!FastForward(r) \/ Copies!ResetHard(r)
          => disk[p].tree \in {"half", "whole"}
    BY <1>2 DEF Copies!Fetch, Copies!FastForward, Copies!ResetHard, Copies!HasHead
  <2>5. upstream[p] \in Copies!Commit
    BY <1>4
  <2>6. /\ disk[p].head \in Known /\ disk[p].ref \in Known
        /\ disk[p].tree \in {"half", "whole"}
             => disk[p].head \in Copies!Commit /\ disk[p].ref \in Copies!Commit
    BY <2>1 DEF Heads
  <2>7. CASE disk'[p] = disk[p]
    BY <2>1, <2>7
  <2>8. CASE disk'[p] \in {Copies!Absent, [Copies!Absent EXCEPT !.tree = "cloning"]}
    BY <1>3, <2>2, <2>8 DEF Heads
  <2>9. CASE disk'[p] = [tree |-> "half", head |-> upstream[p], ref |-> upstream[p],
                         dirty |-> FALSE]
    BY <1>3, <2>5, <2>9 DEF Heads
  <2>10. CASE Copies!Cloned(r) /\ disk'[p] = [disk[p] EXCEPT !.tree = "whole"]
    <3>1. disk'[p].head = disk[p].head /\ disk'[p].ref = disk[p].ref
      BY <2>1, <2>10 DEF Checkouts
    <3>2. QED BY <2>3, <2>6, <2>10, <3>1 DEF Heads
  <2>11. CASE Copies!Fetch(r) /\ disk'[p] = [disk[p] EXCEPT !.ref = upstream[p]]
    <3>1. disk'[p].head = disk[p].head /\ disk'[p].ref = upstream[p]
      BY <2>1, <2>11 DEF Checkouts
    <3>2. QED BY <1>3, <2>4, <2>5, <2>6, <2>11, <3>1 DEF Heads
  <2>12. CASE Copies!FastForward(r) /\ disk'[p] = [disk[p] EXCEPT !.head = disk[p].ref]
    <3>1. disk'[p].head = disk[p].ref /\ disk'[p].ref = disk[p].ref
      BY <2>1, <2>12 DEF Checkouts
    <3>2. QED BY <1>3, <2>4, <2>6, <2>12, <3>1 DEF Heads
  <2>13. CASE /\ Copies!ResetHard(r)
              /\ disk'[p] = [tree |-> "whole", head |-> disk[p].ref, ref |-> disk[p].ref,
                             dirty |-> FALSE]
    <3>1. disk'[p].head = disk[p].ref /\ disk'[p].ref = disk[p].ref
      BY <2>13
    <3>2. QED BY <1>3, <2>4, <2>6, <2>13, <3>1 DEF Heads
  <2>14. QED
    BY <1>2, <2>1, <2>7, <2>8, <2>9, <2>10, <2>11, <2>12, <2>13 DEF Commands
<1>6. /\ \A q \in Project : q # p => disk'[q] = disk[q] /\ synced'[q] = synced[q]
      /\ \A q \in Record : q # r =>
           at'[q] = at[q] /\ seen'[q] = seen[q] /\ given'[q] = given[q]
      /\ \A q \in Project : q # p => given'[r][q] = given[r][q]
      /\ copies' = copies
  BY <1>2, SyncIsLocal, SyncMoves
<1>7. synced'[p] \in Known /\ given'[r][p] \in Known /\ at'[r] <= Len(copies[r]) + 1
  <2>1. /\ synced[p] \in Known /\ given[r][p] \in Known /\ disk[p].head \in Known
        /\ seen[r].local \in Known
    BY DEF CommitsInv, Heads
  <2>2. CASE UNCHANGED <<synced, given, at>>
    BY <2>1, <2>2 DEF CommitsInv
  <2>3. CASE \E c \in Known :
               /\ given' = [given EXCEPT ![r][p] = c] /\ synced' = [synced EXCEPT ![p] = c]
               /\ at' = [at EXCEPT ![r] = at[r] + 1]
    BY <1>1, <2>3 DEF CopiesShape
  <2>4. QED BY <1>2, <2>1, <2>2, <2>3, SyncReports
<1>8. seen'[r].local \in Known /\ seen'[r].remote \in Known
  BY SyncSees
<1>9. \A q \in Project : Heads(disk'[q]) /\ synced'[q] \in Known
  BY <1>5, <1>6, <1>7 DEF CommitsInv
<1>10. \A q \in Record :
         /\ at'[q] <= Len(copies'[q]) + 1 /\ seen'[q].local \in Known /\ seen'[q].remote \in Known
         /\ \A x \in Project : given'[q][x] \in Known
  BY <1>6, <1>7, <1>8 DEF CommitsInv
<1>11. QED BY <1>4, <1>9, <1>10 DEF CommitsInv, Heads, Known

(* What a step leaves of the copies stays as bounded as it was.            *)
LEMMA CommitsRest ==
  ASSUME CopiesShape, CommitsInv, events' \in Nat, events <= events', copies' = copies,
         \A p \in Project :
           /\ upstream'[p] = upstream[p] \/ upstream'[p] \in Pushed(events')
           /\ Heads(disk'[p]) /\ synced'[p] \in {synced[p], Copies!None},
         \A r \in Record :
           /\ at'[r] \in {at[r], 1} /\ seen'[r] \in {seen[r], Copies!Unseen}
           /\ \A p \in Project : given'[r][p] \in {given[r][p], Copies!None}
  PROVE  CommitsInv'
<1>1. 0..events \subseteq 0..events'
  BY MaxEventsNat DEF CopiesShape
<1>2. Pushed(events) \subseteq Pushed(events')
  BY <1>1 DEF Pushed
<1>3. Copies!None \in Known /\ Copies!Unseen.local = Copies!None
      /\ Copies!Unseen.remote = Copies!None
  BY DEF Known, Copies!Unseen
<1>4. \A p \in Project :
        upstream'[p] \in Pushed(events') /\ Heads(disk'[p]) /\ synced'[p] \in Known
  BY <1>2, <1>3 DEF CommitsInv
<1>5. \A r \in Record :
        /\ at'[r] <= Len(copies[r]) + 1
        /\ seen'[r].local \in Known /\ seen'[r].remote \in Known
        /\ \A p \in Project : given'[r][p] \in Known
  <2>1. \A r \in Record : Len(copies[r]) \in Nat
    BY DEF CopiesShape
  <2>2. QED BY <1>3, <2>1 DEF CommitsInv
<1>6. QED BY <1>4, <1>5 DEF CommitsInv, Heads, Known

(* Every step.                                                             *)
LEMMA CommitsStep ==
  ASSUME CopiesInv, CommitsInv, MintInv, [Next]_vars, events' \in 0..MaxEvents,
         events <= events'
  PROVE  CommitsInv'
<1>1. /\ CopiesShape /\ events' \in Nat
      /\ \A p \in Project : Heads(disk[p]) /\ disk[p] \in Checkouts
  BY MaxEventsNat DEF CopiesInv, CopiesShape, CommitsInv
<1>2. ASSUME NEW r \in Record, SyncStep(r) PROVE CommitsInv'
  <2>1. CASE Copies!Syncing(r)
    BY <1>2, <2>1, SyncKnows
  <2>2. CASE ~Copies!Syncing(r)
    <3>1. Copies!Synced(r)
      BY <1>2, <2>2 DEF SyncStep, Copies!Dedup, Copies!Look, Copies!CloneRefused, Copies!Clone,
         Copies!CloneFetched, Copies!Cloned, Copies!CloneHead, Copies!From, Copies!NoHead,
         Copies!Fetch, Copies!LocalHead, Copies!RemoteHead, Copies!FastForward,
         Copies!MergeRefused, Copies!ResetHard, Copies!NewHead, Copies!CloneFails,
         Copies!GitFails, Copies!Runs
    <3>2. UNCHANGED <<copies, at, seen, disk, synced, given, upstream>>
      BY <1>1, <1>2, <3>1, SyncMoves DEF Copies!Synced
    <3>3. QED BY <1>1, <3>2, CommitsRest
  <2>3. QED BY <2>1, <2>2
<1>3. CASE Receive
  <2>1. UNCHANGED <<copies, seen, disk, synced, given, upstream>>
    BY <1>3 DEF Receive, deployVars, worldVars
  <2>2. \A r \in Record : at'[r] \in {at[r], 1}
    BY <1>3 DEF Receive
  <2>3. QED BY <1>1, <2>1, <2>2, CommitsRest
<1>4. CASE Kill
  <2>1. /\ UNCHANGED <<copies, upstream>> /\ synced' = [p \in Project |-> Copies!None]
        /\ at' = [r \in Record |-> 1] /\ seen' = [r \in Record |-> Copies!Unseen]
        /\ given' = [r \in Record |-> [p \in Project |-> Copies!None]]
    BY <1>4 DEF Kill, Copies!CopiesLost, deployVars, worldVars
  <2>2. \A p \in Project : disk'[p] \in {disk[p], [disk[p] EXCEPT !.dirty = TRUE]}
    BY <1>4 DEF Kill, Copies!CopiesLost
  <2>3. \A p \in Project :
          /\ disk'[p].tree = disk[p].tree /\ disk'[p].head = disk[p].head
          /\ disk'[p].ref = disk[p].ref
    BY <1>1, <2>2 DEF Checkouts
  <2>4. \A p \in Project : Heads(disk'[p])
    BY <1>1, <2>3 DEF Heads
  <2>5. QED BY <1>1, <2>1, <2>4, CommitsRest
<1>5. ASSUME NEW r \in Record, Work(r) PROVE CommitsInv'
  <2>1. UNCHANGED <<copies, at, seen, synced, given, upstream>>
    BY <1>5 DEF Work, deployVars, worldVars
  <2>2. PICK p \in Project : Copies!Edit(p)
    BY <1>1, <1>5 DEF Work, CopiesShape
  <2>3. /\ disk[p].tree \in {"half", "whole"}
        /\ \/ disk' = [disk EXCEPT ![p] = [disk[p] EXCEPT !.dirty = TRUE]]
           \/ disk' = [disk EXCEPT ![p] =
                         [disk[p] EXCEPT !.head = [disk[p].head EXCEPT !.own = TRUE]]]
    BY <2>2 DEF Copies!Edit, Copies!HasHead
  <2>4. disk[p].head \in Copies!Commit /\ disk[p].ref \in Copies!Commit
    BY <1>1, <2>3 DEF Heads
  <2>5. [disk[p].head EXCEPT !.own = TRUE] \in Copies!Commit
    BY <2>4 DEF Copies!Commit
  <2>6. PICK d \in {[disk[p] EXCEPT !.dirty = TRUE],
                   [disk[p] EXCEPT !.head = [disk[p].head EXCEPT !.own = TRUE]]} :
          disk' = [disk EXCEPT ![p] = d]
    BY <2>3
  <2>7. /\ disk'[p].head \in Copies!Commit /\ disk'[p].ref \in Copies!Commit
        /\ \A q \in Project \ {p} : disk'[q] = disk[q]
    <3>1. disk \in [Project -> Checkouts]
      BY <1>1 DEF CopiesShape
    <3>2. disk'[p] = d /\ \A q \in Project \ {p} : disk'[q] = disk[q]
      BY <2>6, <3>1
    <3>3. d.head \in {disk[p].head, [disk[p].head EXCEPT !.own = TRUE]} /\ d.ref = disk[p].ref
      BY <1>1, <2>6 DEF Checkouts
    <3>4. QED BY <2>4, <2>5, <3>2, <3>3
  <2>8. \A q \in Project : Heads(disk'[q])
    BY <1>1, <2>7 DEF Heads, Known
  <2>9. QED BY <1>1, <2>1, <2>8, CommitsRest
<1>6. ASSUME NEW p \in Project, World, Copies!Push(p) \/ Copies!Rewrite(p) PROVE CommitsInv'
  <2>1. UNCHANGED <<copies, at, seen, disk, synced, given>>
    BY <1>6 DEF World, deployVars, copyVars
  <2>2. events \in Nat /\ events' = events + 1
    BY <1>6, MaxEventsNat DEF Copies!Push, Copies!Rewrite, CopiesInv, CopiesShape
  <2>3. upstream[p] \in Pushed(events)
    BY DEF CommitsInv
  <2>4. CASE Copies!Push(p)
    <3>1. PICK u : u = [upstream[p] EXCEPT !.n = upstream[p].n + 1]
      OBVIOUS
    <3>2. upstream' = [upstream EXCEPT ![p] = u]
      BY <2>4, <3>1 DEF Copies!Push
    <3>3. u \in Pushed(events')
      BY <2>2, <2>3, <3>1 DEF Pushed
    <3>4. \A q \in Project : upstream'[q] = upstream[q] \/ upstream'[q] \in Pushed(events')
      BY <1>1, <3>2, <3>3 DEF CopiesShape
    <3>5. QED BY <1>1, <2>1, <3>4, CommitsRest
  <2>5. CASE Copies!Rewrite(p)
    <3>1. PICK u : u = [upstream[p] EXCEPT !.era = upstream[p].era + 1]
      OBVIOUS
    <3>2. upstream' = [upstream EXCEPT ![p] = u]
      BY <2>5, <3>1 DEF Copies!Rewrite
    <3>3. u \in Pushed(events')
      BY <2>2, <2>3, <3>1 DEF Pushed
    <3>4. \A q \in Project : upstream'[q] = upstream[q] \/ upstream'[q] \in Pushed(events')
      BY <1>1, <3>2, <3>3 DEF CopiesShape
    <3>5. QED BY <1>1, <2>1, <3>4, CommitsRest
  <2>6. QED BY <1>6, <2>4, <2>5
<1>7. CASE \/ Boot \/ BootWithoutCatalog \/ Refresh \/ Tick \/ UNCHANGED vars
           \/ \E p \in Param : KeyAnswer(p)
           \/ \E r \in Record :
                KeyStep(r) \/ CredentialsStep(r) \/ SkillStep(r) \/ Redeliver(r)
           \/ World /\ UNCHANGED upstream
  <2>1. CopiesRest BY <1>1, <1>7, RestStep DEF CopiesShape
  <2>2. UNCHANGED <<copies, at, seen, disk, synced, given, upstream>>
    BY <2>1 DEF CopiesRest, copyVars
  <2>3. QED BY <1>1, <2>2, CommitsRest
<1>8. World => UNCHANGED upstream \/ \E p \in Project : Copies!Push(p) \/ Copies!Rewrite(p)
  BY DEF World
<1>9. QED BY <1>2, <1>3, <1>4, <1>5, <1>6, <1>7, <1>8 DEF Next

---------------------------------------------------------------------------
(* Theorems *)

ContainerInv == CopiesInv /\ MintInv /\ KeysInv

(* A cold container.                                                       *)
LEMMA ContainerInit == Init => ContainerInv
<1> SUFFICES ASSUME Init PROVE ContainerInv OBVIOUS
<1>1. PICK s \in Scenario :
        /\ copies = s.copies /\ now = MaxNow - s.time /\ events = MaxEvents - s.events
        /\ param = [r \in Record |->
             IF message[r].source = "consumer" THEN s.param[r] ELSE "unsigned"]
        /\ Copies!CopiesInit(s.warm)
  BY DEF Init
<1>2. /\ pc = [r \in Record |-> "waiting"]
      /\ Keys!KeysInit /\ Credentials!CredentialsInit
  BY DEF Init
<1>3. /\ now \in Nat /\ events \in 0..MaxEvents
      /\ copies \in [Record -> Seq(Project)]
      /\ param \in [Record -> Param \cup {"literal", "unsigned"}]
  <2>1. /\ s.time \in 0..MaxNow /\ s.events \in 0..MaxEvents
        /\ s.copies \in [Record -> Seq(Project)]
        /\ s.param \in [Record -> Param \cup {"literal"}]
        /\ MaxNow \in Nat /\ MaxEvents \in Nat
    BY ContainerAssumption
  <2>2. QED BY <1>1, <2>1
<1>4. MintInv BY <1>2 DEF MintInv, Credentials!CredentialsInit
<1>5. KeysInv
  <2>1. Keys!NoEntry \in CachedKey
        /\ Keys!NoEntry.kind = "none" /\ Keys!NoKey \in Nat
        /\ Keys!NoAnswer \in [value : Nat, read : Nat]
        /\ Keys!NoAnswer.value = Keys!NoKey /\ Keys!NoAnswer.read = 0
    BY MaxEventsNat DEF Keys!NoEntry, Keys!NoKey, Keys!NoAnswer, CachedKey
  <2>2. QED BY <1>2, <1>3, <2>1 DEF KeysInv, KeysShape, Keys!KeysInit
<1>6. \A r \in Record : pc[r] \notin Asking \cup Equipping \cup {"sync"}
  BY <1>2 DEF Asking, Equipping
<1>7. /\ at = [r \in Record |-> 1] /\ step = [r \in Record |-> "look"]
      /\ seen = [r \in Record |-> Copies!Unseen]
      /\ upstream = [p \in Project |-> Copies!First]
      /\ \/ disk = [p \in Project |-> [tree |-> "whole", head |-> Copies!First,
                                       ref |-> Copies!First, dirty |-> FALSE]]
            /\ synced = [p \in Project |-> Copies!First]
         \/ disk = [p \in Project |-> Copies!Absent] /\ synced = [p \in Project |-> Copies!None]
      /\ given = [r \in Record |-> [p \in Project |-> Copies!None]]
      /\ disturbed = [p \in Project |-> FALSE]
  BY <1>1 DEF Copies!CopiesInit
<1>8. /\ Copies!First \in Commits /\ Copies!First.era = 0 /\ Copies!None \in Commits
      /\ Copies!Later(Copies!First, Copies!First)
  BY MaxEventsNat DEF Copies!First, Copies!None, Commits, Copies!Later
<1>9. CopiesShape
  <2>1. disk \in [Project -> Checkouts]
    <3>1. Copies!Absent \in Checkouts BY <1>8 DEF Checkouts, Copies!Absent
    <3>2. [tree |-> "whole", head |-> Copies!First, ref |-> Copies!First, dirty |-> FALSE]
            \in Checkouts
      BY <1>8 DEF Checkouts
    <3>3. QED BY <1>7, <3>1, <3>2
  <2>2. seen \in [Record -> [local : Commits, remote : Commits]]
    BY <1>7, <1>8 DEF Copies!Unseen
  <2>3. synced \in [Project -> Commits] /\ given \in [Record -> [Project -> Commits]]
    BY <1>7, <1>8
  <2>4. pc \in [Record -> Progress] BY <1>2 DEF Progress, Settled
  <2>5. QED BY <1>3, <1>7, <1>8, <2>1, <2>2, <2>3, <2>4 DEF CopiesShape, Copies!SyncStep
<1>10. \A r \in Record : ~Copies!Syncing(r) BY <1>6 DEF Copies!Syncing
<1>11. CloneInv BY <1>6, <1>10 DEF CloneInv, Cloning, Copies!Runs
<1>12. HeadInv
  <2>1. \A p \in Project : upstream[p] = Copies!First BY <1>7
  <2>2. \A p \in Project : Copies!HasHead(p) =>
          disk[p].head = Copies!First /\ disk[p].ref = Copies!First
    BY <1>7 DEF Copies!HasHead, Copies!Absent
  <2>3. events >= 0 BY <1>3, MaxEventsNat
  <2>4. QED BY <1>8, <2>1, <2>2, <2>3 DEF HeadInv
<1>13. ToldInv BY <1>6, <1>10 DEF ToldInv, Told, Copies!Runs
<1>14. \A p \in Project : Calm(p)
  BY <1>6, <1>7, <1>10 DEF Calm, Told, Copies!Midway, Copies!Absent
<1>15. QED
  BY <1>4, <1>5, <1>9, <1>11, <1>12, <1>13, <1>14 DEF ContainerInv, CopiesInv, PinInv

(* The step of the inductive invariant.                                    *)
LEMMA ContainerStep ==
  ASSUME ContainerInv, [Next]_vars
  PROVE  ContainerInv' /\ Copies!HeadNeverGoesBackStep /\ Keys!KeysAreCurrentStep
<1>1. CopiesShape BY DEF ContainerInv, CopiesInv
<1>2. CopiesInv' /\ Copies!HeadNeverGoesBackStep BY CopiesStep DEF ContainerInv
<1>3. MintInv' BY <1>1, MintStep DEF ContainerInv
<1>4. KeysInv' /\ Keys!KeysAreCurrentStep BY <1>1, KeysStep DEF ContainerInv
<1>5. QED BY <1>2, <1>3, <1>4 DEF ContainerInv

(* The conjunction that the steps preserve: of the copies, the tokens and  *)
(* the keys.                                                               *)
THEOREM ContainerInvariance == Spec => []ContainerInv
<1>1. ContainerInv /\ [Next]_vars => ContainerInv' BY ContainerStep
<1>2. QED BY ContainerInit, <1>1, PTL DEF Spec

(* A key that lets a record pass is current or was it less than the time   *)
(* to live ago, and only a fetch that was unanswered until then turns a    *)
(* record away (signing-key-resolver.ts): for any number of records,       *)
(* parameters and rotations.                                               *)
THEOREM KeysAreCurrentHolds == Spec => KeysAreCurrent
<1>1. ContainerInv /\ [Next]_vars => [Keys!KeysAreCurrentStep]_vars BY ContainerStep
<1>2. QED BY ContainerInvariance, <1>1, PTL DEF Spec, KeysAreCurrent

(* No step, of a sync, a skill, the world or a kill, takes a checkout back *)
(* to an older commit of its branch (LocalGitWorkspace.sync).              *)
THEOREM HeadNeverGoesBackHolds == Spec => HeadNeverGoesBack
<1>1. ContainerInv /\ [Next]_vars => [Copies!HeadNeverGoesBackStep]_vars BY ContainerStep
<1>2. QED BY ContainerInvariance, <1>1, PTL DEF Spec, HeadNeverGoesBack

(* From its sync to the end of its skill, a record's copies are whole,     *)
(* clean and at the commits it was told, unless they were disturbed.       *)
THEOREM PinnedUnlessDisturbedHolds == Spec => []PinnedUnlessDisturbed
<1>1. ContainerInv => PinnedUnlessDisturbed
  <2> SUFFICES ASSUME ContainerInv, NEW r \in Record, pc[r] \in Equipping,
                      NEW i \in 1..Len(copies[r]), ~disturbed[copies[r][i]]
               PROVE  LET d == disk[copies[r][i]]
                      IN d.tree = "whole" /\ d.head = given[r][copies[r][i]] /\ ~d.dirty
    BY DEF PinnedUnlessDisturbed, Copies!Pinned, Equipping
  <2>1. copies[r][i] \in Project /\ at[r] \in Nat /\ Len(copies[r]) \in Nat
    BY DEF ContainerInv, CopiesInv, CopiesShape
  <2>2. at[r] > Len(copies[r]) BY DEF ContainerInv, CopiesInv, ToldInv
  <2>3. Told(r, i) BY <2>1, <2>2 DEF Told
  <2>4. synced[copies[r][i]] # Copies!None BY <2>3 DEF ContainerInv, CopiesInv, ToldInv
  <2>5. Calm(copies[r][i]) BY <2>1 DEF ContainerInv, CopiesInv, PinInv
  <2>6. QED BY <2>3, <2>4, <2>5 DEF Calm
<1>2. QED BY ContainerInvariance, <1>1, PTL

(* Nothing is resolved or staged in a container that begins.               *)
LEMMA RunsInit == Init => CredInv /\ StagedInv
<1> SUFFICES ASSUME Init PROVE CredInv /\ StagedInv OBVIOUS
<1>1. PICK s \in Scenario :
        scenario = s /\ copies = s.copies /\ published = s.declared /\ now = MaxNow - s.time
  BY DEF Init
<1>2. /\ pc = [r \in Record |-> "waiting"]
      /\ Credentials!CredentialsInit /\ Runs!SkillInit
  BY DEF Init
<1>3. s.time \in 0..MaxNow /\ MaxNow \in Nat
  BY ContainerAssumption
<1>4. /\ now \in Nat /\ scenario \in Scenario
      /\ published \in Credentials!Bundles /\ declared \in Credentials!Bundles
  BY <1>1, <1>2, <1>3 DEF Credentials!CredentialsInit, Credentials!Bundles
<1>5. /\ Credentials!NoToken \in [n : Nat, exp : Nat] /\ Credentials!NoToken.n = 0
      /\ DOMAIN Credentials!Empty = {} /\ Credentials!Empty \in [{} -> Credentials!Value]
      /\ Credentials!Empty \in [{} -> Seq(Credentials!Raw)]
  BY DEF Credentials!NoToken, Credentials!Empty
<1>6. /\ stored = [p \in Project |-> 0]
      /\ tokens = [d \in Domain |-> Credentials!NoToken] /\ minted = [d \in Domain |-> 0]
      /\ block = [r \in Record |-> Credentials!Empty]
      /\ env = [r \in Record |-> Credentials!Empty] /\ todo = [r \in Record |-> {}]
      /\ minting = [r \in Record |-> Credentials!NoToken]
      /\ begun = [r \in Record |-> [at |-> 0, alone |-> TRUE, steady |-> TRUE]]
  BY <1>2 DEF Credentials!CredentialsInit
<1>7. CredShape
  <2>1. \A r \in Record :
          /\ DOMAIN env[r] \subseteq Env /\ env[r] \in [DOMAIN env[r] -> Credentials!Value]
          /\ todo[r] = {} /\ Blocks(block[r])
    BY <1>5, <1>6 DEF Blocks
  <2>2. /\ tokens \in [Domain -> [n : Nat, exp : Nat]]
        /\ minting \in [Record -> [n : Nat, exp : Nat]]
        /\ stored \in [Project -> Nat] /\ minted \in [Domain -> Nat]
    BY <1>5, <1>6
  <2>3. /\ begun \in [Record -> [at : Nat, alone : BOOLEAN, steady : BOOLEAN]]
        /\ \A r \in Record : begun[r].at = 0
    BY <1>6
  <2>4. DOMAIN block = Record /\ DOMAIN env = Record /\ DOMAIN todo = Record
    BY <1>6
  <2>5. \A r \in Record : begun[r].at <= now
    BY <1>4, <2>3
  <2>6. QED BY <1>4, <2>1, <2>2, <2>3, <2>4, <2>5 DEF CredShape
<1>8. \A d \in Domain : tokens[d].n <= minted[d]
  BY <1>5, <1>6
<1>9. \A r \in Record : RunInv(r)
  <2>1. \A r \in Record : DOMAIN block[r] = {} /\ minting[r] = Credentials!NoToken
    BY <1>5, <1>6
  <2>2. QED BY <1>2, <2>1 DEF RunInv, Knows, Equipped
<1>10. StagedInv
  BY <1>2 DEF StagedInv, Runs!SkillInit, Runs!Child
<1>11. QED BY <1>7, <1>8, <1>9, <1>10 DEF CredInv

(* The environment of every run that resolves, or that is equipped, is     *)
(* what its entries so far declared; a token on its way is for the entry   *)
(* that is next; what a skill needs is on disk before the agent starts.    *)
THEOREM RunsInvariance == Spec => [](CredInv /\ StagedInv)
<1>1. ContainerInv /\ (CredInv /\ StagedInv) /\ [Next]_vars => (CredInv /\ StagedInv)'
  BY RunsStep DEF ContainerInv, CopiesInv
<1>2. QED BY RunsInit, ContainerInvariance, <1>1, PTL DEF Spec

(* A coding agent runs in an environment that has what the blocks its run  *)
(* read for the projects of its copies declare, each from the source they  *)
(* declared, and nothing else, with its skills on disk                     *)
(* (target-credentials/resolver.ts, runner.ts): for any catalogs and any   *)
(* number of runs that share the token cache.                              *)
THEOREM SkillIsEquippedHolds == Spec => []SkillIsEquipped
<1>1. ContainerInv /\ CredInv /\ StagedInv => SkillIsEquipped
  <2> SUFFICES ASSUME ContainerInv, CredInv, StagedInv, NEW r \in Record, child[r] = "runs"
               PROVE  r \in staged /\ (resolverWired(descriptor) => Credentials!Equipped(r))
    BY DEF SkillIsEquipped
  <2>1. pc[r] = "skill" /\ r \in staged
    BY DEF StagedInv
  <2>2. ASSUME resolverWired(descriptor) PROVE Credentials!Equipped(r)
    <3> PICK b, e : b = block[r] /\ e = env[r]
      OBVIOUS
    <3>1. CredShape /\ RunInv(r) /\ Blocks(b)
      BY DEF CredInv, CredShape
    <3>2. /\ DOMAIN b = {copies[r][i] : i \in DOMAIN copies[r]}
          /\ begun[r].steady => \A p \in DOMAIN b : b[p] = declared[p]
      BY <2>1, <2>2, <3>1 DEF RunInv, Equipped, Projects
    <3>3. Resolves(b, e, Credentials!Places(b))
      BY <2>1, <2>2, <3>1 DEF RunInv, Knows, Equipped, Done
    <3>4. ASSUME NEW v \in DOMAIN e
          PROVE  \E x \in Credentials!Places(b) :
                   /\ v \in Credentials!envNamesOf(Credentials!Item(b, x))
                   /\ Credentials!Item(b, x).name = "fine"
                   /\ Credentials!Item(b, x).provider = "ssm" =>
                        Credentials!Item(b, x).path = "own"
      <4>1. PICK x \in Credentials!Places(b) :
              v \in Credentials!envNamesOf(Credentials!Item(b, x))
        BY <3>3 DEF Resolves
      <4>2. /\ Credentials!parseCredentialsExtension(b[x.project])
            /\ x.at \in DOMAIN b[x.project]
        BY <3>1, PlacesAre
      <4>3. Credentials!parseEntry(Credentials!Item(b, x))
        BY <4>2 DEF Credentials!parseCredentialsExtension, Credentials!Item
      <4>4. /\ Credentials!Item(b, x).name = "fine"
            /\ Credentials!Item(b, x).provider = "ssm" => Credentials!Item(b, x).path = "own"
        BY <4>3 DEF Credentials!parseEntry, Credentials!parseCodeArtifactEntry,
                    Credentials!parseSsmEntry, Credentials!requireEnvName
      <4>5. QED BY <4>1, <4>4
    <3>5. \A x \in Credentials!Places(b) :
            \A v \in Credentials!envNamesOf(Credentials!Item(b, x)) :
              v \in DOMAIN e /\ e[v].of = Credentials!Source(b, x, v)
      BY <3>3 DEF Resolves, Filled
    <3>6. QED BY <3>2, <3>4, <3>5 DEF Credentials!Equipped
  <2>3. QED BY <2>1, <2>2
<1>2. QED BY ContainerInvariance, RunsInvariance, <1>1, PTL

(* A run that ends in env-conflict has read blocks that disagree on a      *)
(* name, and so does the bundle the container serves unless it changed     *)
(* under the run; or the run shared the token cache with another mint or   *)
(* with the clock since it began (target-credentials/resolver.ts).         *)
THEOREM ConflictsAreRealHolds == Spec => ConflictsAreReal
<1>1. ContainerInv /\ (CredInv /\ StagedInv) /\ [Next]_vars
        => [Credentials!ConflictsAreRealStep]_vars
  BY RunsStep DEF ContainerInv, CopiesInv
<1>2. QED BY ContainerInvariance, RunsInvariance, <1>1, PTL DEF Spec, ConflictsAreReal

(* Whom a container serves stays as it was decided.                        *)
LEMMA ServeInit == Init => ServeInv
<1> SUFFICES ASSUME Init PROVE ServeInv OBVIOUS
<1>1. PICK s \in Scenario :
        /\ agent = s.agent /\ descriptor = s.descriptor
        /\ message \in [Record -> Messages(s.agent, s.descriptor)]
        /\ entry = IF s.warm THEN "ready" ELSE "cold"
  BY DEF Init
<1>2. \A r \in Record : pc[r] = "waiting"
  BY DEF Init
<1>3. /\ s.agent \in Agent /\ (s.warm => Starts(s.agent, s.descriptor))
      /\ \A k \in s.descriptor.skills : k.role \in {"entrypoints", "support"}
  BY ContainerAssumption
<1>4. QED BY <1>1, <1>2, <1>3 DEF ServeInv

(* A deployed agent starts, its shim takes every message that reaches it,  *)
(* and its handler may make its calls; a container of any descriptor that  *)
(* serves has sound skills, the grants its entry wired and a registry for  *)
(* what is signed (agent-stack.ts, the agents' lambda.ts).                 *)
THEOREM DeployedAgentsServeHolds == Spec => []DeployedAgentsServe
<1>1. ServeInv => DeployedAgentsServe
  <2> SUFFICES ASSUME ServeInv PROVE DeployedAgentsServe OBVIOUS
  <2>1. ASSUME descriptor = Roster[agent]
        PROVE  /\ entry # "failed"
               /\ \A r \in Record : pc[r] # "rejected"
               /\ \A client \in Clients[agent] : gateClientsByNeeds(descriptor, client)
               /\ HandlerCalls(agent) \subseteq Grants(descriptor, FALSE)
    BY <2>1, RosterMayCall DEF ServeInv
  <2>2. ASSUME entry = "ready"
        PROVE  /\ \A s \in descriptor.skills :
                    loadEntrypoint(s) \/ (load(s) /\ s.role = "support")
               /\ SignedTrigger(descriptor) => EntryOf[agent].registry
               /\ \A configured \in BOOLEAN :
                    EntryCalls(agent, descriptor, configured)
                      \subseteq Grants(descriptor, configured)
    <3>1. Starts(agent, descriptor) /\ agent \in Agent
      BY <2>2 DEF ServeInv
    <3>2. \A s \in descriptor.skills : loadEntrypoint(s) \/ (load(s) /\ s.role = "support")
      BY <3>1 DEF Starts, buildRuntime, validateSkillsCompatibility, ServeInv
    <3>3. SignedTrigger(descriptor) => EntryOf[agent].registry
      BY <3>1 DEF Starts, createSqsLambdaShim
    <3>4. QED BY <3>1, <3>2, <3>3, StartsGranted
  <2>3. QED BY <2>1, <2>2 DEF DeployedAgentsServe
<1>2. ContainerInv /\ ServeInv /\ [Next]_vars => ServeInv'
  BY ServeStep DEF ContainerInv, CopiesInv
<1>3. QED BY ServeInit, ContainerInvariance, <1>1, <1>2, PTL DEF Spec

(* What begins is within the bounds.                                       *)
LEMMA BoundsInit == Init => BoundsInv /\ CommitsInv
<1> SUFFICES ASSUME Init PROVE BoundsInv /\ CommitsInv OBVIOUS
<1>1. PICK s \in Scenario :
        /\ now = MaxNow - s.time /\ events = MaxEvents - s.events
        /\ copies = s.copies /\ entry = IF s.warm THEN "ready" ELSE "cold"
        /\ Copies!CopiesInit(s.warm)
  BY DEF Init
<1>2. Keys!KeysInit /\ Credentials!CredentialsInit
  BY DEF Init
<1>3. /\ s.time \in 0..MaxNow /\ s.events \in 0..MaxEvents /\ MaxNow \in Nat
      /\ MaxEvents \in Nat /\ KeyTtl \in Nat /\ s.copies \in [Record -> Seq(Project)]
  BY ContainerAssumption
<1>4. /\ now \in 0..MaxNow /\ events \in 0..MaxEvents /\ events \in Nat /\ 0 \in 0..events
      /\ 0 \in 0..MaxNow
  BY <1>1, <1>3
<1>5. BoundsInv
  <2>1. Keys!NoEntry \in Keys!Entry /\ Keys!NoKey \in 0..Keys!NoKey
        /\ Keys!NoAnswer \in [value : 0..Keys!NoKey, read : 0..MaxNow]
    BY <1>3 DEF Keys!NoEntry, Keys!Entry, Keys!NoKey, Keys!NoAnswer
  <2>2. /\ keys \in [Param -> Keys!Entry] /\ key \in [Record -> 0..Keys!NoKey]
        /\ answer \in [Param -> [value : 0..Keys!NoKey, read : 0..MaxNow]]
    BY <1>2, <2>1 DEF Keys!KeysInit
  <2>3. version \in [Param -> 0..events] /\ rotated \in [Param -> 0..MaxNow]
    BY <1>2, <1>4 DEF Keys!KeysInit
  <2>4. stored \in [Project -> 0..events]
    BY <1>2, <1>4 DEF Credentials!CredentialsInit
  <2>5. entry \in {"cold", "ready", "failed", "no-catalog"}
    BY <1>1
  <2>6. QED BY <1>4, <2>2, <2>3, <2>4, <2>5 DEF BoundsInv
<1>6. /\ at = [r \in Record |-> 1] /\ seen = [r \in Record |-> Copies!Unseen]
      /\ upstream = [p \in Project |-> Copies!First]
      /\ \/ disk = [p \in Project |-> [tree |-> "whole", head |-> Copies!First,
                                       ref |-> Copies!First, dirty |-> FALSE]]
            /\ synced = [p \in Project |-> Copies!First]
         \/ disk = [p \in Project |-> Copies!Absent] /\ synced = [p \in Project |-> Copies!None]
      /\ given = [r \in Record |-> [p \in Project |-> Copies!None]]
  BY <1>1 DEF Copies!CopiesInit
<1>7. /\ Copies!First \in Pushed(events) /\ Copies!First \in Copies!Commit
      /\ Copies!First \in Known /\ Copies!None \in Known
  BY <1>3, <1>4 DEF Copies!First, Pushed, Copies!Commit, Known
<1>8. Heads(Copies!Absent)
      /\ Heads([tree |-> "whole", head |-> Copies!First, ref |-> Copies!First, dirty |-> FALSE])
  BY <1>7 DEF Heads, Copies!Absent
<1>9. \A p \in Project : upstream[p] \in Pushed(events) /\ Heads(disk[p]) /\ synced[p] \in Known
  BY <1>6, <1>7, <1>8
<1>10. \A r \in Record :
         /\ at[r] <= Len(copies[r]) + 1
         /\ seen[r].local \in Known /\ seen[r].remote \in Known
         /\ \A p \in Project : given[r][p] \in Known
  <2>1. \A r \in Record : Len(copies[r]) \in Nat
    BY <1>1, <1>3
  <2>2. QED BY <1>6, <1>7, <2>1 DEF Copies!Unseen
<1>11. QED BY <1>5, <1>9, <1>10 DEF CommitsInv

(* The container stays within its types: every count is within the bounds  *)
(* of the model, every commit, token and version one that was made, and a  *)
(* token on its way to a run that waits for it.                            *)
THEOREM TypeOKHolds == Spec => []TypeOK
<1>1. ContainerInv /\ (CredInv /\ StagedInv) /\ BoundsInv /\ CommitsInv => TypeOK
  <2> SUFFICES ASSUME ContainerInv, CredInv, StagedInv, BoundsInv, CommitsInv PROVE TypeOK
    OBVIOUS
  <2>1. CopiesShape /\ KeysShape /\ CredShape /\ MintInv
    BY DEF ContainerInv, CopiesInv, KeysInv, CredInv
  <2>2. events \in 0..MaxEvents /\ 0..events \subseteq 0..MaxEvents
    BY <2>1, MaxEventsNat DEF CopiesShape
  <2>3. Keys!KeysTypeOK
    <3>1. version \in [Param -> 0..MaxEvents]
      BY <2>2 DEF BoundsInv
    <3>2. QED BY <2>1, <3>1 DEF Keys!KeysTypeOK, KeysShape, BoundsInv
  <2>4. Copies!CopiesTypeOK
    <3>1. \A r \in Record : at[r] \in 1..(Len(copies[r]) + 1)
      <4>1. \A r \in Record : at[r] \in Nat \ {0} /\ Len(copies[r]) \in Nat
        BY <2>1 DEF CopiesShape
      <4>2. QED BY <4>1 DEF CommitsInv
    <3>2. seen \in [Record -> [local : Copies!Commit \cup {Copies!None},
                               remote : Copies!Commit \cup {Copies!None}]]
      <4>1. \A r \in Record : seen[r] \in [local : Commits, remote : Commits]
        BY <2>1 DEF CopiesShape
      <4>2. \A r \in Record : seen[r] \in [local : Known, remote : Known]
        BY <4>1 DEF CommitsInv
      <4>3. DOMAIN seen = Record /\ seen = [r \in DOMAIN seen |-> seen[r]]
        BY <2>1 DEF CopiesShape
      <4>4. QED BY <4>2, <4>3 DEF Known
    <3>3. upstream \in [Project -> Copies!Commit]
      <4>1. Pushed(events) \subseteq Copies!Commit
        BY <2>2 DEF Pushed, Copies!Commit
      <4>2. QED BY <2>1, <4>1 DEF CopiesShape, CommitsInv
    <3>4. disk \in [Project -> Copies!Checkout]
      <4>1. \A p \in Project : disk[p] \in Checkouts /\ disk[p].head \in Known
                               /\ disk[p].ref \in Known
        BY <2>1 DEF CopiesShape, CommitsInv, Heads
      <4>2. \A p \in Project : disk[p] \in Copies!Checkout
        BY <4>1 DEF Checkouts, Copies!Checkout, Known
      <4>3. QED BY <2>1, <4>2 DEF CopiesShape
    <3>5. synced \in [Project -> Copies!Commit \cup {Copies!None}]
      BY <2>1 DEF CopiesShape, CommitsInv, Known
    <3>6. given \in [Record -> [Project -> Copies!Commit \cup {Copies!None}]]
      <4>1. \A r \in Record : given[r] \in [Project -> Commits]
        BY <2>1 DEF CopiesShape
      <4>2. \A r \in Record : given[r] \in [Project -> Known]
        BY <4>1 DEF CommitsInv
      <4>3. QED BY <2>1, <4>2 DEF CopiesShape, Known
    <3>7. QED
      BY <2>1, <3>1, <3>2, <3>3, <3>4, <3>5, <3>6 DEF Copies!CopiesTypeOK, CopiesShape
  <2>5. Credentials!CredentialsTypeOK
    <3>1. stored \in [Project -> 0..MaxEvents]
      BY <2>2 DEF BoundsInv
    <3>2. \A d \in Domain : tokens[d].n \in 0..minted[d]
      <4>1. \A d \in Domain : tokens[d].n \in Nat /\ minted[d] \in Nat
        BY <2>1 DEF CredShape
      <4>2. QED BY <4>1 DEF CredInv
    <3>3. \A r \in Record : \A e \in DOMAIN env[r] : env[r][e] \in Credentials!Value
      BY <2>1 DEF CredShape
    <3>4. \A r \in Record : DOMAIN block[r] \subseteq Project /\ DOMAIN env[r] \subseteq Env
      BY <2>1 DEF CredShape, Blocks
    <3>5. published \in Credentials!Bundles /\ declared \in Credentials!Bundles
      BY <2>1 DEF CredShape
    <3>6. \A r \in Record : minting[r] # Credentials!NoToken => todo[r] # {}
      BY <2>1 DEF MintInv
    <3>7. QED BY <3>1, <3>2, <3>3, <3>4, <3>5, <3>6 DEF Credentials!CredentialsTypeOK
  <2>6. Runs!SkillTypeOK
    BY DEF Runs!SkillTypeOK, StagedInv
  <2>7. QED
    BY <2>1, <2>2, <2>3, <2>4, <2>5, <2>6 DEF TypeOK, BoundsInv, CopiesShape
<1>2. BoundsInv /\ CommitsInv /\ ContainerInv /\ [Next]_vars => (BoundsInv /\ CommitsInv)'
  BY BoundsStep, CommitsStep DEF ContainerInv, CopiesInv, CopiesShape
<1>3. Init => BoundsInv /\ CommitsInv BY BoundsInit
<1>4. QED BY ContainerInvariance, RunsInvariance, <1>1, <1>2, <1>3, PTL DEF Spec
===============================================================================
