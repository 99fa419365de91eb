---------------------------- MODULE AgentContainer ----------------------------
(***************************************************************************)
(* One Lambda container of a deployed agent: it starts, takes batches of   *)
(* records off its queue and runs the records of a batch side by side, all *)
(* over the caches of one process and the working copies of one disk.      *)
(*                                                                         *)
(* A record passes from its signing key (SigningKeys) to the sync of its   *)
(* projects (WorkingCopies), their credentials (TargetCredentials) and the *)
(* skill (SkillRun).  What the shim and the handlers do around that is in  *)
(* SqsShim and in the agents' modules; here it is the outcome of a record. *)
(* Whether the container serves at all is Deployment's.                    *)
(***************************************************************************)
EXTENDS Deployment, FiniteSets

CONSTANTS
  Record, Param, Project, Env, Domain, Repository, Answer,
  Scenario,   \* the deployments and workloads to look at
  KeyTtl, TokenLife,
  MaxNow,     \* bound on the clock
  MaxEvents   \* bound on what the world does: pushes, rotations, failures, ...
              \* (a scenario starts both where they leave it its own share)

VARIABLES
  scenario,           \* the one of this behaviour
  agent, descriptor,  \* what is deployed
  entry,              \* the cached promise of the handler
  message,            \* message[r]: what record r is
  now, events, pc,
  param, keys, fetching, answer, version, rotated, key,
  copies, at, step, seen, upstream, disk, synced, given, disturbed,
  published, declared, stored, tokens, minted, block, env, todo, minting, begun,
  staged, child, left

Keys == INSTANCE SigningKeys
Copies == INSTANCE WorkingCopies
Credentials == INSTANCE TargetCredentials
Runs == INSTANCE SkillRun WITH call <- scenario.call

(* A token may be handed out for some time after it was minted (12 hours   *)
(* less the margin of 10 minutes), and what is warm has started.           *)
ASSUME ContainerAssumption ==
  /\ KeyTtl \in Nat /\ TokenLife \in Nat \ {0} /\ MaxNow \in Nat /\ MaxEvents \in Nat
  /\ Domain \cap Project = {} /\ Repository \cap (Domain \cup Project) = {}
  /\ \A s \in Scenario :
       /\ s.agent \in Agent
       /\ \A k \in s.descriptor.skills : k.role \in {"entrypoints", "support"}
       /\ s.time \in 0..MaxNow /\ s.events \in 0..MaxEvents
       /\ s.copies \in [Record -> Seq(Project)]
       /\ s.declared \in Credentials!Bundle /\ s.edits \subseteq Credentials!Bundle
       /\ s.param \in [Record -> Param \cup {"literal"}]
       /\ s.warm \in BOOLEAN /\ (s.warm => Starts(s.agent, s.descriptor))

deployVars == <<scenario, agent, descriptor, message, param, copies>>
keyVars == <<keys, fetching, answer, key>>
copyVars == <<at, step, seen, disk, synced, given, disturbed>>
credVars == <<declared, tokens, minted, block, env, todo, minting, begun>>
skillVars == <<staged, child, left>>
worldVars == <<version, rotated, upstream, stored, published>>
vars == <<deployVars, entry, now, events, pc, keyVars, copyVars, credVars, skillVars,
          worldVars>>

Settled == {"waiting", "done", "failed", "unavailable", "conflict", "rejected"}
Active == {r \in Record : pc[r] \notin Settled}

Progress == Settled \cup {"key", "key-wait", "sync", "credentials", "resolving",
                          "equipped", "staged", "skill", "answered", "threw"}

TypeOK ==
  /\ entry \in {"cold", "ready", "failed", "no-catalog"}
  /\ pc \in [Record -> Progress] /\ now \in 0..MaxNow /\ events \in 0..MaxEvents
  /\ Keys!KeysTypeOK /\ Copies!CopiesTypeOK /\ Credentials!CredentialsTypeOK
  /\ Runs!SkillTypeOK

Init ==
  /\ \E s \in Scenario :
       /\ scenario = s
       /\ agent = s.agent /\ descriptor = s.descriptor
       /\ message \in [Record -> Messages(s.agent, s.descriptor)]
       /\ param = [r \in Record |->
            IF message[r].source = "consumer" THEN s.param[r] ELSE "unsigned"]
       /\ copies = s.copies /\ published = s.declared
       /\ now = MaxNow - s.time /\ events = MaxEvents - s.events
       /\ entry = IF s.warm THEN "ready" ELSE "cold"
       /\ Copies!CopiesInit(s.warm)
  /\ Synthesizes(agent, descriptor)
  /\ pc = [r \in Record |-> "waiting"]
  /\ Keys!KeysInit /\ Credentials!CredentialsInit /\ Runs!SkillInit

---------------------------------------------------------------------------
(* The container *)

(* The first batch awaits the handler's promise, for which the catalog is  *)
(* loaded; whatever comes of it is cached for the life of the process.     *)
Boot ==
  /\ entry = "cold" /\ Credentials!Load
  /\ entry' = IF Starts(agent, descriptor) THEN "ready" ELSE "failed"
  /\ UNCHANGED <<deployVars, now, events, pc, keyVars, copyVars, tokens, minted, block, env,
                 todo, minting, skillVars, worldVars>>

(* S3Catalog.load rejects. *)
BootWithoutCatalog ==
  /\ entry = "cold" /\ events < MaxEvents /\ Starts(agent, descriptor)
  /\ entry' = "no-catalog" /\ events' = events + 1
  /\ UNCHANGED <<deployVars, now, pc, keyVars, copyVars, credVars, skillVars, worldVars>>

(* The catalog's background refresh is answered while the process runs:    *)
(* S3Catalog has how one comes about.                                      *)
Refresh ==
  /\ entry = "ready" /\ Active # {} /\ Credentials!Load
  /\ UNCHANGED <<deployVars, entry, now, events, pc, keyVars, copyVars, tokens, minted, block,
                 env, todo, minting, skillVars, worldVars>>

(* An invocation: a container serves one batch at a time. *)
Receive ==
  /\ entry = "ready" /\ Active = {}
  /\ \E batch \in SUBSET {r \in Record : pc[r] = "waiting"} :
       /\ batch # {}
       /\ pc' = [r \in Record |->
            IF r \notin batch THEN pc[r]
            ELSE IF Admits(agent, descriptor, message[r]) THEN "key" ELSE "rejected"]
       /\ at' = [r \in Record |-> IF r \in batch THEN 1 ELSE at[r]]
       /\ step' = [r \in Record |-> IF r \in batch THEN "look" ELSE step[r]]
       /\ key' = [r \in Record |-> IF r \in batch THEN Keys!NoKey ELSE key[r]]
       /\ child' = [r \in Record |-> IF r \in batch THEN "none" ELSE child[r]]
  /\ UNCHANGED <<deployVars, entry, now, events, keys, fetching, answer, seen, disk, synced,
                 given, disturbed, credVars, staged, left, worldVars>>

(* A failed record comes back to the queue. *)
Redeliver(r) ==
  /\ pc[r] \in Settled \ {"waiting", "done"} /\ events < MaxEvents
  /\ pc' = [pc EXCEPT ![r] = "waiting"]
  /\ events' = events + 1
  /\ UNCHANGED <<deployVars, entry, now, keyVars, copyVars, credVars, skillVars, worldVars>>

(* The invocation times out or the process dies; /tmp stays.  "staged" are *)
(* the directories of this process's runs: no later run looks at another's.*)
Kill ==
  /\ Active # {} \/ entry \in {"failed", "no-catalog"}
  /\ events < MaxEvents /\ events' = events + 1
  /\ entry' = "cold"
  /\ pc' = [r \in Record |-> IF r \in Active THEN "waiting" ELSE pc[r]]
  /\ keys' = [p \in Param |-> Keys!NoEntry] /\ fetching' = {}
  /\ answer' = [p \in Param |-> Keys!NoAnswer]
  /\ key' = [r \in Record |-> Keys!NoKey]
  /\ Copies!CopiesLost
  /\ tokens' = [d \in Domain |-> Credentials!NoToken]
  /\ block' = [r \in Record |-> Credentials!Empty]
  /\ env' = [r \in Record |-> Credentials!Empty]
  /\ todo' = [r \in Record |-> {}]
  /\ minting' = [r \in Record |-> Credentials!NoToken]
  /\ staged' = {} /\ left' = {} /\ child' = [r \in Record |-> "none"]
  /\ UNCHANGED <<deployVars, now, declared, minted, begun, worldVars>>

Tick ==
  /\ now < MaxNow /\ now' = now + 1
  /\ UNCHANGED <<deployVars, entry, events, pc, keyVars, copyVars, credVars, skillVars,
                 worldVars>>

---------------------------------------------------------------------------
(* The records *)

KeyStep(r) ==
  /\ Keys!NeedsNoFetch(r) \/ Keys!UseCached(r) \/ Keys!Join(r) \/ Keys!Fetch(r)
  /\ UNCHANGED <<deployVars, entry, now, events, copyVars, credVars, skillVars, worldVars>>

KeyAnswer(p) ==
  /\ \/ (Keys!Served(p) \/ Keys!Fetched(p)) /\ UNCHANGED events
     \/ Keys!FetchFails(p)
  /\ UNCHANGED <<deployVars, entry, now, copyVars, credVars, skillVars, worldVars>>

SyncStep(r) ==
  /\ \/ /\ \/ Copies!Dedup(r) \/ Copies!Look(r)
           \/ Copies!CloneRefused(r) \/ Copies!Clone(r) \/ Copies!CloneFetched(r)
           \/ Copies!Cloned(r) \/ Copies!CloneHead(r)
           \/ Copies!From(r) \/ Copies!NoHead(r) \/ Copies!Fetch(r)
           \/ Copies!LocalHead(r) \/ Copies!RemoteHead(r)
           \/ Copies!FastForward(r) \/ Copies!MergeRefused(r)
           \/ Copies!ResetHard(r) \/ Copies!NewHead(r) \/ Copies!Synced(r)
        /\ UNCHANGED events
     \/ Copies!CloneFails(r) \/ Copies!GitFails(r)
  /\ UNCHANGED <<deployVars, entry, now, keyVars, credVars, skillVars, worldVars>>

(* Agents without the need run the skill with nothing. *)
Unequipped(r) ==
  /\ pc[r] = "credentials" /\ scenario.call[r] /\ ~resolverWired(descriptor)
  /\ pc' = [pc EXCEPT ![r] = "equipped"]
  /\ UNCHANGED <<stored, credVars>>

CredentialsStep(r) ==
  /\ \/ /\ \/ scenario.call[r] /\ resolverWired(descriptor) /\ Credentials!Begin(r)
           \/ Unequipped(r)
           \/ Credentials!ReadBlock(r) \/ Credentials!RefuseBlock(r) \/ Credentials!ReadSsm(r)
           \/ Credentials!UseToken(r) \/ Credentials!Mint(r)
           \/ Credentials!Minted(r) \/ Credentials!Resolved(r)
        /\ UNCHANGED events
     \/ Credentials!ResolveFails(r)
  /\ UNCHANGED <<deployVars, entry, now, keyVars, copyVars, skillVars, declared, version,
                 rotated, upstream, published>>

SkillStep(r) ==
  /\ \/ Runs!RefuseCall(r) \/ Runs!Stage(r) \/ Runs!Spawn(r)
     \/ "linger" \in scenario.world /\ Runs!LeaveBehind(r)
     \/ Runs!Reap(r) \/ Runs!Exit(r) \/ Runs!Close(r) \/ Runs!Timeout(r)
     \/ Runs!Cleanup(r)
  /\ UNCHANGED <<deployVars, entry, now, events, keyVars, copyVars, credVars, worldVars>>

(* The agent, or a process it left behind, works in a copy. *)
Work(r) ==
  /\ "edit" \in scenario.world /\ (child[r] = "runs" \/ r \in left)
  /\ \E i \in DOMAIN copies[r] : Copies!Edit(copies[r][i])
  /\ UNCHANGED <<deployVars, entry, now, events, pc, keyVars, at, step, seen, synced,
                 given, credVars, skillVars, worldVars>>

---------------------------------------------------------------------------
(* The world *)

World ==
  /\ \/ /\ "push" \in scenario.world
        /\ \E p \in Project : Copies!Push(p) \/ Copies!Rewrite(p)
        /\ UNCHANGED <<version, rotated, stored, published>>
     \/ /\ "rotate" \in scenario.world
        /\ \E p \in Param : Keys!Rotate(p)
        /\ UNCHANGED <<upstream, stored, published>>
     \/ /\ "store" \in scenario.world
        /\ \E p \in Project : Credentials!Store(p)
        /\ UNCHANGED <<upstream, version, rotated, published>>
     \/ /\ "publish" \in scenario.world
        /\ Credentials!Publish
        /\ UNCHANGED <<upstream, version, rotated, stored>>
  /\ UNCHANGED <<deployVars, entry, now, pc, keyVars, copyVars, credVars, skillVars>>

Next ==
  \/ Boot \/ BootWithoutCatalog \/ Refresh \/ Receive \/ Kill \/ Tick \/ World
  \/ \E p \in Param : KeyAnswer(p)
  \/ \E r \in Record :
       \/ KeyStep(r) \/ SyncStep(r) \/ CredentialsStep(r) \/ SkillStep(r) \/ Work(r)
       \/ Redeliver(r)

Spec == Init /\ [][Next]_vars

---------------------------------------------------------------------------
(* Properties *)

(* A deployed agent starts, but for a catalog it could not load, its shim  *)
(* takes every message its stack and its own handlers send it, and its     *)
(* handler may make the calls it makes.  Of whatever descriptor, a         *)
(* container that serves has skills that load and fit, is granted what its *)
(* entry wired, and verifies what its first consumer trigger wants signed. *)
DeployedAgentsServe ==
  /\ descriptor = Roster[agent] =>
       /\ entry # "failed"
       /\ \A r \in Record : pc[r] # "rejected"
       /\ \A client \in Clients[agent] : gateClientsByNeeds(descriptor, client)
       /\ HandlerCalls(agent) \subseteq Grants(descriptor, FALSE)
  /\ entry = "ready" =>
       /\ \A s \in descriptor.skills : loadEntrypoint(s) \/ (load(s) /\ s.role = "support")
       /\ SignedTrigger(descriptor) => EntryOf[agent].registry
       /\ \A configured \in BOOLEAN :
            EntryCalls(agent, descriptor, configured) \subseteq Grants(descriptor, configured)

(* See SigningKeys. *)
KeysAreCurrent == [][Keys!KeysAreCurrentStep]_vars

(* See WorkingCopies. *)
HeadNeverGoesBack == [][Copies!HeadNeverGoesBackStep]_vars

(* A skill starts in copies that are as it was told: see WorkingCopies. *)
PinnedUnlessDisturbed ==
  \A r \in Record :
    pc[r] \in {"credentials", "resolving", "equipped", "staged", "skill"} => Copies!Pinned(r)

(* While the coding agent runs, its staged skills are on disk and its      *)
(* environment has what the blocks read for its projects declare, and      *)
(* nothing else.                                                           *)
SkillIsEquipped ==
  \A r \in Record : child[r] = "runs" =>
    /\ r \in staged
    /\ resolverWired(descriptor) => Credentials!Equipped(r)

(* See TargetCredentials. *)
ConflictsAreReal == [][Credentials!ConflictsAreRealStep]_vars
===============================================================================
