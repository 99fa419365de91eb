# A TLA+ model of pennyworth

pennyworth is a fleet of agents on one runtime. Messages reach an agent through
an SQS queue; a Lambda shim verifies, claims and dispatches them; handlers read
a catalog, sync working copies, start a coding agent and hand messages on to
themselves. This directory holds the TLA+ model of that machinery, the TLC
configurations that check it, and the TLAPS proofs about it.

## The system: components, state, operations

| component | source | state | operations | hard part |
|---|---|---|---|---|
| SQS Lambda shim | `core/runtime/src/aws-mode` | tasks of a batch, container memory | `handler`, `processRecord` | every await interleaves with other records, other invocations and redeliveries; a rejected `Promise.all` leaves tasks behind |
| idempotency store | `core/runtime/src/idempotency` | one DynamoDB row per MessageId | `claim`, `complete`, `expire` | conditional writes, lost answers, stale workers |
| timeout interlock | `infra/src/agent-stack.ts` | none | Lambda timeout < claim window < visibility | three constants in three places |
| deployment | `infra/src`, `core/runtime/src/descriptor`, `agents/*/lambda.ts` | the cached promise of the handler | synth, cold start | descriptor, stack, entry and handler are four packages that must agree |
| envelope verification | `core/runtime/src/envelope`, `consumer-registry` | none | `verifyEnvelope` | clock read on every delivery |
| self-publish | `core/runtime/src/self-publish` | EventBridge schedules | `publish`, `publishDelayed` | conflict on a derived name counts as success |
| bump-it | `agents/bump-it/src` | catalog snapshot | stages init, breakdown, revisit | fan-out retried half way; a loop that feeds itself; opt-in re-checked |
| document-it | `agents/document-it/src` | catalog snapshot | init, breakdown | as bump-it without revisits |
| ship-it | `agents/ship-it/src` | catalog snapshot | init (five step runners), revisit | as bump-it, fed by events of one ticket that overlap, with gates read from event, catalog and release |
| ship-it-normalizer | `agents/ship-it-normalizer/src` | dedupe map per container | webhook handler | dedupe against send failures and several containers |
| ask-the-code, triage-it | `agents/*/src` | event emitter per run | request handler, terminal reply | events and reply on two channels, at least once each |
| catalog reader | `core/catalog-it/src/s3-catalog.ts` | snapshot, refresh in flight | reads, background refresh | stale snapshot, coalesced refreshes |
| catalog curation | `core/catalog-it/src` | project files, `.catalogit-state.json`, the S3 object | add, pull, publish | ETag guard, crash between files and state |
| working copies | `core/runtime/src/working-copy` | clones under one root, the projects synced | `sync` | the records of a batch share one directory, and /tmp outlives the process |
| signing keys | `agents/*/signing-key-resolver.ts` | cache with a time to live | resolve | coalesced fetches, failures that must not stick |
| target credentials | `core/runtime/src/target-credentials` | token cache | resolve | a run's blocks and entries are read one after the other while other runs refresh the token cache and a refresh swaps the catalog |
| skill runner | `core/runtime/src/skill` | staging directory | `runSkill` | a subprocess that outlives its parent, a timer that races it |
| local CLI, logger, in-memory workspace, catalog discovery | | none | | no state, or a developer's alone |

How they interact: the queue delivers to the shim; the shim verifies the record
(signing key), calls the store and the agent's handler; a handler calls the
runtime (catalog, working copies, credentials, skill), and publishes to its own
queue at once or through a schedule, whose firing is a message of the queue
again. The records of a batch run side by side in one process and on one disk.

What makes each correct:

- shim, store, interlock: no acknowledgement without a handler run that
  returned; completed rows are final; one live handler per message; a retry is
  not turned away; every message is acknowledged or dead-lettered.
- self-publish: what an acknowledged run had to hand on is never dropped.
- bump-it: the follow-up of a PR is bounded and comes to rest; only opted-in
  projects are touched.
- reply protocol: a request that was acknowledged as completed has its terminal
  reply (a failed one may miss it, finding 4); events and reply agree.
- normalizer: a webhook answered with success was sent or filtered; within the
  dedupe window of one container it is one message, and one more for each answer
  that SQS lost.
- catalog: the state file is true to the tree; a guarded publish overwrites
  nobody else's work; a refresh never goes back.
- ship-it, document-it: as bump-it; a ticket's chains of revisits are as many as
  its code-it runs.
- working copies: a skill starts in a copy that is whole, clean and at the
  commit its handler was told; no sync takes a checkout back.
- caches: a key that lets a record pass is current or recently was, counted from
  the receipt of the answer; a failed fetch turns away only who waited for it;
  credentials conflict only when the blocks that were read do, and these are one
  bundle's unless the catalog changed during the run.
- deployment: what the stack lets in, the shim takes; what is called, is granted.

## Modules

| module | models |
|---|---|
| `IdempotencyStore` | the store's conditional writes as operators on a row |
| `SqsShim` | queue, Lambda service, invocations and `processRecord`, one action per stretch between two awaits |
| `AtLeastOnce` | the delivery contract, abstract: work, mark, acknowledge, give up |
| `MCSqsShim` | TLC instances; `Sparse` mishaps, `Prompt` polling |
| `SqsShimProofs` | proofs about `SqsShim`: interlock, acknowledgement, redelivery, the contract |
| `SelfPublish` | the loop of an agent that feeds its own queue, whatever its handler decides |
| `SelfPublishProofs` | proofs about that loop, for any handler: nothing is lost, what may still come is bounded |
| `BumpIt` | bump-it's stages and revisit loop, over `SelfPublish` |
| `MCBumpIt` | TLC instances |
| `BumpItProofs` | bump-it is a publisher loop, and what follows; its revisit budget |
| `TerminalReply` | what ask-the-code and triage-it share: delivery, events, temp directory, how a run ends |
| `AskTheCode`, `TriageIt` | the two handlers, one action per await |
| `ReplyAgents` | both agents with their requests; properties |
| `ReplyAgentsProofs` | proofs about them |
| `ShipIt`, `DocumentIt` | two more users of `SelfPublish` |
| `Agents` | `ReplyAgents`, `ShipIt` and `DocumentIt` side by side |
| `MCAgents` | TLC instance |
| `AgentsProofs` | ship-it and document-it are publisher loops; ship-it's revisit budget; what holds of the answering agents holds beside them |
| `CatalogCuration` | curators' trees and state files, the published object; pull, publish, add |
| `MCCatalogCuration` | TLC instances |
| `CatalogCurationProofs` | proofs about it |
| `S3Catalog` | a container's snapshot of the published bundle: load, reads, background refresh |
| `Normalizer` | the webhook normalizer's containers, over `S3Catalog` |
| `MCNormalizer` | TLC instance |
| `NormalizerProofs` | proofs about both |
| `SigningKeys` | the key cache of a container |
| `WorkingCopies` | `sync`, one action per git command, over the copies of a container |
| `TargetCredentials` | the environment a skill gets, entry by entry, over the token cache |
| `SkillRun` | one `runSkill` call: staging, subprocess, pipes, timer, answer |
| `Deployment` | descriptor, stack, entries and gates as operators |
| `AgentContainer` | composes these five: a container starts, takes batches, is killed |
| `MCAgentContainer` | TLC instance: what is deployed and what its records do |
| `AgentContainerProofs` | proofs about keys, working copies, credentials, skill runs, and whom the container serves |

Operators introduced as *seeded faults* (`ClaimableAtEnd`, `FireKeeps`, ...)
are the code with one plausible mistake in it. No behaviour of the model uses
them; putting one in the place of the operator below it must break a property,
and `PROJECT.json` lists which. They document what each property is there for.

### SqsShim and the code

`queue[m]` is the SQS message (where it is, when it becomes visible, how often
it was received), `row[m]` the DynamoDB item, `inv[i]` a Lambda invocation,
`task[i][m]` the run of `processRecord` for one record; `task.pc` names the await
it is suspended at, or the status it returned. `Receive` is the start of
`handler` up to the first await of every record, `Respond` the end of
`Promise.all` and the deletion of what is not in `batchItemFailures`. A `claim()`
that throws is not caught in `processRecord`: the invocation becomes
`rejected`, SQS keeps the whole batch, and the other tasks stay in the frozen
container, from where they may resume at any later time or be reaped.
`ClaimAnswerLost` is the SDK's own retry of an applied write: the worker meets
its own claim and reports `duplicate-in-flight`.

Left out on purpose: clock skew between containers (one clock is read by all);
the 30-day deletion of completed rows (the queue keeps a message for days); the
delay between a poll and the invocation; the SDK re-sending an applied
`expire()`; parse, envelope and body rejections are one status, since queue and
store see no difference.

### SelfPublish and BumpIt

A worker is a handler run: `started` (message delivered), `skill` (awaiting the
coding agent), `publishing` (one await per message handed on). What the shim
guarantees is taken from `SqsShim`: a message comes back when its run fails and
is acknowledged when it returns; now and then it is run twice. Receive counts
are abstracted: any failed delivery may be the last. The order in which a run
publishes is arbitrary in the model and the list's order in the code, which
covers more. `deriveScheduleName` hashes agent, stage and canonical payload;
the model takes the hash to be injective. `Toggle` changes the container's
catalog snapshot; which PRs a skill reports, and whether it asks for another
revisit, is arbitrary.

`SelfPublish` has no run of its own: bump-it, ship-it and document-it each
instantiate it, and their runs fire all of its actions.

### ShipIt, DocumentIt and Agents

The gates of `handleInit` are conjuncts in the order of the code: the project's
slice (`inView`, `enabled`), the event's own admission by label, mention or kind
(`admitted`), the status map (a project's map replaces the default), the release
switch. A gate that does not hold skips the message, which is a success; a body
that does not parse throws on each delivery alike (`Reject`). `step[w]` is the
runner a worker is in; only code-it hands on something. A revisit asks none of the
gates again. `Toggle` is a change of the snapshot or a deployment with other
switches, at any time. The ticket's state in Jira is read by the normalizer and
comes with the event; the working copy and the skill of a step are one await, as
a failure of either fails the run.

A PR is named by its ticket, as code-it works on the branch `ship-it/<ticketKey>`;
two runs of code-it on one ticket therefore derive the same first revisit. What
a skill answers (a PR or none, another revisit or none) is arbitrary. `codeRuns`
and `ciRevisits` are history that no guard reads.

document-it is the same loop without a delay: a tick fans out one breakdown per
project of the snapshot, a breakdown re-reads the opt-in and audits.

Agents have a queue, a snapshot and a process each and share nothing, so
`Agents` lets a behaviour feed one of them; this keeps the instance small and
loses no interleaving. `AgentsProofs` does not use it.

### TerminalReply, AskTheCode, TriageIt

`run[r].pc` is the await a handler run is suspended at, `run[r].events` what
reached the event bus, `dir[r]` the temp directory of attachments or evidence.
A dropped event is logged and the run goes on. `return failTerminal(...)` inside
`try ... finally` starts the failure's event and reply, and then the cleanup
beside them: `Cleanup` may therefore fall anywhere between `failing` and
`returned`, and `Return` waits for both. On success the cleanup is awaited before
the reply is sent. A removal that fails, or a crash, leaves the directory behind
(`left`); later runs make their own. Requests of the model name a queue for the
reply, and their agent has a client for it: `deliverTerminalReply` returns without
sending when either is missing, which is local mode. Delivery is abstracted to what `SqsShim`
shows: one live run per message, acknowledged when it returns, redelivered when
it throws or dies. Whether a request is invalid or an archive breaks a rule is
fixed per request by constants; the stages' own failures are arbitrary. Requests
share no state, so `ReplyAgents` lets one arrive and spends the bound on faults.

### CatalogCuration

`file[c]` is the tree of curator c, `base[c]` the ETag in its state file,
`cmd[c]` the command running in it with what it holds in local variables,
`remote` the S3 object. The ETag of an object is taken to be its content, since
`bundleCatalog` is deterministic. Of a record only the spine is kept, and of the
spine only whether it is a skeleton's or a curator's; a description decides
nothing here. `pull` writes file by file, loads the whole tree to find the
local-only files, and records the ETag last; it may be killed in between, with a
file cut short. `publish` loads the files, then reads the state, then puts under
`If-Match` or, forced, without. `history` is bookkeeping that no action reads:
which files a curator changed (`own`), whether a pull left a tree half written
(`torn`), whether the object has differed from the baseline (`moved`).

Abstracted: a tree runs one command at a time; loading the files of a tree is
one step, as a pull and a publish in one tree do not overlap; an ETag given by
hand (`--if-match`) is the curator's own responsibility and left out; dry runs and
`validate` change nothing; `discover` is a sequence of `add`s.

### S3Catalog and Normalizer

`published` is the sequence of bundles the S3 object has held, a bundle the set
of projects it opts in or `Garbled`; `snapshot[c]` is the position of the one
container c serves reads from. `flight[c]` holds c's gets with the ETag they sent
and S3's answer; that there is one at most is what `#refreshInFlight` is for, and
is proved. The ETag is the content's, so that a bundle that came back is "not
modified". `handler[c]` is the cached promise of the initialisation, rejected for
good when the first load fails. `run[c]` is the one request a container handles
at a time, `claims[c]` its dedupe map.

One action is one stretch between two awaits: `Deliver` up to the await of the
handler, `Normalize` from there through claim and gates to the await of the send
(the map's `claim` is async but never waits), `Sent` and `SendFailed` what follows
it. A frozen container runs nothing: a get that was answered while it was frozen
is taken during some later run, or its connection is gone by then (`GetLost`).
The normalizer's SQS client tries a `SendMessage` up to 5 times
(`core/runtime/src/aws-mode/client-config.ts:27`), also when SQS took it and only the
answer was lost, and SQS keeps each try as a message of its own: a send that returns
may have put several (`Puts`), and one that throws, or is cut short by `Recycle`,
any number up to all. A provider sends any delivery at any time, to any container, also
while it is being handled elsewhere. `sent`, `lost`, `dropped` and `keeper` are
history; `sent` is read only by the bound `MaxSent`.

Abstracted: both times to live are events without a clock (`SnapshotExpires`,
`ClaimExpires`; the latter between two runs, since expired claims are swept by
the next `claim`); the gates that look at the event alone are `ProjectOf`, which
names no project for an event they turn down; a request with a bad signature or
body is a run that changes nothing (`Refuse`); whether an answer reaches the
provider makes no difference, as it may send again in any case.

### AgentContainer and its parts

`pc[r]` says how far record r of the container is: `key`, `sync`, `credentials`
and `resolving`, `equipped`, `staged`, `skill`, `answered`, and how it ended. What
the shim and the handlers do around that is in `SqsShim` and the agents' modules,
so a record that ended is only redelivered or not. `Receive` starts a batch,
`Kill` ends the process in the middle of one: everything in memory goes, /tmp
stays. `events` counts what the world does, `now` is one clock for all.

`SigningKeys`: a fetch is shared by the records that ask for it while it is in
flight. SSM reads the parameter at one moment (`Served`), the container takes the
answer at a later one and counts the time to live from there; the parameter may be
rotated in between, and the container frozen. The answer is stored, or the failure
forgotten, before any of the waiting records goes on; that continuation and theirs
are one action (`Fetched`, `FetchFails`). `rotated[p]`, when the parameter last
changed, and `late`, how long the answer with a cached value was on its way, are
history: a rotated key may pass for the time to live and that long, which nothing but
the life of the container bounds.

`WorkingCopies`: `step[r]` is the git command the sync of record r runs next,
`at[r]` the project it is at, `seen[r]` what `rev-parse` told it. git is external,
and each of its commands is one action (a clone excepted): that a fetch reads the
upstream a moment before it moves the ref, and that another fetch may come in between,
is left to git's locks on refs and not modelled.
A commit is its place in the upstream's history, `<<era, n>>`, a rewrite begins a
new era, and `own` says that it was made here. The first dirty file stands for all of
them. A clone leaves an unborn HEAD, then a checkout that is being filled, then
one that is whole; a kill leaves any of the three. `reset --hard` cleans, a refused
merge leaves everything. `given[r]` is the `headSha` the handler was told.
`disturbed[p]` is history: two syncs of p overlapped, a skill or a process it left
behind worked in it, or a git command was killed in it.

`TargetCredentials`: `resolveFor` takes the projects of a run one after the other,
each once, and asks the catalog for a project's block when its turn comes
(`ReadBlock`). `published` is the bundle in S3, `declared` the one the container
serves; `Refresh` of `AgentContainer` may swap it between two projects, and `block[r]`
is what r has read. A block is validated as a whole and refused before anything of it
is resolved; its entries are then resolved in order, with an await for each read of
SSM and each token minted. `todo[r]` holds the places (project, index) that are left
of that block, and `NextPlace` is the first of them. Mints are not coalesced.
An entry gives its secret and a variable for each of its endpoints (`Values`). A
repository's endpoint never changes, so that its lookup and the cache of lookups are
left out but for a lookup that fails after the token was cached (`ResolveFails`).
Two sources are taken to have different values: that two projects store one secret
under two names, or that two domains issue one token, is not in the model. `begun[r]`
(when, whether any other run minted since, whether the bundle served is still the
same) and `minted` are history, for what is said of conflicts and of the blocks. The
redaction of secrets in the output is left out.

`SkillRun`: the run ends by `close`, which waits for every process that holds the
pipes, or by the timer, which kills the coding agent only; `left` are runs with a
process still alive after that. The limit of what is captured, the command line
and the wording of the answer are left out: an answer is whether it has a fence,
text after it, whether it parses and conforms.

`Deployment` translates four packages on their own: the descriptor's validation
as the set of issue categories a descriptor has (missing and ill-typed fields are
one flag), the variables and grants the stack gives (`StackEnv`, `Grants`), what an
entry requires, wires and calls (`Entry`, `EntryCalls`), and what the runtime
refuses at start-up. `Roster` is the deployed agents; a behaviour deploys one of
them with its own descriptor, with one edit of it, or with another agent's.

## Runs

| run | question | bounds |
|---|---|---|
| `shim_batches` | no acknowledgement without work, one success without faults, interlock, freshness guard, and the invariants the proofs rest on | 2 messages in batches of 2, 2 invocations, any two of: a store fault, a crash, a duplicate |
| `shim_contract` | the shim implements `AtLeastOnce`; every message is settled | a signed and a malformed message, 2 deliveries each, prompt polling |
| `unmarked_rerun` | finding 1 | smallest instance with a batch-mate |
| `expired_rejected` | finding 2 | one signed message, no fault |
| `bumpit` | the same of bump-it; revisits stay within the cap's budget; the loop comes to rest; bump-it is a publisher loop | 1 project and PR, 2 ticks, 2 runs, a fault, an opt-out |
| `bumpit_cap` | finding 3 | one tick, no fault |
| `agents` | events, reply, files and acknowledgement agree; every request is settled; ship-it and document-it lose nothing they owe, stay within the revisits' budget and come to rest | each kind of request, 4 faults; 3 events of one ticket, of which 2 happen, 2 runs, 1 mishap, a cap of 2, a changed catalog or release; a tick over 2 projects |
| `reply_lost` | finding 4 | one fault |
| `curation` | the state file is true to the tree; a guarded publish keeps others' work | 2 curators, 2 projects, 2 edits, 2 writes of the object, a kill or lost answer |
| `add_skeleton` | finding 5 | one curator, one project |
| `webhook` | no claim hides what was not dealt with, one container sends once but for answers that SQS lost, snapshots never go back and catch up | 2 containers, 1 delivery, 3 bundles out of 4, 2 attempts per send, 2 messages |
| `container` | a deployed agent serves its queue and is granted what it calls; keys are current; copies are what handlers were told; skills are equipped; conflicts are real | 2 records, 1 parameter, 2 projects, 2 domains, 2 repositories, a clock of 3, 3 events, shared out by workload |

Why the bounds are enough: the shim's rows belong to one message each, and
messages meet only in a batch (one answer for all) and in the slots they occupy, so
two messages show every such meeting; a message's history is a sequence of
claims, and two slots give a holder that was displaced and its successor. A
third claimant changes nothing that TLC would see and the proofs do not: they
hold for any number of invocations, faults and crashes. The interlock uses the smallest numbers that satisfy the strict
inequalities of the code (2 < 3 < 4 for 15 min < 16 min < 17 min). `MaxTime`
lets two redeliveries happen; in `shim_contract` time is never stopped by the
bound, because `Prompt` lets it pass only while something is queued or open.

In `curation` two writes of the object are one curator's and another's who is
based on what it replaced; two edits let both curators, or one before and after
a pull, change something. `PublishKeepsOthersEdits` excepts a tree torn by a
pull when the object has moved since its baseline: if the object then comes back
to that content, a third write, the ETag matches again and the half-pulled files
pass the guard. TLC finds this with three writes when the exception is dropped; it
takes a publish that reverts another one (`core/catalog-it/src/cli.ts:181`), so it is recorded here.

In `webhook` containers meet only in the bundle and in a delivery, so two of them
and one delivery, sent any number of times, show what one container's map can and
cannot do; three bundles are enough for a refresh to be overtaken, for a bundle to
come back, and for a garbled one between two good ones. Two attempts (the code
has 5) are enough for one answer to be lost before another arrives, and for all to be,
and two messages for one too many. The proofs hold for any number of each.

In `agents` the cap of 2 gives a chain of three revisits, long enough for a
revisit that is neither the first nor the last; two events let two runs of code-it
overlap or a release change between them, and one mishap forks a chain or repeats
a publish. All but coming to rest is proved for any bounds.

`container` looks at one meeting at a time: a workload says what the two records
work on, how far, and what the world may do meanwhile, and starts the clock and the
count of events where they leave it its own share. `Deployable` starts every agent with
every single edit of its descriptor and of the others'. `SharedKey` has both
records wait for one parameter that is rotated, with a time to live of 2 within a
clock of 3. `SharedCopy` has both sync one project, while the branch is
pushed to or rewritten, one run edits the copy and the process is killed;
`MovingUpstream` has three pushes or rewrites and no edit, and `Lingering` adds a
process that goes on after its run. `TwoProjects` has one record resolve the
credentials of two projects, and the other those of the second. In `Agreeing` both
have a token of one domain and the endpoint of one repository, and the first a secret
that may change, with tokens that live for one tick; in `Unusable` they disagree in an
endpoint or a secret, or one claims another's parameter or a reserved name; in `Moves`
a curator moves both, or one, from a domain to another while they are resolved.
Two records are enough for every meeting of the code, which is pairwise: a
cache entry, a directory or the environment of one run and whoever changes it. The
proofs hold for any number of them and any workload.

`CHECK_DEADLOCK FALSE`: all these systems may come to rest, with every message
settled, every budget spent.

## Fairness

`ServiceFairness`: SQS delivers a visible message again and again (strong
fairness of `Receive` per message, since other messages take the slots in
between) and moves it to the dead-letter queue past the receive count; Lambda
answers a finished invocation and recycles containers; a task of a running
invocation steps, or its invocation is killed at the deadline. Nothing makes a
handler succeed, a store call work or a frozen container thaw. bump-it's
`FairSpec`: schedules fire, the queue is polled, a handler run goes on or fails.
ship-it's
and document-it's are the same. The reply agents': the queue redelivers, a run
goes on or dies. The container has none: what is said of it is safety, and that a
message is settled in the end is `SqsShim`'s. The normalizer's:
time passes (weak fairness of `SnapshotExpires`), and of gets that are sent again
and again not all are lost: S3 answers some, and a container that runs again and
again takes some of the answers (strong fairness, as any one get may fail and its
container be frozen or recycled).
Nothing makes a provider send or a container normalize; `CatchesUp` speaks only
of one that does again and again.

## What the checks found

1. `unmarked_rerun`: a comment promises that a failed `complete()` does not
   re-run the handler, because the message is acknowledged. A batch-mate whose
   `claim()` throws prevents the acknowledgement.
2. `expired_rejected`: a signed message whose handler failed is not retried: its
   redelivery comes 17 minutes later and is rejected by the 5-minute timestamp
   check.
3. `bumpit_cap`: the cap of "2 revisits per PR" lets three run: counts 0, 1, 2.
4. `reply_lost`: terminal replies are documented as at-least-once; a failure
   reply that cannot be sent is logged and the request acknowledged without one.
5. `add_skeleton`: `add` on a cataloged project asks to "re-draft its description
   (spine preserved)". When the agent fails twice it writes a bare skeleton, and
   the record's branch and extensions, with a curator's opt-outs, are gone.

Seen while modelling the normalizer: a container whose first
load fails rejects every delivery until it is recycled (the agents' entries cache
theirs in the same way, `BootWithoutCatalog`); a delivery that a stale
snapshot filtered keeps its claim. No document promises otherwise. That the
dedupe map is one container's is recorded in the code and in `ASSUMPTIONS.md`:
`SentOnceByOneContainer` says what it does guarantee. The comment there calls the map
"the only line of defense" against duplicates; those that the SDK makes inside one
`send()`, when SQS's answer is lost, it never sees.

Seen while modelling, and as documented: a revisit does not read the opt-in
again, so a project that opts out may still get the revisits under way.

Seen while modelling ship-it, the containers and the deployment, without a run of
their own:

- `agents/ship-it/README.md:20` bounds code-it's revisits "at 3 cycles"; counts 0
  to 3 run, four of them, as in finding 3. `ShipItRevisitBudget` counts four.
- `core/runtime/src/needs/registry.ts:9` and `agents/bump-it/src/lambda.ts:48`
  say that a need's secrets are resolved at cold start and that infra provisions
  `GITHUB_TOKEN`; neither does, as `agents/document-it/src/lambda.ts:63` admits.
  `Deployment` follows the code: no secret is among the stack's variables.
- `buildRuntime` never passes `isCompatible` to the execution helper
  (`core/runtime/src/execution/resolve.ts:27`), so a run may choose a coding agent
  that its skill does not declare.
- A clone that was killed with its process is taken for a checkout by the next
  container on the same disk, and fetch and rev-parse succeed in it; the copy is
  then handed out unfilled. `PinnedUnlessDisturbed` excepts it, by name.
- A container syncs a project once in its life: a warm one works at the commit of
  its first sync until it is recycled.
- Two projects may fail with `env-conflict` although they agree in every bundle:
  when the catalog's snapshot is swapped between the reads of their blocks
  (`target-credentials/resolver.ts:75`), so that a run has the old block of one and
  the new block of the other; and, with one CodeArtifact domain and one name, when
  the token rolls over while their entries are resolved. `ConflictsAreReal` says of
  the first that the blocks read disagree, and that those served do unless they
  changed during the run; the second it excepts.
- A signing key that was rotated may pass for longer than the time to live: the
  cache counts from the receipt of SSM's answer, which may be old by then.
- A `git merge-base` that fails counts as one that finds no ancestor
  (`local-git-workspace.ts:111-114`), and the checkout is reset.
- The margin before a cached token expires is 10 minutes
  (`providers/codeartifact.ts:51`), less than a skill may run.
- `add` writes back a spine it read minutes before
  (`core/catalog-it/src/add.ts:217`), over what the curator edited meanwhile.

## Proofs

All theorems hold for every value of the constants under the named assumptions:
`InterlockAssumption`, `BoundAssumption`, `CapAssumption`, `CatalogAssumption`,
`KeeperAssumption`, `AgentsAssumption`, `PublishersAssumption`,
`SendAssumption`, `SkewAssumption` and `ContainerAssumption`, which the modules state and TLC
evaluates, and `SelfPublishAssumption`, which is a hypothesis of the loop's theorems
and is proved of each agent that uses the loop. Most only type the constants and keep
sentinels apart. The others are the code's: `InterlockAssumption` (timeout < claim window < visibility),
`SkewAssumption` (an envelope is accepted for less than a visibility timeout: 5
minutes against 17), and in `ContainerAssumption` that a token lives for some time
and that a container that is warm at first passed its own start-up checks.

`SqsShimProofs`. Types first (`TypeCorrect`). The invariant behind the
interlock and the freshness guard is `IInv`: clock readings in order
(`ClockOrder`), claims identified by their stamp (`ClaimIdentity`). Neither
`AtMostOneLiveHandler` nor `RunningClaimIsOnlyReclaimed` is inductive: they need
that a displaced worker's window ended before its successor's stamp, which needs
that windows are ordered as claims were made. `AtMostOneLiveHandler` follows: two
claims of a message lie more than a claim window apart, which is longer than an
invocation lives. The invariant behind acknowledgement is `WInv`
(`WorkRecorded`): whatever says "done", a row, a status or a deletion, has a
success behind it; `CompletedIsFinal` and the refinement of `AtLeastOnce`
(`ShimImplementsContract`) follow step by step.

`SucceedsOnceWithoutFaults` rests on `OInv`: as long as nothing failed, an idle
invocation holds no task, and a success that is counted is the row's or its
`complete()` is on the way (`CountedOnce`), so a second task finds a live claim or
a completed row. `RedeliveryIsNotBlocked` rests on `RInv`: without store faults and
duplicates a message has one task at a time, and is invisible for a visibility
timeout from the start of its invocation (`OneDelivery`). A claim is over by then if
it was stamped at that start. That of a signed message is stamped later, after
verification; what saves it is that the redelivered envelope is too old to reach
the claim at all (`Unblocked`). This is what `SkewAssumption` is for: with a skew
window as long as the visibility timeout, TLC finds the redelivery after a crash
that still verifies and meets the live claim.

`SelfPublishProofs`. `PInv` adds `RunsInOrder`: each target of a run is still to
be handed on or was reached. `ReachedStays` is the core: no step takes a message
out of queue, schedules, dead letters and runs without settling it.

The budgets need a sum over queue, schedules and runs. `Credit` is that sum for any
worth given to the bodies: `Total` counts the points below a function (`Spread`), so
that no recursion is needed and the library's facts about cardinality apply. A lemma
per step of the loop says what it does to the credit (`ArriveCredit` to
`ScheduleCredit`): only what arrives and what a failure leaves to be delivered again
adds to it, a worker that goes on never does (`NoNewClaims`).

`BumpItProofs`. Every step of bump-it is a step of the loop or none
(`StepIsLoopStep`), so `PInv` carries over, and bump-it refines the loop.
`RevisitBudget` is not inductive, since it forgets the revisits that are already on
the way. `WithinBudget` adds them, each follow-up worth the revisits its counter
leaves it (`Worth`): a revisit moves one from what may come to what was, and a tick
or a fault adds one chain of at most `REVISIT_CAP + 1`.

`ReplyAgentsProofs`. `ReplyInv` has a part per promise, and one step touches one
request (`OneRun`). `VerdictInv` says of each stretch of a run which verdict it may
have; without it a reply could follow an event that says otherwise. `StageInv`
places every `pc` among the stages (`Stage`), so that the ranks of a run's events
are increasing and bounded: `StagesInOrder` alone forgets where the run is.
`DeliveredInv` ties the acknowledgement to what was replied, `AskFilesInv` and
`TriageFilesInv` the directory to the stretches that need it. `TypeOK` needs a
bound on what a run tells: five ranks for ask-the-code, whose events go through them
in order (`AskBrief`), and a count per stretch for triage-it (`BriefInv`).

`AgentsProofs`. Every step of ship-it and of document-it is a step of the loop or
leaves it alone, so the loop's invariant carries over (`LoopsInv`). `FleetAnswers`
lifts the theorems about the answering agents to the composition. Ship-it's budget is
argued as bump-it's (`BudgetsInv`), but a code-it run opens the chain: until its
outcome is sent it has one to open (`ShipLeft`), which a failure can make it open
again.

`AgentContainerProofs`. `KeysInv` says that an answer is the parameter's value, or
was read before its rotation, that a cached value is the parameter's or expires
within a time to live of its rotation and its lateness, and that what is in flight is
waited for. `CopiesInv` is the long one. `HeadNeverGoesBack` needs `HeadInv` (the
branch is at or past what was fetched, that at or past the head) and `CloneInv` (one
clone at a time, of which a checkout is made). `PinnedUnlessDisturbed` is about
records that are past their sync, and is inductive only with what a sync under way
may rely on: as long as nothing disturbed a copy, one record at most is midway in
it, it is clean, and once it is recorded as synced it is whole and nobody is midway
(`Calm`); `ToldInv` says that who was told of a copy was told of one recorded as
synced. `MintInv` is there for the resolution of credentials to keep records where
the copies' invariant expects them.

`ConflictsAreReal` and the credentials' half of `SkillIsEquipped` rest on `CredInv`.
Of each run (`RunInv`): its blocks are of its projects, of all of them in the end, and
as long as the catalog is steady they are the served ones; its environment is exactly
what the entries resolved so far left there (`Resolves`); a token on its way is
for the entry that is next (`OnItsWay`); and while it has the token cache and the clock
to itself, what it has of a domain is the cache's token (`Alone`). A step of another
run keeps all that (`OthersKeep`), and so does a swap of the catalog (`LoadKeeps`),
which only ends "steady". `TakeConflicts` is the argument for `ConflictsAreReal`: two
values of one name from one source are two tokens of a domain, which `Alone` rules out,
or would be two entries of one block. That `NextPlace` is the first of the places is
an argument by the least number (`FirstPlace`). `StagedInv` says that a coding agent
runs only while its record is at the skill, and that what was staged stays until
then. `DeployedAgentsServe` needs `ServeInv`, whose first step is a computation: the
roster's agents start and may make their calls one by one (`RosterStarts`,
`RosterMayCall`), whereas any descriptor that starts is granted what its entry wired
(`StartsGranted`). `TypeOK` is last, because it bounds every count by the events
(`BoundsInv`) and knows no commit only where there is no checkout (`CommitsInv`).

`CatalogCurationProofs`. `CInv` says, per tree, what an unfinished command may
rely on. `TreeMatchesBaseline` alone is not inductive: `PullRecord` needs that
a pull has written every file that is not its curator's (`PullInv`), and
`PublishRecord` that the files are still those that were bundled (`PublishInv`).
`PublishKeepsOthersEdits` needs the third part of `TreeInv`: a torn tree whose
baseline is still the object's content only holds what was there already, or a
garbled file, which no bundle can contain. Steps of other curators touch nothing
of a tree but `moved` (`StepIsLocal`, `OthersKeep`).

`NormalizerProofs`. `NInv` has a part for each piece of a container's memory:
`FlightInv` (one get at most, which asks for what is newer than the snapshot: from
it `SnapshotNeverGoesBack` follows, and without it an old answer could pass),
`SnapshotInv` (a snapshot was parsed), `ClaimInv` (`ClaimsAreTrue`, with what a run
that is sending has claimed). A container's step leaves the others' memory alone
(`WorkIsLocal`), and versions are only added (`PublishEffect`).
Only the ends of a send put messages (`OnlySendsPut`), and what they put beyond
one is counted as lost (`PutsEffect`). `SentOnceByOneContainer` is not inductive: `KeeperInv` adds
that nobody but its keeper has a delivery, and that the keeper, once more messages
were put than answers lost, has the claim and is not sending again.

Every invariant and every action property of a passing run, and both refinements,
are stated by a theorem. Model-checked only is liveness (`EventuallySettled`,
`LoopEnds`, `LoopsEnd`, `CatchesUp`): it rests on fairness, hence on ENABLED, which
the prover does not reason about. `SucceedsOnceWithoutFaults`
and `RedeliveryIsNotBlocked` say in their statement which faults they exclude.

## Not modelled

- The local CLI and the local runtime: one-shot commands of a developer.
- `discover`: an interactive loop of `add`, around `gh` and the coding agent.
- Execution resolution beyond what a request may get wrong: a precedence rule
  without state, whose outcome `AskTheCode` takes per request.
- The bytes of envelopes and signatures, and which of its fields a malformed
  envelope lacks: queue and store see one status.
- CDK declarations that hold no choice (alarms, log retention, the image, the
  shared stack), client wrappers, logging, redaction, the in-memory workspace.
- The plumbing of subprocesses beyond exit, close and timer.

What could be taken further: two agents of one fleet that meet in GitHub or
Jira, which the code leaves to those services; the shim's `processRecord` composed with
`AgentContainer`, so that a frozen task meets a working copy.
