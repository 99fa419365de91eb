------------------------------ MODULE Deployment ------------------------------
(***************************************************************************)
(* What decides whether a deployed agent serves its queue at all: its      *)
(* descriptor (agent.yaml), the environment and the grants its stack gives *)
(* the function, and what its Lambda entry asks for when the container     *)
(* starts and its handler later on.  Packages that must agree; each is     *)
(* translated on its own here.                                             *)
(***************************************************************************)
EXTENDS Naturals, Sequences

STAGES == {"init", "breakdown", "revisit"}
Phase == {"phase-1", "phase-2", "phase-3"}

---------------------------------------------------------------------------
(* needs: the registry, and the AWS calls its clients make *)

needSpecs == {"eventbridge", "sqs", "s3", "github", "jira", "target-credentials"}

(* A grant or a call: the action, and on what. *)
eventbridgeNeed == {<<"events:PutEvents", "suite bus">>}
sqsNeed == {<<"sqs:SendMessage", "reply queue">>}
s3Need == {<<"s3:GetObject", "attachment">>}
targetCredentialsNeed == {<<"ssm:GetParameter", "project secret">>, <<"kms:Decrypt", "secrets">>}
CodeArtifact == {<<"codeartifact:GetAuthorizationToken", "domain">>,
                 <<"sts:GetServiceBearerToken", "codeartifact">>,
                 <<"codeartifact:GetRepositoryEndpoint", "repository">>}

SelfPublishEnv ==
  {"SELF_QUEUE_URL", "SELF_QUEUE_ARN", "SCHEDULE_GROUP_NAME", "SCHEDULER_ROLE_ARN"}

---------------------------------------------------------------------------
(* Descriptors.  malformed stands for the fields that are missing, of      *)
(* another shape or not known; skills has what each declared skill's file  *)
(* is like.                                                                *)

Skill(role) == [role |-> role, file |-> "fine", schemas |-> "subset", compatible |-> TRUE]

Trigger(type, signed) == [type |-> type, signed |-> signed]
SignedConsumer == <<Trigger("consumer", TRUE)>>
Scheduled == <<Trigger("scheduler", FALSE)>>

Descriptor(stages, needs, triggers) ==
  [malformed |-> FALSE, compute |-> "lambda", stages |-> stages, needs |-> needs,
   triggers |-> triggers, skills |-> {Skill("entrypoints"), Skill("support")}]

Roster == [
  ask_the_code |-> Descriptor(<<"init">>,
    <<"eventbridge", "sqs", "s3", "target-credentials">>, SignedConsumer),
  triage_it |-> Descriptor(<<"init">>,
    <<"s3", "sqs", "eventbridge", "target-credentials">>, SignedConsumer),
  ship_it |-> Descriptor(<<"init", "revisit">>,
    <<"github", "jira", "target-credentials">>, SignedConsumer),
  bump_it |-> Descriptor(<<"init", "breakdown", "revisit">>,
    <<"github", "target-credentials">>, Scheduled),
  document_it |-> Descriptor(<<"init", "breakdown">>,
    <<"github", "target-credentials">>, Scheduled)]

---------------------------------------------------------------------------
(* descriptor/parse.ts: the categories of the issues a descriptor has *)

Elements(s) == {s[i] : i \in DOMAIN s}
Has(d, type) == \E t \in Elements(d.triggers) : t.type = type
If(condition, category) == IF condition THEN {category} ELSE {}

isTriggerTypeInPhase(type, phase) ==
  CASE phase = "phase-1" -> type = "consumer"
    [] phase = "phase-2" -> type \in {"consumer", "scheduler"}
    [] phase = "phase-3" ->
         type \in {"consumer", "scheduler", "gh-webhook", "jira-webhook", "alert"}

validateStages(d) ==
  If(d.stages = <<>>, "empty-stages")
  \cup If(~(Elements(d.stages) \subseteq STAGES), "unknown-stage")

Entrypoints(d) == {s \in d.skills : s.role = "entrypoints"}

validateSkills(d) == If(Entrypoints(d) = {}, "empty-entrypoints")

validateNeeds(d) ==
  If(~(Elements(d.needs) \subseteq needSpecs), "unknown-need")
  \cup If(\E i, j \in DOMAIN d.needs : i < j /\ d.needs[i] = d.needs[j], "duplicate-need")

validateTriggers(d, phase) ==
  If(d.triggers = <<>>, "invalid-shape")
  \cup If(\E t \in Elements(d.triggers) : ~isTriggerTypeInPhase(t.type, phase),
          "unknown-or-out-of-phase-trigger")

validateDescriptor(d, phase) ==
  If(d.malformed, "invalid-shape")
  \cup validateStages(d) \cup validateSkills(d) \cup validateNeeds(d)
  \cup validateTriggers(d, phase)
  \cup If(d.compute \notin {"lambda", "fargate"}, "invalid-enum")
  \cup If(phase = "phase-1" /\ d.compute # "lambda", "compute-phase-mismatch")

Parses(d, phase) == validateDescriptor(d, phase) = {}

---------------------------------------------------------------------------
(* infra: which agents have a recurring tick, and the function's variables *)

Agent == DOMAIN Roster

tickSchedule(agent) == agent \in {"bump_it", "document_it"}

Synthesizes(agent, d) ==
  /\ Parses(d, "phase-3")
  /\ Has(d, "scheduler") = tickSchedule(agent)
  /\ Has(d, "scheduler") => "init" \in Elements(d.stages)

usesSignedEnvelope(d) == \E t \in Elements(d.triggers) : t.type = "consumer" /\ t.signed

schedulerWiring(d) == Len(d.stages) > 1 \/ Has(d, "scheduler")

StackEnv(d) ==
  {"IDEMPOTENCY_TABLE_NAME", "CATALOG_BUCKET", "EVENT_BUS_NAME", "WORKSPACE_ROOT"}
  \cup If(usesSignedEnvelope(d), "CONSUMER_REGISTRY_TABLE_NAME")
  \cup (IF schedulerWiring(d) THEN SelfPublishEnv ELSE {})

(* configured: the operator named CodeArtifact's domains and repositories. *)
targetCredentialsStatements(configured) ==
  {<<"ssm:GetParameter", "project secret">>}
  \cup (IF configured
        THEN CodeArtifact \cup {<<"codeartifact:ReadFromRepository", "repository">>}
        ELSE {})

needPolicyStatements(need, configured) ==
  CASE need = "eventbridge" -> eventbridgeNeed
    [] need = "sqs" -> sqsNeed
    [] need = "s3" -> s3Need
    [] need = "target-credentials" -> targetCredentialsStatements(configured)
    [] OTHER -> {}

SelfPublishCalls == {<<"sqs:SendMessage", "own queue">>,
                     <<"scheduler:CreateSchedule", "own group">>,
                     <<"iam:PassRole", "scheduler role">>}

RuntimeCalls == {<<"dynamodb:PutItem", "idempotency">>, <<"dynamodb:UpdateItem", "idempotency">>,
                 <<"s3:GetObject", "catalog">>}

SignedCalls == {<<"dynamodb:GetItem", "consumers">>, <<"ssm:GetParameter", "signing key">>,
                <<"kms:Decrypt", "secrets">>}

Statements(d, configured) ==
  UNION {needPolicyStatements(need, configured) : need \in Elements(d.needs)}

NeedGrants(d, configured) ==
  Statements(d, configured)
  \cup If("target-credentials" \in Elements(d.needs), <<"kms:Decrypt", "secrets">>)

Grants(d, configured) ==
  RuntimeCalls
  \cup (IF usesSignedEnvelope(d) THEN SignedCalls ELSE {})
  \cup NeedGrants(d, configured)
  \cup (IF schedulerWiring(d) THEN SelfPublishCalls ELSE {})

---------------------------------------------------------------------------
(* The Lambda entries: the variables they require, the phase they parse    *)
(* with, and what they hand to buildRuntime and to the shim.  Each hands a *)
(* credentials resolver exactly when the descriptor declares the need.     *)

Entry(requires, phase, registry, publisher, unsigned) ==
  [requires |-> {"IDEMPOTENCY_TABLE_NAME", "CATALOG_BUCKET"} \cup requires,
   phase |-> phase, registry |-> registry, publisher |-> publisher,
   allowUnsignedRuntimeMessages |-> unsigned]

createAtcLambdaHandler ==
  Entry({"CONSUMER_REGISTRY_TABLE_NAME"}, "phase-1", TRUE, FALSE, FALSE)
createTriageItLambdaHandler ==
  Entry({"CONSUMER_REGISTRY_TABLE_NAME"}, "phase-1", TRUE, FALSE, FALSE)
(* Seeded fault: no opt-in to the revisits' unsigned messages. *)
createShipItLambdaHandlerSigned ==
  Entry({"CONSUMER_REGISTRY_TABLE_NAME"} \cup SelfPublishEnv, "phase-1", TRUE, TRUE, FALSE)

createShipItLambdaHandler ==
  Entry({"CONSUMER_REGISTRY_TABLE_NAME"} \cup SelfPublishEnv, "phase-1", TRUE, TRUE, TRUE)
createBumpItLambdaHandler == Entry(SelfPublishEnv, "phase-2", FALSE, TRUE, FALSE)
createDocumentItLambdaHandler == Entry(SelfPublishEnv, "phase-2", FALSE, TRUE, FALSE)

EntryOf == [
  ask_the_code |-> createAtcLambdaHandler, triage_it |-> createTriageItLambdaHandler,
  ship_it |-> createShipItLambdaHandler, bump_it |-> createBumpItLambdaHandler,
  document_it |-> createDocumentItLambdaHandler]

resolverWired(d) == "target-credentials" \in Elements(d.needs)

---------------------------------------------------------------------------
(* The runtime's gates at start-up *)

load(s) == s.file = "fine"

(* The input and output schemas are there and use what the validator knows. *)
assertSubset(s) == s.schemas = "subset"

loadEntrypoint(s) == load(s) /\ assertSubset(s)

validateSkillsCompatibility(d) ==
  \A s \in d.skills :
    /\ s.compatible
    /\ IF s.role = "entrypoints" THEN loadEntrypoint(s) ELSE load(s)

wireClients(d) == Elements(d.needs) \subseteq needSpecs

buildRuntime(d, resolver) ==
  /\ validateSkillsCompatibility(d)
  /\ ("target-credentials" \in Elements(d.needs)) = resolver

(* The shim goes by the first consumer trigger. *)
SignedTrigger(d) ==
  \E i \in DOMAIN d.triggers :
    /\ d.triggers[i].type = "consumer" /\ d.triggers[i].signed
    /\ \A j \in 1..(i - 1) : d.triggers[j].type # "consumer"

createSqsLambdaShim(d, entry) ==
  /\ Has(d, "consumer") \/ Has(d, "scheduler")
  /\ SignedTrigger(d) => entry.registry

(* The container of agent starts with descriptor d in a stack of the same d. *)
Starts(agent, d) ==
  LET entry == EntryOf[agent]
  IN /\ entry.requires \subseteq StackEnv(d)
     /\ Parses(d, entry.phase)
     /\ wireClients(d) /\ buildRuntime(d, resolverWired(d))
     /\ createSqsLambdaShim(d, entry)

(* A message: who sent it, and the stage it is for. *)
Message(source, stage) == [source |-> source, stage |-> stage]

(* What the shim lets in. *)
Admits(agent, d, m) ==
  IF m.source = "consumer"
  THEN Has(d, "consumer")
  ELSE /\ m.source = "scheduler" => Has(d, "scheduler")
       /\ SignedTrigger(d) => EntryOf[agent].allowUnsignedRuntimeMessages
       /\ m.stage \in Elements(d.stages)

(* What the handlers send to their own queue. *)
Published == [
  ask_the_code |-> {}, triage_it |-> {}, ship_it |-> {"revisit"},
  bump_it |-> {"breakdown", "revisit"}, document_it |-> {"breakdown"}]

(* The clients the handlers use, each of which must be a need. *)
Clients == [
  ask_the_code |-> {"eventbridge", "sqs", "s3"}, triage_it |-> {"eventbridge", "sqs", "s3"},
  ship_it |-> {}, bump_it |-> {}, document_it |-> {}]

gateClientsByNeeds(d, client) == client \in Elements(d.needs)

(* The AWS calls of a container, its catalog's credentials included. *)
EntryCalls(agent, d, configured) ==
  RuntimeCalls
  \cup (IF EntryOf[agent].registry /\ SignedTrigger(d) THEN SignedCalls ELSE {})
  \cup (IF EntryOf[agent].publisher THEN SelfPublishCalls ELSE {})
  \cup (IF resolverWired(d)
        THEN targetCredentialsNeed \cup (IF configured THEN CodeArtifact ELSE {}) ELSE {})

HandlerCalls(agent) ==
  UNION {CASE client = "eventbridge" -> eventbridgeNeed
           [] client = "sqs" -> sqsNeed
           [] client = "s3" -> s3Need : client \in Clients[agent]}

(* What reaches the agent's queue in its stack. *)
Messages(agent, d) ==
  (IF Has(d, "consumer") THEN {Message("consumer", "init")} ELSE {})
  \cup (IF Has(d, "scheduler") THEN {Message("scheduler", "init")} ELSE {})
  \cup {Message("self", stage) : stage \in Published[agent]}

---------------------------------------------------------------------------
(* Descriptors a maintainer may write: one edit of a deployed one *)

Edits(d) ==
  {d, [d EXCEPT !.malformed = TRUE], [d EXCEPT !.compute = "fargate"],
   [d EXCEPT !.stages = <<"init">>], [d EXCEPT !.stages = Append(@, "review")],
   [d EXCEPT !.needs = <<>>], [d EXCEPT !.needs = Append(@, "slack")],
   [d EXCEPT !.needs = @ \o @], [d EXCEPT !.skills = {Skill("support")}]}
  \cup {[d EXCEPT !.skills = @ \cup {s}] :
          s \in {[Skill("entrypoints") EXCEPT !.compatible = FALSE],
                 [Skill("entrypoints") EXCEPT !.schemas = "missing"],
                 [Skill("support") EXCEPT !.schemas = "outside"],
                 [Skill("support") EXCEPT !.file = "absent"]}}
  \cup {[d EXCEPT !.triggers = t] :
          t \in {<<>>, <<Trigger("consumer", FALSE)>>, SignedConsumer \o Scheduled,
                 SignedConsumer, Scheduled, <<Trigger("consumer", FALSE)>> \o SignedConsumer,
                 <<Trigger("gh-webhook", FALSE)>>}}
===============================================================================
