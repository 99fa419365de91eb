--------------------------- MODULE TargetCredentials ---------------------------
(***************************************************************************)
(* What a skill's subprocess gets to know: the environment that            *)
(* TargetCredentialsResolver.resolveFor makes of the credentials the       *)
(* catalog declares for the projects of its working copies.                *)
(*                                                                         *)
(* Projects are taken one after the other, and their entries too; each     *)
(* read of SSM, each token minted by CodeArtifact and each endpoint looked *)
(* up is an await.  A project's block is read from the catalog when its    *)
(* turn comes, and a refresh may have swapped the catalog's snapshot by    *)
(* then (S3Catalog).  The token cache belongs to the container, so runs of *)
(* one batch meet in it: mints are not coalesced and the answer that comes *)
(* last is the one that stays.                                             *)
(*                                                                         *)
(* An entry's values are taken in the step that has its secret: endpoints  *)
(* never change, so what is looked up in between, and their cache, are     *)
(* left out but for a lookup that fails.  Two sources are taken to have    *)
(* different values.                                                       *)
(***************************************************************************)
EXTENDS Naturals, Sequences

CONSTANTS
  Record, Project,
  Env,        \* names of environment variables
  Domain,     \* CodeArtifact domains (with owner and region)
  Repository, \* CodeArtifact repositories (with domain and format)
  TokenLife,  \* how long a token may be handed out: its life less the margin
  MaxNow, MaxEvents

VARIABLES
  pc,
  scenario,  \* scenario.declared: the first bundle published, .edits: the others
  copies,    \* copies[r]: the projects of r's working copies, in order
  published, \* the bundle in S3: published[p] is the credentials block of p
  declared,  \* the bundle the container serves
  stored,    \* stored[p]: version of the project's SSM parameter
  tokens,    \* the token cache of the container
  minted,    \* minted[d]: tokens CodeArtifact has issued for d
  block,     \* block[r]: the blocks r has read, by project
  env,       \* env[r]: the environment made for r so far
  todo,      \* todo[r]: the places of the entries still to be resolved of the
             \* project r is at
  minting,   \* minting[r]: the token on its way to r, or NoToken
  begun,     \* begun[r]: when r's resolution began, whether no other has
             \* minted since, and whether the container still serves that bundle
  now, events

---------------------------------------------------------------------------
(* schema.ts *)

(* An item of a credentials block as the catalog has it.  endpoints gives  *)
(* the variables of its endpoints; name classifies the variables the item  *)
(* claims; path says whether an SSM parameter is the convention path of    *)
(* the item's own project; extra is a field too many, or a name twice.     *)
Raw == [provider : {"codeartifact", "ssm", "unknown"}, domain : Domain, env : Env,
        endpoints : UNION {[names -> Repository] : names \in SUBSET Env},
        complete : BOOLEAN, extra : BOOLEAN, path : {"own", "other"},
        name : {"fine", "malformed", "AWS_", "reserved", "need"}]

requireEnvName(item) == item.name = "fine"

parseCodeArtifactEntry(item) == item.complete /\ ~item.extra /\ requireEnvName(item)

parseSsmEntry(item) ==
  /\ item.complete /\ ~item.extra /\ DOMAIN item.endpoints = {}
  /\ requireEnvName(item) /\ item.path = "own"

parseEntry(item) ==
  \/ item.provider = "codeartifact" /\ parseCodeArtifactEntry(item)
  \/ item.provider = "ssm" /\ parseSsmEntry(item)

envNamesOf(item) == {item.env} \cup DOMAIN item.endpoints

(* A block is taken whole or not at all. *)
parseCredentialsExtension(items) ==
  /\ \A i \in DOMAIN items : parseEntry(items[i])
  /\ \A i \in DOMAIN items : items[i].env \notin DOMAIN items[i].endpoints
  /\ \A i, j \in DOMAIN items :
       envNamesOf(items[i]) \cap envNamesOf(items[j]) # {} => i = j

---------------------------------------------------------------------------
(* State *)

(* A bundle's blocks; a project without a record or a block has an empty one.*)
Bundle == [Project -> Seq(Raw)]

Bundles == {scenario.declared} \cup scenario.edits

(* Where a value comes from: the domain whose n-th token it is, the n-th   *)
(* value of a project's parameter, or a repository whose endpoint it is.   *)
Value == [of : Domain \cup Project, n : Nat] \cup [of : Repository, n : {0}]

NoToken == [n |-> 0, exp |-> 0]

CredentialsTypeOK ==
  /\ published \in Bundles /\ declared \in Bundles
  /\ stored \in [Project -> 0..MaxEvents]
  /\ \A d \in Domain : tokens[d].n \in 0..minted[d]
  /\ \A r \in Record : DOMAIN block[r] \subseteq Project /\ DOMAIN env[r] \subseteq Env
  /\ \A r \in Record : \A e \in DOMAIN env[r] : env[r][e] \in Value
  /\ \A r \in Record : minting[r] # NoToken => todo[r] # {}

Empty == [e \in {} |-> 0]

CredentialsInit ==
  /\ declared = published
  /\ stored = [p \in Project |-> 0]
  /\ tokens = [d \in Domain |-> NoToken] /\ minted = [d \in Domain |-> 0]
  /\ block = [r \in Record |-> Empty] /\ env = [r \in Record |-> Empty]
  /\ todo = [r \in Record |-> {}] /\ minting = [r \in Record |-> NoToken]
  /\ begun = [r \in Record |-> [at |-> 0, alone |-> TRUE, steady |-> TRUE]]

(* The places of entries in blocks: a project and where in its block. *)
PlacesOf(p, items) == {[project |-> p, at |-> j] : j \in DOMAIN items}
Places(blocks) == UNION {PlacesOf(p, blocks[p]) : p \in DOMAIN blocks}

Item(blocks, x) == blocks[x.project][x.at]

(* What the variable v of the entry at x is given from. *)
Source(blocks, x, v) ==
  CASE v \in DOMAIN Item(blocks, x).endpoints -> Item(blocks, x).endpoints[v]
    [] v \notin DOMAIN Item(blocks, x).endpoints /\ Item(blocks, x).provider = "ssm" -> x.project
    [] OTHER -> Item(blocks, x).domain

First(places) == CHOOSE x \in places : \A y \in places : x.at <= y.at

NextPlace(r) == First(todo[r])
NextItem(r) == Item(block[r], NextPlace(r))

---------------------------------------------------------------------------
(* The catalog *)

(* A curator publishes another bundle. *)
Publish ==
  /\ events < MaxEvents
  /\ published' \in Bundles \ {published}
  /\ events' = events + 1

(* The container serves the bundle S3 has.  Refreshes of a process come one *)
(* at a time, so S3's answer and its receipt can be one step.              *)
Load ==
  /\ declared' = published
  /\ begun' = [r \in Record |-> [begun[r] EXCEPT !.steady = @ /\ published = declared]]

---------------------------------------------------------------------------
(* resolver.ts *)

Begin(r) ==
  /\ pc[r] = "credentials"
  /\ block' = [block EXCEPT ![r] = Empty] /\ env' = [env EXCEPT ![r] = Empty]
  /\ todo' = [todo EXCEPT ![r] = {}]
  /\ begun' = [begun EXCEPT ![r] = [at |-> now, steady |-> TRUE,
       alone |-> \A q \in Record \ {r} : minting[q] = NoToken]]
  /\ pc' = [pc EXCEPT ![r] = "resolving"]
  /\ UNCHANGED <<stored, tokens, minted, minting>>

(* Where in r's copies the projects are it has not come to; each is taken  *)
(* once.                                                                   *)
Unread(r) == {i \in DOMAIN copies[r] : copies[r][i] \notin DOMAIN block[r]}

ComesTo(r, p) ==
  /\ pc[r] = "resolving" /\ todo[r] = {}
  /\ \E i \in Unread(r) : copies[r][i] = p /\ \A j \in Unread(r) : i <= j

(* A project's block as the catalog serves it now. *)
ReadBlock(r) ==
  /\ \E p \in Project :
       /\ ComesTo(r, p) /\ parseCredentialsExtension(declared[p])
       /\ block' = [block EXCEPT ![r] =
            [q \in DOMAIN block[r] \cup {p} |-> IF q = p THEN declared[p] ELSE block[r][q]]]
       /\ todo' = [todo EXCEPT ![r] = PlacesOf(p, declared[p])]
  /\ UNCHANGED <<pc, stored, tokens, minted, env, minting, begun>>

(* An invalid block throws before anything of it is resolved. *)
RefuseBlock(r) ==
  /\ \E p \in Project : ComesTo(r, p) /\ ~parseCredentialsExtension(declared[p])
  /\ pc' = [pc EXCEPT ![r] = "failed"]
  /\ UNCHANGED <<stored, tokens, minted, block, env, todo, minting, begun>>

(* The values of the next entry, with its secret's number. *)
Values(r, n) ==
  [v \in envNamesOf(NextItem(r)) |->
     [of |-> Source(block[r], NextPlace(r), v), n |-> IF v = NextItem(r).env THEN n ELSE 0]]

(* They are new names, the values the names already have, or a conflict.   *)
Take(r, n) ==
  LET got == Values(r, n)
  IN IF \E v \in DOMAIN got \cap DOMAIN env[r] : env[r][v] # got[v]
     THEN /\ pc' = [pc EXCEPT ![r] = "conflict"]
          /\ todo' = [todo EXCEPT ![r] = {}]
          /\ UNCHANGED env
     ELSE /\ env' = [env EXCEPT ![r] =
               [v \in DOMAIN env[r] \cup DOMAIN got |->
                  IF v \in DOMAIN got THEN got[v] ELSE env[r][v]]]
          /\ todo' = [todo EXCEPT ![r] = @ \ {NextPlace(r)}]
          /\ UNCHANGED pc

Resolving(r) == pc[r] = "resolving" /\ todo[r] # {} /\ minting[r] = NoToken

ReadSsm(r) ==
  /\ Resolving(r) /\ NextItem(r).provider = "ssm"
  /\ Take(r, stored[NextPlace(r).project])
  /\ UNCHANGED <<stored, tokens, minted, block, minting, begun>>

UseToken(r) ==
  /\ Resolving(r) /\ NextItem(r).provider = "codeartifact"
  /\ tokens[NextItem(r).domain].exp > now
  /\ Take(r, tokens[NextItem(r).domain].n)
  /\ UNCHANGED <<stored, tokens, minted, block, minting, begun>>

Mint(r) ==
  /\ Resolving(r) /\ NextItem(r).provider = "codeartifact"
  /\ tokens[NextItem(r).domain].exp <= now
  /\ LET d == NextItem(r).domain
         n == minted[d] + 1
     IN /\ minted' = [minted EXCEPT ![d] = n]
        /\ minting' = [minting EXCEPT ![r] = [n |-> n, exp |-> now + TokenLife]]
  /\ begun' = [q \in Record |->
       IF q = r THEN begun[q] ELSE [begun[q] EXCEPT !.alone = FALSE]]
  /\ UNCHANGED <<pc, stored, tokens, block, env, todo>>

(* Seeded fault: the answer is kept out of the cache. *)
MintedUncached(r) ==
  /\ minting[r] # NoToken
  /\ Take(r, minting[r].n)
  /\ minting' = [minting EXCEPT ![r] = NoToken]
  /\ UNCHANGED <<stored, tokens, minted, block, begun>>

Minted(r) ==
  /\ minting[r] # NoToken
  /\ tokens' = [tokens EXCEPT ![NextItem(r).domain] = minting[r]]
  /\ Take(r, minting[r].n)
  /\ minting' = [minting EXCEPT ![r] = NoToken]
  /\ UNCHANGED <<stored, minted, block, begun>>

(* Seeded fault: the record fails and its call is still waited for. *)
ResolveFailsLingers(r) ==
  /\ minting[r] # NoToken \/ Resolving(r)
  /\ events < MaxEvents
  /\ pc' = [pc EXCEPT ![r] = "failed"]
  /\ todo' = [todo EXCEPT ![r] = {}]
  /\ events' = events + 1
  /\ UNCHANGED <<stored, tokens, minted, minting, block, env, begun>>

(* A call to SSM or CodeArtifact throws or answers with nothing; if it is  *)
(* the lookup of an endpoint, the token that came before stays cached.     *)
ResolveFails(r) ==
  /\ minting[r] # NoToken \/ Resolving(r)
  /\ events < MaxEvents
  /\ \/ UNCHANGED tokens
     \/ /\ minting[r] # NoToken /\ DOMAIN NextItem(r).endpoints # {}
        /\ tokens' = [tokens EXCEPT ![NextItem(r).domain] = minting[r]]
  /\ pc' = [pc EXCEPT ![r] = "failed"]
  /\ todo' = [todo EXCEPT ![r] = {}]
  /\ minting' = [minting EXCEPT ![r] = NoToken]
  /\ events' = events + 1
  /\ UNCHANGED <<stored, minted, block, env, begun>>

Resolved(r) ==
  /\ pc[r] = "resolving" /\ todo[r] = {} /\ Unread(r) = {}
  /\ pc' = [pc EXCEPT ![r] = "equipped"]
  /\ UNCHANGED <<stored, tokens, minted, block, env, todo, minting, begun>>

(* An operator stores a new secret. *)
Store(p) ==
  /\ events < MaxEvents
  /\ stored' = [stored EXCEPT ![p] = @ + 1]
  /\ events' = events + 1

---------------------------------------------------------------------------
(* Properties *)

(* r has read a block for every project of its working copies, the blocks  *)
(* of one bundle unless the container changed to another meanwhile.        *)
(* Its environment has a value for everything these blocks declare, each   *)
(* from the source that was declared, and nothing that a block may not     *)
(* claim; a parameter is the project's own.                                *)
Equipped(r) ==
  LET blocks == block[r]
  IN /\ DOMAIN blocks = {copies[r][i] : i \in DOMAIN copies[r]}
     /\ begun[r].steady => \A p \in DOMAIN blocks : blocks[p] = declared[p]
     /\ \A x \in Places(blocks) : \A v \in envNamesOf(Item(blocks, x)) :
          v \in DOMAIN env[r] /\ env[r][v].of = Source(blocks, x, v)
     /\ \A v \in DOMAIN env[r] : \E x \in Places(blocks) :
          LET item == Item(blocks, x)
          IN /\ v \in envNamesOf(item) /\ item.name = "fine"
             /\ item.provider = "ssm" => item.path = "own"

(* Two entries of blocks give one variable from different sources. *)
Disagree(blocks) ==
  \E x, y \in Places(blocks) :
    \E v \in envNamesOf(Item(blocks, x)) \cap envNamesOf(Item(blocks, y)) :
      Source(blocks, x, v) # Source(blocks, y, v)

(* A run that fails with env-conflict has read blocks that disagree, and   *)
(* in the bundle the container serves they do unless it changed since the  *)
(* run began; or the domain's token may have changed under the run: the    *)
(* clock moved, or another run was minting since it began.                 *)
ConflictsAreRealStep ==
  \A r \in Record :
    pc[r] # "conflict" /\ pc'[r] = "conflict" =>
      \/ /\ Disagree(block[r])
         /\ begun[r].steady => Disagree([p \in DOMAIN block[r] |-> declared[p]])
      \/ now # begun[r].at
      \/ ~begun[r].alone
=================================================================================
