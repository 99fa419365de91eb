--------------------------- MODULE MCAgentContainer ---------------------------
(* Two records.  Every descriptor is started; the workloads run in two of  *)
(* the deployed agents, each aimed at what the records meet in.            *)
EXTENDS AgentContainer

Item(provider, domain, env_) ==
  [provider |-> provider, domain |-> domain, env |-> env_, endpoints |-> [e \in {} |-> "npm"],
   complete |-> TRUE, extra |-> FALSE, path |-> "own", name |-> "fine"]

Idle == [param |-> [r \in Record |-> "literal"], copies |-> [r \in Record |-> <<>>],
         declared |-> [p \in Project |-> <<>>], edits |-> {}, warm |-> FALSE, time |-> 0, events |-> 1,
         call |-> [r \in Record |-> TRUE], world |-> {}]

Workload(a, d, w) ==
  [agent |-> a, descriptor |-> d, param |-> w.param, copies |-> w.copies,
   declared |-> w.declared, edits |-> w.edits, warm |-> w.warm, time |-> w.time, events |-> w.events,
   call |-> w.call, world |-> w.world]

(* Any deployed agent and any edit of its descriptor, with nothing to do. *)
Starting == {Workload(a, d, Idle) : a \in Agent, d \in UNION {Edits(Roster[b]) : b \in Agent}}
Deployable == {s \in Starting : s.descriptor \in Edits(Roster[s.agent])}

Both(x) == [r \in Record |-> x]

(* Both records' consumers have one parameter. *)
SharedKey == [Idle EXCEPT !.param = Both("k"), !.call = Both(FALSE), !.world = {"rotate"},
                          !.time = 3, !.events = 2]

(* Both records work on p; one of them gets as far as its skill. *)
SharedCopy == [Idle EXCEPT !.copies = Both(<<"p">>), !.call = [r \in Record |-> r = "r1"],
                           !.world = {"push", "edit"}, !.events = 2]

(* Nobody works in p, whose upstream moves, or is rewritten, repeatedly.   *)
MovingUpstream == [SharedCopy EXCEPT !.world = {"push"}, !.events = 3]

(* Its coding agent leaves a process behind that goes on working in p. *)
Lingering == [SharedCopy EXCEPT !.world = {"edit", "linger"}]

Token(domain) == Item("codeartifact", domain, "TOKEN")
Secret == Item("ssm", "d1", "SECRET")
Url(repository) == [Token("d1") EXCEPT !.endpoints = [e \in {"URL"} |-> repository]]

(* One record needs both projects, the other meets it in the second.       *)
TwoProjects(bundle) ==
  [Idle EXCEPT !.copies = [r \in Record |-> IF r = "r1" THEN <<"p", "q">> ELSE <<"q">>],
               !.declared = bundle, !.warm = TRUE]

(* They agree on a domain and its endpoint; their token may expire and p's *)
(* secret change.                                                          *)
Agreeing ==
  [TwoProjects([p \in Project |-> IF p = "p" THEN <<Url("npm"), Secret>> ELSE <<Url("npm")>>])
     EXCEPT !.world = {"store"}, !.time = 1]

(* They do not agree (two secrets never do), or a block claims what it     *)
(* must not.                                                               *)
Unusable == {
  [p \in Project |-> <<Url(IF p = "p" THEN "npm" ELSE "maven")>>],
  [p \in Project |-> <<Secret>>],
  [p \in Project |-> <<[Secret EXCEPT !.path = IF p = "p" THEN "own" ELSE "other"]>>],
  [p \in Project |-> <<[Secret EXCEPT !.name = IF p = "p" THEN "fine" ELSE "AWS_"]>>]}

(* A curator moves both projects, or one, from a domain to another.        *)
Moves == [TwoProjects([p \in Project |-> <<Token("d1")>>]) EXCEPT
            !.edits = {[p \in Project |-> <<Token("d2")>>],
                       [p \in Project |-> <<Token(IF p = "p" THEN "d1" ELSE "d2")>>]},
            !.world = {"publish"}]

Workloads ==
  Deployable
  \cup {Workload("triage_it", Roster.triage_it, w) :
          w \in {SharedKey, SharedCopy, MovingUpstream, Lingering, Agreeing, Moves}}
  \cup {Workload("triage_it", Roster.triage_it, TwoProjects(b)) : b \in Unusable}

Answers == {[fence |-> TRUE, trailing |-> t, parses |-> TRUE, conforms |-> TRUE] : t \in BOOLEAN}
===============================================================================
