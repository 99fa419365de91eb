----------------------------- MODULE CatalogCuration -----------------------------
(***************************************************************************)
(* Curators and the published catalog.  Each curator has a working tree of *)
(* project files and a state file that remembers the ETag of the last pull *)
(* or publish; catalogit's pull, publish and add work on the tree, one     *)
(* command at a time, while the curator may edit files by hand.  All       *)
(* publish to one S3 object.                                               *)
(*                                                                         *)
(* The ETag of an object is its content: bundleCatalog is deterministic.   *)
(* Of a record only its spine (source and extensions) is kept here: that   *)
(* of a skeleton, or one a curator has worked on.                          *)
(***************************************************************************)
EXTENDS Naturals, FiniteSets

CONSTANTS
  Curator, Project,
  MaxEdits,  \* bound on edits and adds
  MaxPuts,   \* bound on writes of the object
  MaxKills   \* bound on commands that die and answers that are lost

ASSUME BoundAssumption == MaxEdits \in Nat /\ MaxPuts \in Nat /\ MaxKills \in Nat

VARIABLES
  remote,   \* the published bundle
  version,  \* how many times it was put (history)
  file,     \* file[c][p]: the project file in c's tree
  base,     \* base[c]: the ETag in c's state file
  cmd,      \* cmd[c]: the command running in c's tree
  own,      \* own[c]: projects that c changed since c last took them (history)
  torn,     \* torn[c]: a pull has written files and not the state (history)
  moved,    \* moved[c]: the object has differed from base[c] (history)
  edits, kills

bucket == <<remote, version>>
history == <<own, torn, moved>>
budget == <<edits, kills>>
vars == <<remote, version, file, base, cmd, own, torn, moved, edits, kills>>

Record == {"skeleton", "curated"}

Absent == "absent"

Garbled == "garbled"  \* does not parse

File == Record \cup {Absent, Garbled}

Bundle == [Project -> Record \cup {Absent}]

NoBase == [p \in {} |-> Absent]  \* no state file, or one that does not parse

Idle == [pc |-> "idle"]

Command ==
  {Idle}
  \cup [pc : {"writing", "pruning"}, bundle : Bundle, todo : SUBSET Project]
  \cup [pc : {"loaded"}, bundle : Bundle]
  \cup [pc : {"putting", "published"}, bundle : Bundle, ifMatch : Bundle \cup {NoBase}]
  \cup [pc : {"drafting"}, project : Project, old : Record \cup {Absent}]

TypeOK ==
  /\ remote \in Bundle /\ version \in Nat
  /\ file \in [Curator -> [Project -> File]]
  /\ base \in [Curator -> Bundle \cup {NoBase}]
  /\ cmd \in [Curator -> Command]
  /\ own \in [Curator -> SUBSET Project]
  /\ torn \in [Curator -> BOOLEAN] /\ moved \in [Curator -> BOOLEAN]
  /\ edits \in Nat /\ kills \in Nat

(* A catalog has been published; a curator has it, or nothing yet. *)
Init ==
  /\ remote \in [Project -> {Absent, "curated"}]
  /\ version = 0
  /\ base \in [Curator -> {NoBase, remote}]
  /\ file = [c \in Curator |-> IF base[c] = NoBase THEN [p \in Project |-> Absent] ELSE remote]
  /\ cmd = [c \in Curator |-> Idle]
  /\ own = [c \in Curator |-> {}]
  /\ torn = [c \in Curator |-> FALSE] /\ moved = [c \in Curator |-> FALSE]
  /\ edits = 0 /\ kills = 0

Present(c) == {p \in Project : file[c][p] # Absent}

Busy(c, pc) == cmd[c].pc = pc

Run(c, command) == cmd' = [cmd EXCEPT ![c] = command]

Step(c, pc) == cmd' = [cmd EXCEPT ![c].pc = pc]

Killed == kills < MaxKills /\ kills' = kills + 1 /\ UNCHANGED edits

Edited == edits < MaxEdits /\ edits' = edits + 1 /\ UNCHANGED kills

Write(c, p, record) == file' = [file EXCEPT ![c][p] = record]

(* c owns up to a change of p. *)
Owns(c, p) == own' = [own EXCEPT ![c] = @ \cup {p}] /\ UNCHANGED <<torn, moved>>

(* The state file names b as what the tree is based on. *)
Rebase(c, b) ==
  /\ base' = [base EXCEPT ![c] = b]
  /\ moved' = [moved EXCEPT ![c] = remote # b]

(* By hand; a file may be deleted, or no longer parse. *)
Edit(c, p) ==
  /\ Edited
  /\ \E record \in File \ {file[c][p]} : Write(c, p, record)
  /\ Owns(c, p)
  /\ UNCHANGED <<bucket, base, cmd>>

---------------------------------------------------------------------------
(* pull *)

(* Seeded fault: the state is written as soon as the ETag is known. *)
PullRecordsFirst(c) ==
  /\ Busy(c, "idle")
  /\ Run(c, [pc |-> "writing", bundle |-> remote, todo |-> {p \in Project : remote[p] # Absent}])
  /\ Rebase(c, remote)
  /\ UNCHANGED <<bucket, file, own, torn, budget>>

(* Get the object, ETag and all, and parse it before anything is written.  *)
Pull(c) ==
  /\ Busy(c, "idle")
  /\ Run(c, [pc |-> "writing", bundle |-> remote, todo |-> {p \in Project : remote[p] # Absent}])
  /\ UNCHANGED <<bucket, file, base, history, budget>>

PullWrite(c, p) ==
  /\ Busy(c, "writing") /\ p \in cmd[c].todo
  /\ Write(c, p, cmd[c].bundle[p])
  /\ cmd' = [cmd EXCEPT ![c].todo = @ \ {p}]
  /\ own' = [own EXCEPT ![c] = @ \ {p}] /\ torn' = [torn EXCEPT ![c] = TRUE]
  /\ UNCHANGED <<bucket, base, moved, budget>>

(* All files of the tree are loaded to find the local-only ones; one that  *)
(* does not parse fails the pull, which has written by then.               *)
PullLoad(c) ==
  /\ Busy(c, "writing") /\ cmd[c].todo = {}
  /\ IF \E p \in Project : file[c][p] = Garbled
     THEN Run(c, Idle)
     ELSE Run(c, [cmd[c] EXCEPT !.pc = "pruning",
                    !.todo = {p \in Present(c) : cmd[c].bundle[p] = Absent}])
  /\ UNCHANGED <<bucket, file, base, history, budget>>

(* A local-only file goes or stays, as the curator says; one that stays is *)
(* the curator's own from then on.                                         *)
PullPrune(c, p) ==
  /\ Busy(c, "pruning") /\ p \in cmd[c].todo
  /\ cmd' = [cmd EXCEPT ![c].todo = @ \ {p}]
  /\ \/ Write(c, p, Absent) /\ own' = [own EXCEPT ![c] = @ \ {p}]
     \/ UNCHANGED file /\ own' = [own EXCEPT ![c] = @ \cup {p}]
  /\ torn' = [torn EXCEPT ![c] = TRUE]
  /\ UNCHANGED <<bucket, base, moved, budget>>

PullRecord(c) ==
  /\ Busy(c, "pruning") /\ cmd[c].todo = {}
  /\ Rebase(c, cmd[c].bundle)
  /\ torn' = [torn EXCEPT ![c] = FALSE]
  /\ Run(c, Idle)
  /\ UNCHANGED <<bucket, file, own, budget>>

---------------------------------------------------------------------------
(* publish *)

(* Seeded faults: a file that does not parse is published as it is, or is  *)
(* left out.                                                               *)
LoadableRaw(c) == file[c]

LoadableParsed(c) == [p \in Project |-> IF file[c][p] = Garbled THEN Absent ELSE file[c][p]]

(* The bundle of the tree; nothing may be garbled.                         *)
Loadable(c) == IF \E p \in Project : file[c][p] = Garbled THEN NoBase ELSE file[c]

(* The files are loaded first, the state after that. *)
PublishLoad(c) ==
  /\ Busy(c, "idle") /\ Loadable(c) # NoBase
  /\ Run(c, [pc |-> "loaded", bundle |-> Loadable(c)])
  /\ UNCHANGED <<bucket, file, base, history, budget>>

(* --force publishes unconditionally; without a usable state it ends here. *)
PublishGuard(c) ==
  /\ Busy(c, "loaded")
  /\ \/ \E etag \in {base[c], NoBase} :
          Run(c, [pc |-> "putting", bundle |-> cmd[c].bundle, ifMatch |-> etag])
     \/ base[c] = NoBase /\ Run(c, Idle)
  /\ UNCHANGED <<bucket, file, base, history, budget>>

(* The object is replaced; whoever is based on something else has moved.   *)
Replace(b) ==
  /\ version < MaxPuts
  /\ remote' = b /\ version' = version + 1
  /\ moved' = [c \in Curator |-> moved[c] \/ base[c] # b]
  /\ UNCHANGED <<own, torn>>

Guarded(c) == cmd[c].ifMatch # NoBase

(* S3 takes the object if its ETag is the one asked for, if any.           *)
Admits(c) == Guarded(c) => remote = cmd[c].ifMatch

Put(c) ==
  /\ Busy(c, "putting") /\ Admits(c)
  /\ Replace(cmd[c].bundle)
  /\ \/ Step(c, "published") /\ UNCHANGED budget
     \/ Run(c, Idle) /\ Killed  \* put, but the answer is lost
  /\ UNCHANGED <<file, base>>

(* 412: the remote has changed; or the request failed. *)
PutRejected(c) ==
  /\ Busy(c, "putting")
  /\ (~Admits(c) /\ UNCHANGED budget) \/ Killed
  /\ Run(c, Idle)
  /\ UNCHANGED <<bucket, file, base, history>>

PublishRecord(c) ==
  /\ Busy(c, "published")
  /\ Rebase(c, cmd[c].bundle)
  /\ own' = [own EXCEPT ![c] = {p \in @ : file[c][p] # cmd[c].bundle[p]}]
  /\ torn' = [torn EXCEPT ![c] = FALSE]
  /\ Run(c, Idle)
  /\ UNCHANGED <<bucket, file, budget>>

---------------------------------------------------------------------------
(* add *)

(* The spine of an existing record is kept, a new one gets the default.    *)
SpineFor(old) == IF old = Absent THEN "skeleton" ELSE old

(* A file that does not parse fails the command; --skeleton drafts nothing.*)
Add(c, p) ==
  /\ Busy(c, "idle") /\ file[c][p] # Garbled /\ Edited
  /\ \/ /\ Write(c, p, SpineFor(file[c][p]))
        /\ Owns(c, p) /\ UNCHANGED cmd
     \/ /\ Run(c, [pc |-> "drafting", project |-> p, old |-> file[c][p]])
        /\ UNCHANGED <<file, history>>
  /\ UNCHANGED <<bucket, base>>

(* The agent drafts for minutes, on what was read before; then the file is *)
(* written, with its draft or, when the agent failed twice, as a skeleton, *)
(* or left alone when the clone failed.                                    *)
Draft(c) ==
  /\ Busy(c, "drafting")
  /\ \/ /\ \E record \in {SpineFor(cmd[c].old), "skeleton"} : Write(c, cmd[c].project, record)
        /\ Owns(c, cmd[c].project)
     \/ UNCHANGED <<file, history>>
  /\ Run(c, Idle)
  /\ UNCHANGED <<bucket, base, budget>>

---------------------------------------------------------------------------

(* A command dies; the file it was writing may be cut short.               *)
Kill(c) ==
  /\ ~Busy(c, "idle") /\ Killed
  /\ Run(c, Idle)
  /\ \/ UNCHANGED <<file, base, torn>>
     \/ /\ Busy(c, "writing") /\ UNCHANGED base
        /\ \E p \in cmd[c].todo : Write(c, p, Garbled)
        /\ torn' = [torn EXCEPT ![c] = TRUE]
     \/ /\ Busy(c, "published") \/ (Busy(c, "pruning") /\ cmd[c].todo = {})
        /\ base' = [base EXCEPT ![c] = NoBase] /\ UNCHANGED <<file, torn>>
  /\ UNCHANGED <<bucket, own, moved>>

Curate(c) ==
  \/ Pull(c) \/ PullLoad(c) \/ PullRecord(c)
  \/ PublishLoad(c) \/ PublishGuard(c) \/ Put(c) \/ PutRejected(c) \/ PublishRecord(c)
  \/ Draft(c) \/ Kill(c)
  \/ \E p \in Project : Edit(c, p) \/ PullWrite(c, p) \/ PullPrune(c, p) \/ Add(c, p)

Next == \E c \in Curator : Curate(c)

Spec == Init /\ [][Next]_vars

---------------------------------------------------------------------------
(* Properties *)

(* The state file is true to the tree: unless a pull is under way or was   *)
(* cut short, every file is as in the bundle the state names, or the       *)
(* curator's own change.                                                   *)
TreeMatchesBaseline ==
  \A c \in Curator :
    base[c] # NoBase /\ ~torn[c] =>
      \A p \in Project \ own[c] : file[c][p] = base[c][p]

(* "A concurrent remote edit is rejected (412) instead of silently         *)
(* clobbered": a publish that is not forced changes nothing in the object  *)
(* but what its curator changed.  The one way around the guard is a tree   *)
(* torn by a pull of something that has been taken back since.             *)
PublishKeepsOthersEdits ==
  [][\A c \in Curator :
       /\ Busy(c, "putting") /\ Guarded(c) /\ version' # version /\ cmd'[c] # cmd[c]
       /\ ~(torn[c] /\ moved[c])
       => \A p \in Project \ own[c] : remote'[p] = remote[p]]_vars

(* What add promises, and does not keep: "spine preserved".  The file that *)
(* add writes over a record has the spine the record had.                  *)
SpineSurvivesAdd ==
  [][\A c \in Curator :
       /\ Busy(c, "drafting") /\ cmd[c].old # Absent /\ cmd'[c] = Idle
       /\ file' # file
       => file'[c][cmd[c].project] = cmd[c].old]_vars
=================================================================================
