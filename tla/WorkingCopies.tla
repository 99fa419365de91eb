----------------------------- MODULE WorkingCopies -----------------------------
(***************************************************************************)
(* The working copies of a container: LocalGitWorkspace.sync brings each   *)
(* project's checkout under one root up to date with its upstream branch   *)
(* and tells the caller the commit it is at; skills then work in it.       *)
(*                                                                         *)
(* Every git command is an await, so the syncs of one batch's records      *)
(* interleave command by command, and with the skills already running.     *)
(* The directory outlives the process, the list of synced projects does    *)
(* not.                                                                    *)
(*                                                                         *)
(* git is external: a commit is its place <<era, n>> in the upstream       *)
(* branch, whose history a rewrite replaces, and whether it was made here. *)
(* The first dirty file is all of them.                                    *)
(***************************************************************************)
EXTENDS Naturals, Sequences

CONSTANTS Record, Project, MaxEvents

VARIABLES
  pc,
  copies,    \* copies[r]: the projects r's handler syncs and mounts, in order
  at,        \* at[r]: the one r's sync is at
  step,      \* step[r]: the git command r's sync is to run next
  seen,      \* seen[r]: what rev-parse told r's sync about head and remote
  upstream,  \* upstream[p]: the branch at its origin
  disk,      \* disk[p]: the checkout
  synced,    \* synced[p]: the commit of the copy this process has synced
  given,     \* given[r][p]: the headSha r was told
  disturbed, \* disturbed[p]: syncs overlapped, a skill worked in p, or git was killed
  events

Commit == [era : 0..MaxEvents, n : 0..MaxEvents, own : BOOLEAN]
First == [era |-> 0, n |-> 0, own |-> FALSE]
None == [era |-> MaxEvents + 1, n |-> 0, own |-> FALSE]

(* tree: nothing there; a clone whose HEAD is unborn; one that is being    *)
(* checked out; a checkout.  ref is the remote-tracking branch.            *)
Checkout == [tree : {"absent", "cloning", "half", "whole"}, head : Commit \cup {None},
             ref : Commit \cup {None}, dirty : BOOLEAN]
Absent == [tree |-> "absent", head |-> None, ref |-> None, dirty |-> FALSE]

SyncStep == {"look", "clone", "cloning", "checkout", "clone-head", "from", "fetch",
             "local", "remote", "merge", "reset", "head"}

CopiesTypeOK ==
  /\ \A r \in Record : at[r] \in 1..(Len(copies[r]) + 1)
  /\ step \in [Record -> SyncStep]
  /\ seen \in [Record -> [local : Commit \cup {None}, remote : Commit \cup {None}]]
  /\ upstream \in [Project -> Commit] /\ disk \in [Project -> Checkout]
  /\ synced \in [Project -> Commit \cup {None}]
  /\ given \in [Record -> [Project -> Commit \cup {None}]]
  /\ disturbed \in [Project -> BOOLEAN]

Unseen == [local |-> None, remote |-> None]

(* A container starts cold, or warm: with every project synced before. *)
CopiesInit(warm) ==
  /\ at = [r \in Record |-> 1] /\ step = [r \in Record |-> "look"]
  /\ seen = [r \in Record |-> Unseen]
  /\ upstream = [p \in Project |-> First]
  /\ disk = [p \in Project |->
       IF warm THEN [tree |-> "whole", head |-> First, ref |-> First, dirty |-> FALSE]
       ELSE Absent]
  /\ synced = [p \in Project |-> IF warm THEN First ELSE None]
  /\ given = [r \in Record |-> [p \in Project |-> None]]
  /\ disturbed = [p \in Project |-> FALSE]

(* git merge-base --is-ancestor, of a commit and one of upstream's. *)
Ancestor(a, b) == ~a.own /\ a.era = b.era /\ a.n <= b.n

Later(a, b) == a.era > b.era \/ (a.era = b.era /\ a.n >= b.n)

---------------------------------------------------------------------------
(* sync *)

Syncing(r) == pc[r] = "sync" /\ at[r] <= Len(copies[r])
Cur(r) == copies[r][at[r]]
Runs(r, s) == Syncing(r) /\ step[r] = s
Midway(r, p) == Syncing(r) /\ Cur(r) = p /\ step[r] \notin {"look", "clone"}
HasHead(p) == disk[p].tree \in {"half", "whole"}
Goto(r, s) == step' = [step EXCEPT ![r] = s] /\ UNCHANGED <<pc, at>>

(* A command exits with another code: sync throws. *)
Throw(r) ==
  /\ pc' = [pc EXCEPT ![r] = "failed"]
  /\ UNCHANGED <<at, step, seen, disk, synced, given, disturbed>>

Report(r, commit) ==
  /\ given' = [given EXCEPT ![r][Cur(r)] = commit]
  /\ at' = [at EXCEPT ![r] = @ + 1]
  /\ step' = [step EXCEPT ![r] = "look"]
  /\ UNCHANGED pc

Finish(r, commit) ==
  /\ Report(r, commit)
  /\ synced' = [synced EXCEPT ![Cur(r)] = commit]

Dedup(r) ==
  /\ Runs(r, "look") /\ synced[Cur(r)] # None
  /\ Report(r, synced[Cur(r)])
  /\ UNCHANGED <<seen, disk, synced, disturbed>>

(* #syncOne looks for the directory.  Another record may be between its    *)
(* own look and its report: the syncs overlap.                             *)
Look(r) ==
  /\ Runs(r, "look") /\ synced[Cur(r)] = None
  /\ Goto(r, IF disk[Cur(r)].tree = "absent" THEN "clone" ELSE "from")
  /\ seen' = [seen EXCEPT ![r] = Unseen]
  /\ disturbed' = [disturbed EXCEPT ![Cur(r)] =
       @ \/ \E q \in Record \ {r} : Midway(q, Cur(r))]
  /\ UNCHANGED <<disk, synced, given>>

(* git clone refuses a directory that is not empty. *)
CloneRefused(r) ==
  /\ Runs(r, "clone") /\ disk[Cur(r)].tree # "absent"
  /\ Throw(r)

(* Whatever was there is gone; but who was told of it, or is at a command  *)
(* of its own, meets the clone.                                            *)
Clone(r) ==
  /\ Runs(r, "clone") /\ disk[Cur(r)].tree = "absent"
  /\ disk' = [disk EXCEPT ![Cur(r)] = [Absent EXCEPT !.tree = "cloning"]]
  /\ disturbed' = [disturbed EXCEPT ![Cur(r)] =
       synced[Cur(r)] # None \/ \E q \in Record \ {r} : Midway(q, Cur(r))]
  /\ Goto(r, "cloning")
  /\ UNCHANGED <<seen, synced, given>>

CloneFetched(r) ==
  /\ Runs(r, "cloning")
  /\ LET u == upstream[Cur(r)]
     IN disk' = [disk EXCEPT ![Cur(r)] =
          [tree |-> "half", head |-> u, ref |-> u, dirty |-> FALSE]]
  /\ Goto(r, "checkout")
  /\ UNCHANGED <<seen, synced, given, disturbed>>

Cloned(r) ==
  /\ Runs(r, "checkout")
  /\ disk' = [disk EXCEPT ![Cur(r)].tree = "whole"]
  /\ Goto(r, "clone-head")
  /\ UNCHANGED <<seen, synced, given, disturbed>>

(* git clone cleans up after itself when it fails. *)
CloneFails(r) ==
  /\ Syncing(r) /\ step[r] \in {"cloning", "checkout"} /\ events < MaxEvents
  /\ disk' = [disk EXCEPT ![Cur(r)] = Absent]
  /\ pc' = [pc EXCEPT ![r] = "failed"]
  /\ events' = events + 1
  /\ UNCHANGED <<at, step, seen, synced, given, disturbed>>

(* rev-parse HEAD, of a clone or of what was found. *)
CloneHead(r) ==
  /\ Runs(r, "clone-head") /\ HasHead(Cur(r))
  /\ Finish(r, disk[Cur(r)].head)
  /\ UNCHANGED <<seen, disk, disturbed>>

From(r) ==
  /\ Runs(r, "from") /\ HasHead(Cur(r))
  /\ Goto(r, "fetch")
  /\ UNCHANGED <<seen, disk, synced, given, disturbed>>

NoHead(r) ==
  /\ Syncing(r) /\ step[r] \notin {"look", "clone", "cloning", "checkout"}
  /\ ~HasHead(Cur(r))
  /\ Throw(r)

Fetch(r) ==
  /\ Runs(r, "fetch") /\ HasHead(Cur(r))
  /\ disk' = [disk EXCEPT ![Cur(r)].ref = upstream[Cur(r)]]
  /\ Goto(r, "local")
  /\ UNCHANGED <<seen, synced, given, disturbed>>

LocalHead(r) ==
  /\ Runs(r, "local") /\ HasHead(Cur(r))
  /\ seen' = [seen EXCEPT ![r].local = disk[Cur(r)].head]
  /\ Goto(r, "remote")
  /\ UNCHANGED <<disk, synced, given, disturbed>>

(* rev-parse origin/branch, and the choice between the three outcomes; a   *)
(* merge-base that fails counts as one that finds no ancestor.             *)
RemoteHead(r) ==
  /\ Runs(r, "remote") /\ HasHead(Cur(r))
  /\ LET remote == disk[Cur(r)].ref
         local == seen[r].local
     IN IF local = remote
        THEN Finish(r, local) /\ UNCHANGED seen
        ELSE /\ seen' = [seen EXCEPT ![r].remote = remote]
             /\ Goto(r, "reset") \/ (Ancestor(local, remote) /\ Goto(r, "merge"))
             /\ UNCHANGED <<synced, given>>
  /\ UNCHANGED <<disk, disturbed>>

(* merge --ff-only takes the branch of that moment, and refuses when HEAD  *)
(* is no ancestor of it or a changed file is in the way.                   *)
FastForward(r) ==
  /\ Runs(r, "merge") /\ HasHead(Cur(r))
  /\ Ancestor(disk[Cur(r)].head, disk[Cur(r)].ref)
  /\ disk' = [disk EXCEPT ![Cur(r)].head = disk[Cur(r)].ref]
  /\ Goto(r, "head")
  /\ UNCHANGED <<seen, synced, given, disturbed>>

MergeRefused(r) ==
  /\ Runs(r, "merge") /\ HasHead(Cur(r))
  /\ disk[Cur(r)].dirty \/ ~Ancestor(disk[Cur(r)].head, disk[Cur(r)].ref)
  /\ Throw(r)

(* Seeded fault: reset --hard to the commit rev-parse printed. *)
ResetToSeen(r) ==
  /\ Runs(r, "reset") /\ HasHead(Cur(r))
  /\ disk' = [disk EXCEPT ![Cur(r)] =
       [tree |-> "whole", head |-> seen[r].remote, ref |-> disk[Cur(r)].ref,
        dirty |-> FALSE]]
  /\ Goto(r, "head")
  /\ UNCHANGED <<seen, synced, given, disturbed>>

ResetHard(r) ==
  /\ Runs(r, "reset") /\ HasHead(Cur(r))
  /\ disk' = [disk EXCEPT ![Cur(r)] =
       [tree |-> "whole", head |-> disk[Cur(r)].ref, ref |-> disk[Cur(r)].ref,
        dirty |-> FALSE]]
  /\ Goto(r, "head")
  /\ UNCHANGED <<seen, synced, given, disturbed>>

(* Seeded fault: the commit read before the update is reported. *)
OldHead(r) ==
  /\ Runs(r, "head") /\ HasHead(Cur(r))
  /\ Finish(r, seen[r].local)
  /\ UNCHANGED <<seen, disk, disturbed>>

NewHead(r) ==
  /\ Runs(r, "head") /\ HasHead(Cur(r))
  /\ Finish(r, disk[Cur(r)].head)
  /\ UNCHANGED <<seen, disk, disturbed>>

(* Fetch, merge or reset fails: the network, a lock another git holds. *)
GitFails(r) ==
  /\ Syncing(r) /\ step[r] \in {"fetch", "merge", "reset"} /\ events < MaxEvents
  /\ events' = events + 1
  /\ Throw(r)

Synced(r) ==
  /\ pc[r] = "sync" /\ at[r] > Len(copies[r])
  /\ pc' = [pc EXCEPT ![r] = "credentials"]
  /\ UNCHANGED <<at, step, seen, disk, synced, given, disturbed>>

---------------------------------------------------------------------------
(* Everything else that touches the copies *)

Push(p) ==
  /\ events < MaxEvents
  /\ upstream' = [upstream EXCEPT ![p].n = @ + 1]
  /\ events' = events + 1

Rewrite(p) ==
  /\ events < MaxEvents
  /\ upstream' = [upstream EXCEPT ![p].era = @ + 1]
  /\ events' = events + 1

(* A skill edits files or commits. *)
Edit(p) ==
  /\ HasHead(p)
  /\ \/ disk' = [disk EXCEPT ![p].dirty = TRUE]
     \/ disk' = [disk EXCEPT ![p].head.own = TRUE]
  /\ disturbed' = [disturbed EXCEPT ![p] = TRUE]

(* The process dies, and the git commands with it.  A merge or a reset     *)
(* stops with some files written.                                          *)
CopiesLost ==
  /\ LET Cut(p, steps) == \E r \in Record : Syncing(r) /\ Cur(r) = p /\ step[r] \in steps
     IN /\ disk' = [p \in Project |->
             IF Cut(p, {"merge", "reset"}) THEN [disk[p] EXCEPT !.dirty = TRUE] ELSE disk[p]]
        /\ disturbed' = [p \in Project |->
             disturbed[p] \/ Cut(p, {"cloning", "checkout", "merge", "reset"})]
  /\ synced' = [p \in Project |-> None]
  /\ at' = [r \in Record |-> 1] /\ step' = [r \in Record |-> "look"]
  /\ seen' = [r \in Record |-> Unseen]
  /\ given' = [r \in Record |-> [p \in Project |-> None]]

---------------------------------------------------------------------------
(* Properties *)

(* Nothing a sync or a skill does takes a checkout back to an older commit *)
(* of the branch, whatever the syncs that overlap have read before; only a *)
(* clone that fails takes it away.                                         *)
HeadNeverGoesBackStep ==
  \A p \in Project : HasHead(p) /\ HasHead(p)' =>
    Later(disk'[p].head, disk[p].head)

(* A copy r was given is whole, clean and at the commit r was told, unless *)
(* another sync of the project overlapped with its own, a skill has worked *)
(* in it, or a git command was killed in it.                               *)
Pinned(r) ==
  \A i \in 1..Len(copies[r]) :
    LET p == copies[r][i]
        d == disk[p]
    IN disturbed[p] \/ (d.tree = "whole" /\ d.head = given[r][p] /\ ~d.dirty)
================================================================================
