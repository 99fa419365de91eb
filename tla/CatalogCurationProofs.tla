------------------------- MODULE CatalogCurationProofs -------------------------
(***************************************************************************)
(* Proofs about CatalogCuration, for every set of curators and projects    *)
(* and every number of edits, publishes and mishaps.                       *)
(***************************************************************************)
EXTENDS CatalogCuration, TLAPS

(* What is known of a tree whose baseline is usable.  Without a torn pull  *)
(* it is the baseline and the curator's changes; as long as the object has *)
(* not moved, even a torn pull only wrote what was there.                  *)
TreeInv(c) ==
  base[c] # NoBase =>
    /\ ~torn[c] => \A p \in Project \ own[c] : file[c][p] = base[c][p]
    /\ ~moved[c] => remote = base[c]
    /\ ~moved[c] => \A p \in Project \ own[c] : file[c][p] \in {base[c][p], Garbled}

(* What a running pull has written, and what a running publish has loaded. *)
PullInv(c) ==
  /\ cmd[c].pc \in {"writing", "pruning"} /\ base[c] # NoBase /\ ~moved[c] =>
       cmd[c].bundle = base[c]
  /\ cmd[c].pc = "writing" =>
       \A p \in Project \ (own[c] \cup cmd[c].todo) :
         cmd[c].bundle[p] # Absent => file[c][p] = cmd[c].bundle[p]
  /\ cmd[c].pc = "pruning" =>
       /\ \A p \in cmd[c].todo : cmd[c].bundle[p] = Absent
       /\ \A p \in Project \ (own[c] \cup cmd[c].todo) : file[c][p] = cmd[c].bundle[p]

PublishInv(c) ==
  /\ cmd[c].pc \in {"loaded", "putting", "published"} =>
       \A p \in Project \ own[c] : file[c][p] = cmd[c].bundle[p]
  /\ cmd[c].pc = "putting" => cmd[c].ifMatch \in {base[c], NoBase}

CInv == TypeOK /\ \A c \in Curator : TreeInv(c) /\ PullInv(c) /\ PublishInv(c)

(* The forms of a command. *)
LEMMA CommandForms ==
  ASSUME TypeOK, NEW c \in Curator
  PROVE  /\ cmd[c].pc = "idle" => cmd[c] = Idle
         /\ cmd[c].pc \in {"writing", "pruning"} =>
              cmd[c].bundle \in Bundle /\ cmd[c].todo \subseteq Project
              /\ cmd[c] \in [pc : {"writing", "pruning"}, bundle : Bundle, todo : SUBSET Project]
         /\ cmd[c].pc = "loaded" => cmd[c].bundle \in Bundle
         /\ cmd[c].pc \in {"putting", "published"} =>
              cmd[c].bundle \in Bundle /\ cmd[c].ifMatch \in Bundle \cup {NoBase}
              /\ cmd[c] \in [pc : {"putting", "published"}, bundle : Bundle,
                             ifMatch : Bundle \cup {NoBase}]
         /\ cmd[c].pc = "drafting" => cmd[c].project \in Project
              /\ cmd[c].old \in Record \cup {Absent}
  BY DEF TypeOK, Command, Idle

LEMMA FileForms ==
  /\ Record \subseteq File /\ Absent \in File /\ Garbled \in File
  /\ \A b \in Bundle : \A p \in Project : b[p] \in File /\ b[p] # Garbled
  BY DEF Record, File, Absent, Garbled, Bundle

LEMMA InitCorrect == Init => CInv
<1> SUFFICES ASSUME Init PROVE CInv
  OBVIOUS
<1>1. remote \in Bundle
  BY DEF Init, Bundle, Record, Absent
<1>2. [p \in Project |-> Absent] \in [Project -> File]
  BY FileForms
<1>3. remote \in [Project -> File]
  BY <1>1, FileForms DEF Bundle
<1>4. TypeOK
  BY <1>1, <1>2, <1>3 DEF Init, TypeOK, Command, Idle
<1>5. ASSUME NEW c \in Curator PROVE TreeInv(c) /\ PullInv(c) /\ PublishInv(c)
  BY DEF Init, TreeInv, PullInv, PublishInv, Idle
<1> QED BY <1>4, <1>5 DEF CInv

LEMMA BundleIsFiles == \A b \in Bundle : b \in [Project -> File]
  BY FileForms DEF Bundle

(* What writing a file does. *)
LEMMA WriteEffect ==
  ASSUME TypeOK, NEW c \in Curator, NEW p \in Project, NEW record \in File,
         Write(c, p, record)
  PROVE  /\ file' \in [Curator -> [Project -> File]]
         /\ file'[c][p] = record
         /\ \A q \in Project \ {p} : file'[c][q] = file[c][q]
         /\ \A d \in Curator \ {c} : file'[d] = file[d]
  BY DEF TypeOK, Write

(* Every step keeps the types. *)
LEMMA TypeStep == TypeOK /\ [Next]_vars => TypeOK'
<1> SUFFICES ASSUME TypeOK, [Next]_vars PROVE TypeOK'
  OBVIOUS
<1> USE BoundAssumption
<1>0. TypeOK OBVIOUS
<1>1. CASE UNCHANGED vars
  BY <1>1 DEF vars, TypeOK
<1>2. ASSUME NEW c \in Curator, Curate(c) PROVE TypeOK'
  <2> USE DEF Busy, Run, Step, bucket, history, budget, Killed, Edited, Owns
  <2>0. Idle \in Command BY DEF Command
  <2>1. CASE Pull(c)
    <3>1. [pc |-> "writing", bundle |-> remote, todo |-> {p \in Project : remote[p] # Absent}]
            \in Command
      BY DEF TypeOK, Command
    <3>2. QED BY <2>1, <3>1 DEF Pull, TypeOK
  <2>2. ASSUME NEW p \in Project, PullWrite(c, p) PROVE TypeOK'
    <3>1. [cmd[c] EXCEPT !.todo = @ \ {p}] \in Command
      BY <2>2, CommandForms DEF PullWrite, Command
    <3>2. cmd[c].bundle[p] \in File
      BY <2>2, CommandForms, FileForms DEF PullWrite
    <3>3. file' \in [Curator -> [Project -> File]]
      BY <2>2, <3>2, WriteEffect DEF PullWrite
    <3>4. QED BY <2>2, <3>1, <3>3 DEF PullWrite, TypeOK
  <2>3. CASE PullLoad(c)
    <3>1. [cmd[c] EXCEPT !.pc = "pruning",
             !.todo = {p \in Present(c) : cmd[c].bundle[p] = Absent}] \in Command
      BY <2>3, CommandForms DEF PullLoad, Command, Present
    <3>2. QED BY <2>0, <2>3, <3>1 DEF PullLoad, TypeOK
  <2>4. ASSUME NEW p \in Project, PullPrune(c, p) PROVE TypeOK'
    <3>1. [cmd[c] EXCEPT !.todo = @ \ {p}] \in Command
      BY <2>4, CommandForms DEF PullPrune, Command
    <3>2. file' \in [Curator -> [Project -> File]]
      <4>1. CASE Write(c, p, Absent) BY <4>1, WriteEffect, FileForms
      <4>2. CASE UNCHANGED file BY <4>2 DEF TypeOK
      <4>3. QED BY <2>4, <4>1, <4>2 DEF PullPrune
    <3>3. own' \in [Curator -> SUBSET Project] /\ torn' \in [Curator -> BOOLEAN]
      BY <2>4 DEF PullPrune, TypeOK
    <3>4. QED BY <2>4, <3>1, <3>2, <3>3 DEF PullPrune, TypeOK
  <2>5. CASE PullRecord(c)
    BY <2>0, <2>5, CommandForms DEF PullRecord, Rebase, TypeOK
  <2>6. CASE PublishLoad(c)
    <3>1. file[c] \in [Project -> File] BY DEF TypeOK
    <3>2. Loadable(c) \in Bundle
      BY <2>6, <3>1 DEF PublishLoad, Loadable, Bundle, File
    <3>3. QED BY <2>6, <3>2 DEF PublishLoad, TypeOK, Command
  <2>7. CASE PublishGuard(c)
    <3>1. ASSUME NEW etag \in {base[c], NoBase}
          PROVE  [pc |-> "putting", bundle |-> cmd[c].bundle, ifMatch |-> etag] \in Command
      BY <2>7, CommandForms DEF PublishGuard, Command, TypeOK
    <3>2. QED BY <2>0, <2>7, <3>1 DEF PublishGuard, TypeOK
  <2>8. CASE Put(c)
    <3>1. [cmd[c] EXCEPT !.pc = "published"] \in Command
      BY <2>8, CommandForms DEF Put, Command
    <3>2. cmd' \in [Curator -> Command]
      BY <2>0, <2>8, <3>1 DEF Put, TypeOK
    <3>3. QED BY <2>8, <3>2, CommandForms DEF Put, Replace, TypeOK
  <2>9. CASE PutRejected(c)
    BY <2>0, <2>9 DEF PutRejected, TypeOK
  <2>10. CASE PublishRecord(c)
    BY <2>0, <2>10, CommandForms DEF PublishRecord, Rebase, TypeOK
  <2>11. ASSUME NEW p \in Project, Add(c, p) PROVE TypeOK'
    <3>1. file[c][p] \in Record \cup {Absent}
      BY <2>11 DEF Add, TypeOK, File
    <3>2. [pc |-> "drafting", project |-> p, old |-> file[c][p]] \in Command
      BY <3>1 DEF Command
    <3>3. SpineFor(file[c][p]) \in File
      BY <3>1 DEF SpineFor, Record, File
    <3>4. cmd' \in [Curator -> Command]
      BY <2>11, <3>2 DEF Add, TypeOK
    <3>5. file' \in [Curator -> [Project -> File]]
      <4>1. CASE Write(c, p, SpineFor(file[c][p])) BY <4>1, <3>3, WriteEffect
      <4>2. CASE UNCHANGED file BY <4>2 DEF TypeOK
      <4>3. QED BY <2>11, <4>1, <4>2 DEF Add
    <3>6. own' \in [Curator -> SUBSET Project] /\ UNCHANGED <<torn, moved>>
      BY <2>11 DEF Add, TypeOK
    <3>7. QED BY <2>11, <3>4, <3>5, <3>6 DEF Add, TypeOK
  <2>12. CASE Draft(c)
    <3>1. {SpineFor(cmd[c].old), "skeleton"} \subseteq File
      BY <2>12, CommandForms DEF Draft, SpineFor, Record, File
    <3>2. cmd[c].project \in Project
      BY <2>12, CommandForms DEF Draft
    <3>3. file' \in [Curator -> [Project -> File]]
      <4>1. ASSUME NEW record \in File, Write(c, cmd[c].project, record)
            PROVE  file' \in [Curator -> [Project -> File]]
        BY <4>1, <3>2, WriteEffect
      <4>2. CASE UNCHANGED file BY <4>2 DEF TypeOK
      <4>3. QED BY <2>12, <3>1, <4>1, <4>2 DEF Draft
    <3>4. own' \in [Curator -> SUBSET Project] /\ UNCHANGED <<torn, moved>>
      BY <2>12, <3>2 DEF Draft, TypeOK
    <3>5. QED BY <2>0, <2>12, <3>3, <3>4 DEF Draft, TypeOK
  <2>13. CASE Kill(c)
    <3>1. file' \in [Curator -> [Project -> File]]
      <4>1. ASSUME Busy(c, "writing"), NEW p \in cmd[c].todo, Write(c, p, Garbled)
            PROVE  file' \in [Curator -> [Project -> File]]
        BY <4>1, CommandForms, FileForms, WriteEffect
      <4>2. CASE UNCHANGED file BY <4>2 DEF TypeOK
      <4>3. QED BY <2>13, <4>1, <4>2 DEF Kill
    <3>2. base' \in [Curator -> Bundle \cup {NoBase}] /\ torn' \in [Curator -> BOOLEAN]
      BY <2>13 DEF Kill, TypeOK
    <3>3. cmd' \in [Curator -> Command] /\ kills' \in Nat
      BY <2>0, <2>13 DEF Kill, TypeOK
    <3>4. UNCHANGED <<bucket, own, moved, edits>>
      BY <2>13 DEF Kill
    <3>5. QED BY <3>1, <3>2, <3>3, <3>4 DEF TypeOK
  <2>14. ASSUME NEW p \in Project, Edit(c, p) PROVE TypeOK'
    <3>1. file' \in [Curator -> [Project -> File]]
      BY <2>14, WriteEffect DEF Edit
    <3>2. edits' \in Nat /\ UNCHANGED <<bucket, base, cmd, torn, moved, kills>>
      BY <2>14 DEF Edit, TypeOK
    <3>3. own' \in [Curator -> SUBSET Project]
      BY <2>14 DEF Edit, TypeOK
    <3>4. QED BY <3>1, <3>2, <3>3 DEF TypeOK
  <2>15. QED
    BY <1>2, <2>1, <2>2, <2>3, <2>4, <2>5, <2>6, <2>7, <2>8, <2>9, <2>10, <2>11,
       <2>12, <2>13, <2>14 DEF Curate
<1>3. QED BY <1>1, <1>2 DEF Next

(* The files, the objects, the answers on the way and the programs keep    *)
(* their shape, whatever the curator and other writers do.                 *)
THEOREM TypeCorrect == Spec => []TypeOK
<1>1. Init => TypeOK
  BY InitCorrect DEF CInv
<1> QED BY <1>1, TypeStep, PTL DEF Spec

(* A step of one curator leaves the trees of the others alone; the object  *)
(* they are based on may move.                                             *)
Elsewhere(c) ==
  \A d \in Curator \ {c} :
    /\ file'[d] = file[d] /\ base'[d] = base[d] /\ cmd'[d] = cmd[d]
    /\ own'[d] = own[d] /\ torn'[d] = torn[d]
    /\ \/ remote' = remote /\ moved'[d] = moved[d]
       \/ moved'[d] = (moved[d] \/ base[d] # remote')

LEMMA StepIsLocal ==
  ASSUME TypeOK, NEW c \in Curator, Curate(c)
  PROVE  Elsewhere(c)
<1> USE DEF Busy, Run, Step, bucket, history, budget, Owns, Rebase, Elsewhere, TypeOK
<1>0. ASSUME NEW p \in Project, NEW record \in File, Write(c, p, record)
      PROVE  \A d \in Curator \ {c} : file'[d] = file[d]
  BY <1>0, WriteEffect
<1>1. CASE Pull(c) BY <1>1 DEF Pull
<1>2. ASSUME NEW p \in Project, PullWrite(c, p) PROVE Elsewhere(c)
  <2>1. cmd[c].bundle[p] \in File
    BY <1>2, CommandForms, FileForms DEF PullWrite
  <2>2. QED BY <1>0, <1>2, <2>1 DEF PullWrite
<1>3. CASE PullLoad(c) BY <1>3 DEF PullLoad
<1>4. ASSUME NEW p \in Project, PullPrune(c, p) PROVE Elsewhere(c)
  <2>1. \A d \in Curator \ {c} : file'[d] = file[d]
    BY <1>0, <1>4, FileForms DEF PullPrune
  <2>2. QED BY <1>4, <2>1 DEF PullPrune
<1>5. CASE PullRecord(c) BY <1>5 DEF PullRecord
<1>6. CASE PublishLoad(c) BY <1>6 DEF PublishLoad
<1>7. CASE PublishGuard(c) BY <1>7 DEF PublishGuard
<1>8. CASE Put(c) BY <1>8 DEF Put, Replace
<1>9. CASE PutRejected(c) BY <1>9 DEF PutRejected
<1>10. CASE PublishRecord(c) BY <1>10 DEF PublishRecord
<1>11. ASSUME NEW p \in Project, Add(c, p) PROVE Elsewhere(c)
  <2>1. SpineFor(file[c][p]) \in File
    BY <1>11 DEF Add, SpineFor, File, Record
  <2>2. \A d \in Curator \ {c} : file'[d] = file[d]
    BY <1>0, <1>11, <2>1 DEF Add
  <2>3. QED BY <1>11, <2>2 DEF Add
<1>12. CASE Draft(c)
  <2>1. cmd[c].project \in Project /\ {SpineFor(cmd[c].old), "skeleton"} \subseteq File
    BY <1>12, CommandForms DEF Draft, SpineFor, Record, File
  <2>2. \A d \in Curator \ {c} : file'[d] = file[d]
    BY <1>0, <1>12, <2>1 DEF Draft
  <2>3. QED BY <1>12, <2>2 DEF Draft
<1>13. CASE Kill(c)
  <2>1. ASSUME Busy(c, "writing"), NEW p \in cmd[c].todo, Write(c, p, Garbled)
        PROVE  \A d \in Curator \ {c} : file'[d] = file[d]
    BY <1>0, <2>1, CommandForms, FileForms
  <2>2. \A d \in Curator \ {c} : file'[d] = file[d]
    BY <1>13, <2>1 DEF Kill
  <2>3. \A d \in Curator \ {c} : base'[d] = base[d] /\ torn'[d] = torn[d]
    BY <1>13 DEF Kill
  <2>4. \A d \in Curator \ {c} : cmd'[d] = cmd[d]
    BY <1>13 DEF Kill
  <2>5. UNCHANGED <<remote, own, moved>>
    BY <1>13 DEF Kill
  <2>6. QED BY <2>2, <2>3, <2>4, <2>5
<1>14. ASSUME NEW p \in Project, Edit(c, p) PROVE Elsewhere(c)
  <2>1. \A d \in Curator \ {c} : file'[d] = file[d]
    BY <1>0, <1>14 DEF Edit
  <2>2. QED BY <1>14, <2>1 DEF Edit
<1> QED
  BY <1>1, <1>2, <1>3, <1>4, <1>5, <1>6, <1>7, <1>8, <1>9, <1>10, <1>11, <1>12, <1>13, <1>14
  DEF Curate

LEMMA OthersKeep ==
  ASSUME CInv, NEW c \in Curator, Elsewhere(c), NEW d \in Curator \ {c}
  PROVE  TreeInv(d)' /\ PullInv(d)' /\ PublishInv(d)'
<1> USE DEF CInv, Elsewhere
<1>1. TypeOK /\ moved[d] \in BOOLEAN BY DEF TypeOK
<1>2. ~moved'[d] => ~moved[d] /\ (remote' = remote \/ base[d] = remote')
  BY <1>1
<1>3. TreeInv(d)'
  BY <1>2 DEF TreeInv
<1>4. PullInv(d)'
  BY <1>2 DEF PullInv
<1>5. PublishInv(d)'
  BY DEF PublishInv
<1> QED BY <1>3, <1>4, <1>5

(* What is known of c's tree, after a step in it that changed file p and   *)
(* nothing else c's invariants speak of, if c owns up to the change.       *)
LEMMA OwnChange ==
  ASSUME CInv, NEW c \in Curator, NEW p \in Project, NEW record \in File,
         Write(c, p, record), Owns(c, p),
         UNCHANGED <<remote, base>>, cmd'[c] \in {cmd[c], Idle}
  PROVE  TreeInv(c)' /\ PullInv(c)' /\ PublishInv(c)'
<1>1. \A q \in Project \ {p} : file'[c][q] = file[c][q]
  BY WriteEffect DEF CInv
<1>2. own'[c] = own[c] \cup {p} /\ UNCHANGED <<torn, moved>>
  BY DEF Owns, CInv, TypeOK
<1>3. TreeInv(c)'
  BY <1>1, <1>2 DEF CInv, TreeInv
<1>4. CASE cmd'[c] = cmd[c]
  BY <1>1, <1>2, <1>3, <1>4 DEF CInv, PullInv, PublishInv
<1>5. CASE cmd'[c] = Idle
  BY <1>3, <1>5 DEF Idle, PullInv, PublishInv
<1> QED BY <1>3, <1>4, <1>5

LEMMA StepKeeps ==
  ASSUME CInv, NEW c \in Curator, Curate(c)
  PROVE  TreeInv(c)' /\ PullInv(c)' /\ PublishInv(c)'
<1> DEFINE Goal == TreeInv(c)' /\ PullInv(c)' /\ PublishInv(c)'
<1>0. TypeOK /\ TreeInv(c) /\ PullInv(c) /\ PublishInv(c)
  BY DEF CInv
<1> USE DEF Busy, Run, Step, bucket, history, budget
<1>1. CASE Pull(c)
  <2>1. cmd'[c] = [pc |-> "writing", bundle |-> remote,
                   todo |-> {p \in Project : remote[p] # Absent}]
    BY <1>0, <1>1 DEF Pull, TypeOK
  <2>2. UNCHANGED <<remote, file, base, own, torn, moved>>
    BY <1>1 DEF Pull
  <2>3. TreeInv(c)' BY <1>0, <2>2 DEF TreeInv
  <2>4. PullInv(c)' BY <1>0, <2>1, <2>2 DEF PullInv, TreeInv
  <2>5. PublishInv(c)' BY <2>1 DEF PublishInv
  <2>6. QED BY <2>3, <2>4, <2>5
<1>2. ASSUME NEW p \in Project, PullWrite(c, p) PROVE Goal
  <2>1. cmd[c].bundle[p] \in File /\ cmd[c].pc = "writing" /\ p \in cmd[c].todo
    BY <1>0, <1>2, CommandForms, FileForms DEF PullWrite
  <2>2. /\ file'[c][p] = cmd[c].bundle[p]
        /\ \A q \in Project \ {p} : file'[c][q] = file[c][q]
    BY <1>0, <1>2, <2>1, WriteEffect DEF PullWrite
  <2>3. /\ cmd'[c].pc = "writing" /\ cmd'[c].bundle = cmd[c].bundle
        /\ cmd'[c].todo = cmd[c].todo \ {p}
    BY <1>0, <1>2, CommandForms DEF PullWrite, TypeOK
  <2>4. /\ UNCHANGED <<remote, base, moved>>
        /\ own'[c] = own[c] \ {p} /\ torn'[c] = TRUE
    BY <1>0, <1>2 DEF PullWrite, TypeOK
  <2>5. base[c] # NoBase /\ ~moved[c] => cmd[c].bundle = base[c]
    BY <1>0, <2>1 DEF PullInv
  <2>6. TreeInv(c)' BY <1>0, <2>2, <2>4, <2>5 DEF TreeInv
  <2>7. PullInv(c)' BY <1>0, <2>1, <2>2, <2>3, <2>4 DEF PullInv
  <2>8. PublishInv(c)' BY <2>3 DEF PublishInv
  <2>9. QED BY <2>6, <2>7, <2>8
<1>3. CASE PullLoad(c)
  <2>1. UNCHANGED <<remote, file, base, own, torn, moved>>
    BY <1>3 DEF PullLoad
  <2>2. TreeInv(c)' BY <1>0, <2>1 DEF TreeInv
  <2>3. CASE cmd'[c] = Idle
    BY <2>2, <2>3 DEF Idle, PullInv, PublishInv
  <2>4. CASE /\ cmd[c].pc = "writing" /\ cmd[c].todo = {}
             /\ cmd'[c].pc = "pruning" /\ cmd'[c].bundle = cmd[c].bundle
             /\ cmd'[c].todo = {p \in Present(c) : cmd[c].bundle[p] = Absent}
    <3>1. PullInv(c)' BY <1>0, <2>1, <2>4 DEF PullInv, Present
    <3>2. PublishInv(c)' BY <2>4 DEF PublishInv
    <3>3. QED BY <2>2, <3>1, <3>2
  <2> DEFINE todo == {p \in Present(c) : cmd[c].bundle[p] = Absent}
             pruning == [cmd[c] EXCEPT !.pc = "pruning", !.todo = todo]
  <2>5. cmd[c].pc = "writing" /\ cmd[c].todo = {}
    BY <1>3 DEF PullLoad
  <2>6. /\ pruning.pc = "pruning" /\ pruning.bundle = cmd[c].bundle
        /\ pruning.todo = todo
    BY <1>0, <2>5, CommandForms
  <2>7. cmd'[c] \in {Idle, pruning}
    <3> HIDE DEF todo, pruning
    <3>1. cmd' \in {[cmd EXCEPT ![c] = Idle], [cmd EXCEPT ![c] = pruning]}
      BY <1>3 DEF PullLoad, todo, pruning
    <3>2. QED BY <1>0, <3>1 DEF TypeOK
  <2>8. QED BY <2>3, <2>4, <2>5, <2>6, <2>7
<1>4. ASSUME NEW p \in Project, PullPrune(c, p) PROVE Goal
  <2>1. cmd[c].pc = "pruning" /\ p \in cmd[c].todo /\ cmd[c].bundle[p] = Absent
    BY <1>0, <1>4 DEF PullPrune, PullInv
  <2>2. /\ cmd'[c].pc = "pruning" /\ cmd'[c].bundle = cmd[c].bundle
        /\ cmd'[c].todo = cmd[c].todo \ {p}
    BY <1>0, <1>4, CommandForms DEF PullPrune, TypeOK
  <2>3. UNCHANGED <<remote, base, moved>> /\ torn'[c] = TRUE
    BY <1>0, <1>4 DEF PullPrune, TypeOK
  <2>4. \A q \in Project \ {p} : file'[c][q] = file[c][q]
    BY <1>0, <1>4, FileForms, WriteEffect DEF PullPrune
  <2>5. \/ file'[c][p] = Absent /\ own'[c] = own[c] \ {p}
        \/ file'[c][p] = file[c][p] /\ own'[c] = own[c] \cup {p}
    BY <1>0, <1>4, FileForms, WriteEffect DEF PullPrune, TypeOK
  <2>6. base[c] # NoBase /\ ~moved[c] => cmd[c].bundle = base[c]
    BY <1>0, <2>1 DEF PullInv
  <2>7. TreeInv(c)' BY <1>0, <2>1, <2>3, <2>4, <2>5, <2>6 DEF TreeInv
  <2>8. PullInv(c)' BY <1>0, <2>1, <2>2, <2>3, <2>4, <2>5 DEF PullInv
  <2>9. PublishInv(c)' BY <2>2 DEF PublishInv
  <2>10. QED BY <2>7, <2>8, <2>9
<1>5. CASE PullRecord(c)
  <2>1. /\ cmd'[c] = Idle /\ base'[c] = cmd[c].bundle /\ torn'[c] = FALSE
        /\ moved'[c] = (remote # cmd[c].bundle)
        /\ UNCHANGED <<remote, file, own>>
    BY <1>0, <1>5 DEF PullRecord, Rebase, TypeOK
  <2>2. \A p \in Project \ own[c] : file[c][p] = cmd[c].bundle[p]
    BY <1>0, <1>5 DEF PullRecord, PullInv
  <2>3. TreeInv(c)' BY <2>1, <2>2 DEF TreeInv
  <2>4. QED BY <2>1, <2>3 DEF Idle, PullInv, PublishInv
<1>6. CASE PublishLoad(c)
  <2>1. cmd'[c].pc = "loaded" /\ cmd'[c].bundle = file[c]
    BY <1>0, <1>6 DEF PublishLoad, Loadable, TypeOK
  <2>2. UNCHANGED <<remote, file, base, own, torn, moved>>
    BY <1>6 DEF PublishLoad
  <2>3. QED BY <1>0, <2>1, <2>2 DEF TreeInv, PullInv, PublishInv
<1>7. CASE PublishGuard(c)
  <2>1. UNCHANGED <<remote, file, base, own, torn, moved>>
    BY <1>7 DEF PublishGuard
  <2>2. TreeInv(c)' BY <1>0, <2>1 DEF TreeInv
  <2>3. cmd[c].pc = "loaded" BY <1>7 DEF PublishGuard
  <2>4. CASE cmd'[c] = Idle
    BY <2>2, <2>4 DEF Idle, PullInv, PublishInv
  <2>5. ASSUME NEW etag \in {base[c], NoBase},
               cmd'[c] = [pc |-> "putting", bundle |-> cmd[c].bundle, ifMatch |-> etag]
        PROVE  Goal
    BY <1>0, <2>1, <2>2, <2>3, <2>5 DEF PullInv, PublishInv
  <2>6. QED BY <1>0, <1>7, <2>4, <2>5 DEF PublishGuard, TypeOK
<1>8. CASE Put(c)
  <2>1. /\ remote' = cmd[c].bundle /\ moved'[c] = (moved[c] \/ base[c] # remote')
        /\ UNCHANGED <<file, base, own, torn>>
    BY <1>0, <1>8 DEF Put, Replace, TypeOK
  <2>2. moved[c] \in BOOLEAN BY <1>0 DEF TypeOK
  <2>3. TreeInv(c)' BY <1>0, <2>1, <2>2 DEF TreeInv
  <2>4. CASE cmd'[c] = Idle
    BY <2>3, <2>4 DEF Idle, PullInv, PublishInv
  <2>5. CASE cmd[c].pc = "putting" /\ cmd'[c].pc = "published"
             /\ cmd'[c].bundle = cmd[c].bundle
    BY <1>0, <2>1, <2>3, <2>5 DEF PullInv, PublishInv
  <2>6. QED BY <1>0, <1>8, <2>4, <2>5, CommandForms DEF Put, TypeOK
<1>9. CASE PutRejected(c)
  <2>1. UNCHANGED <<remote, file, base, own, torn, moved>> /\ cmd'[c] = Idle
    BY <1>0, <1>9 DEF PutRejected, TypeOK
  <2>2. QED BY <1>0, <2>1 DEF Idle, TreeInv, PullInv, PublishInv
<1>10. CASE PublishRecord(c)
  <2>1. /\ cmd'[c] = Idle /\ base'[c] = cmd[c].bundle /\ torn'[c] = FALSE
        /\ moved'[c] = (remote # cmd[c].bundle)
        /\ own'[c] = {p \in own[c] : file[c][p] # cmd[c].bundle[p]}
        /\ UNCHANGED <<remote, file>>
    BY <1>0, <1>10 DEF PublishRecord, Rebase, TypeOK
  <2>2. \A p \in Project \ own[c] : file[c][p] = cmd[c].bundle[p]
    BY <1>0, <1>10 DEF PublishRecord, PublishInv
  <2>3. TreeInv(c)' BY <2>1, <2>2 DEF TreeInv
  <2>4. QED BY <2>1, <2>3 DEF Idle, PullInv, PublishInv
<1>11. ASSUME NEW p \in Project, Add(c, p) PROVE Goal
  <2>1. SpineFor(file[c][p]) \in File
    BY <1>0, <1>11 DEF Add, SpineFor, File, Record, TypeOK
  <2>2. CASE Write(c, p, SpineFor(file[c][p])) /\ Owns(c, p) /\ UNCHANGED cmd
    BY <1>11, <2>1, <2>2, OwnChange DEF Add
  <2>3. CASE /\ UNCHANGED <<file, history>>
             /\ Run(c, [pc |-> "drafting", project |-> p, old |-> file[c][p]])
    <3>1. UNCHANGED <<remote, file, base, own, torn, moved>>
      BY <1>11, <2>3 DEF Add
    <3>2. cmd'[c].pc = "drafting"
      BY <1>0, <2>3 DEF TypeOK
    <3>3. QED BY <1>0, <3>1, <3>2 DEF TreeInv, PullInv, PublishInv
  <2>4. QED BY <1>11, <2>2, <2>3 DEF Add
<1>12. CASE Draft(c)
  <2>1. /\ cmd[c].project \in Project /\ {SpineFor(cmd[c].old), "skeleton"} \subseteq File
        /\ cmd'[c] = Idle /\ UNCHANGED <<remote, base>>
    BY <1>0, <1>12, CommandForms DEF Draft, SpineFor, Record, File, TypeOK
  <2>2. ASSUME NEW record \in File, Write(c, cmd[c].project, record),
               Owns(c, cmd[c].project)
        PROVE  Goal
    BY <2>1, <2>2, OwnChange
  <2>3. CASE UNCHANGED <<file, history>>
    BY <1>0, <2>1, <2>3 DEF Idle, TreeInv, PullInv, PublishInv
  <2>4. QED BY <1>12, <2>1, <2>2, <2>3 DEF Draft
<1>13. CASE Kill(c)
  <2>1. cmd'[c] = Idle /\ UNCHANGED <<remote, own, moved>>
    BY <1>0, <1>13 DEF Kill, TypeOK
  <2>2. CASE UNCHANGED <<file, base, torn>>
    BY <1>0, <2>1, <2>2 DEF Idle, TreeInv, PullInv, PublishInv
  <2>3. ASSUME Busy(c, "writing"), UNCHANGED base, NEW p \in cmd[c].todo,
               Write(c, p, Garbled), torn' = [torn EXCEPT ![c] = TRUE]
        PROVE  Goal
    <3>1. /\ p \in Project /\ file'[c][p] = Garbled
          /\ \A q \in Project \ {p} : file'[c][q] = file[c][q]
      BY <1>0, <2>3, CommandForms, FileForms, WriteEffect
    <3>2. torn'[c] = TRUE BY <1>0, <2>3 DEF TypeOK
    <3>3. TreeInv(c)' BY <1>0, <2>1, <2>3, <3>1, <3>2 DEF TreeInv
    <3>4. QED BY <2>1, <3>3 DEF Idle, PullInv, PublishInv
  <2>4. CASE base'[c] = NoBase
    BY <2>1, <2>4 DEF Idle, TreeInv, PullInv, PublishInv
  <2>5. QED BY <1>0, <1>13, <2>2, <2>3, <2>4 DEF Kill, TypeOK
<1>14. ASSUME NEW p \in Project, Edit(c, p) PROVE Goal
  BY <1>14, OwnChange DEF Edit
<1> QED
  BY <1>1, <1>2, <1>3, <1>4, <1>5, <1>6, <1>7, <1>8, <1>9, <1>10, <1>11, <1>12, <1>13, <1>14
  DEF Curate

LEMMA StepCorrect == CInv /\ [Next]_vars => CInv'
<1> SUFFICES ASSUME CInv, [Next]_vars PROVE CInv'
  OBVIOUS
<1>1. TypeOK'
  BY TypeStep DEF CInv
<1>2. CASE UNCHANGED vars
  <2>1. ASSUME NEW d \in Curator PROVE (TreeInv(d) /\ PullInv(d) /\ PublishInv(d))'
    BY <1>2 DEF CInv, vars, TreeInv, PullInv, PublishInv
  <2>2. QED BY <1>1, <2>1 DEF CInv
<1>3. ASSUME NEW c \in Curator, Curate(c) PROVE CInv'
  <2>1. Elsewhere(c)
    BY <1>3, StepIsLocal DEF CInv
  <2>2. ASSUME NEW d \in Curator PROVE (TreeInv(d) /\ PullInv(d) /\ PublishInv(d))'
    BY <1>3, <2>1, OthersKeep, StepKeeps
  <2>3. QED BY <1>1, <2>2 DEF CInv
<1>4. QED BY <1>2, <1>3 DEF Next

LEMMA InvariantCorrect == Spec => []CInv
BY InitCorrect, StepCorrect, PTL DEF Spec

(* The state file is true to the tree: what catalogit pull and publish     *)
(* remember of a tree without a half-written pull accounts for every file  *)
(* the curator has not changed.                                            *)
THEOREM TreeMatchesBaselineHolds == Spec => []TreeMatchesBaseline
<1>1. CInv => TreeMatchesBaseline
  BY DEF CInv, TreeInv, TreeMatchesBaseline
<1> QED BY <1>1, InvariantCorrect, PTL

(* Who is running a guarded publish whose command ends while the object is *)
(* replaced is the one who replaced it.                                    *)
LEMMA PutterIsCurator ==
  ASSUME CInv, [Next]_vars, NEW c \in Curator,
         version' # version, cmd'[c] # cmd[c]
  PROVE  Put(c)
<1>1. version \in Nat /\ cmd'[c] # cmd[c]
  BY DEF CInv, TypeOK
<1>2. PICK d \in Curator : Curate(d)
  BY DEF Next, vars
<1>3. d = c
  BY <1>2, StepIsLocal DEF CInv, Elsewhere
<1>4. QED
  BY <1>2, <1>3 DEF Curate, Pull, PullLoad, PullRecord, PublishLoad, PublishGuard,
     PutRejected, PublishRecord, Draft, Kill, Edit, PullWrite, PullPrune, Add, bucket

(* "A concurrent remote edit is rejected (412) instead of silently         *)
(* clobbered": a publish with the If-Match guard changes no project of the *)
(* object that its curator has not changed, unless a pull was cut short in *)
(* the tree and the object has moved and come back since.                  *)
THEOREM PublishKeepsOthersEditsHolds == Spec => PublishKeepsOthersEdits
<1> DEFINE Step1(c) ==
       /\ Busy(c, "putting") /\ Guarded(c) /\ version' # version /\ cmd'[c] # cmd[c]
       /\ ~(torn[c] /\ moved[c])
       => \A p \in Project \ own[c] : remote'[p] = remote[p]
<1>1. ASSUME CInv, [Next]_vars, NEW c \in Curator PROVE Step1(c)
  <2> SUFFICES ASSUME Busy(c, "putting"), Guarded(c), version' # version,
                      cmd'[c] # cmd[c], ~(torn[c] /\ moved[c]),
                      NEW p \in Project \ own[c]
               PROVE  remote'[p] = remote[p]
    OBVIOUS
  <2>1. Put(c)
    BY <1>1, PutterIsCurator
  <2>2. remote' = cmd[c].bundle /\ remote = cmd[c].ifMatch
    BY <2>1 DEF Put, Replace, Admits
  <2>3. cmd[c].ifMatch = base[c] /\ base[c] # NoBase
    BY <1>1 DEF CInv, PublishInv, Busy, Guarded
  <2>4. file[c][p] = cmd[c].bundle[p]
    BY <1>1 DEF CInv, PublishInv, Busy
  <2>5. cmd[c].bundle \in Bundle /\ cmd[c].bundle[p] # Garbled
    BY <1>1, CommandForms, FileForms DEF CInv, Busy
  <2>6. file[c][p] = base[c][p]
    BY <1>1, <2>3, <2>4, <2>5 DEF CInv, TreeInv, TypeOK
  <2>7. QED BY <2>2, <2>3, <2>4, <2>6
<1>2. CInv /\ [Next]_vars => [\A c \in Curator : Step1(c)]_vars
  BY <1>1
<1>3. QED
  BY <1>2, InvariantCorrect, PTL DEF Spec, PublishKeepsOthersEdits
=================================================================================
