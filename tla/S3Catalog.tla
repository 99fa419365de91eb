-------------------------------- MODULE S3Catalog --------------------------------
(***************************************************************************)
(* The catalog as a Lambda container sees it: a snapshot of the published  *)
(* bundle, loaded once and refreshed in the background when it is read     *)
(* after its time to live.  One get is in flight at a time; S3 answers it  *)
(* at some moment, and the container takes the answer, or fails to, at     *)
(* another.                                                                *)
(***************************************************************************)
EXTENDS Naturals, Sequences

CONSTANTS
  Container, Project,
  Garbled,      \* a bundle that does not parse or has an unknown version
  Bundles,      \* what may be published: sets of opted-in projects, or Garbled
  First,        \* the one published before any container starts
  MaxPublishes  \* bound on the bundles published

ASSUME CatalogAssumption ==
  /\ Garbled \notin SUBSET Project
  /\ Bundles \subseteq SUBSET Project \cup {Garbled}
  /\ First \in SUBSET Project
  /\ MaxPublishes \in Nat

VARIABLES
  published,  \* the bundles published so far
  snapshot,   \* snapshot[c]: the one c serves reads from, None before it is loaded
  fresh,      \* fresh[c]: the snapshot's time to live has not passed
  flight      \* flight[c]: c's gets: the ETag sent, and what S3 answered

catalog == <<published, snapshot, fresh, flight>>

None == 0

Latest == Len(published)

Version == 1..Latest

Get == [etag : Version \cup {None}, answer : Version \cup {None}]

CatalogTypeOK ==
  /\ published \in Seq(SUBSET Project \cup {Garbled}) /\ Latest > 0
  /\ snapshot \in [Container -> Version \cup {None}]
  /\ fresh \in [Container -> BOOLEAN]
  /\ flight \in [Container -> SUBSET Get]

CatalogInit ==
  /\ published = <<First>>
  /\ snapshot = [c \in Container |-> None]
  /\ fresh = [c \in Container |-> FALSE]
  /\ flight = [c \in Container |-> {}]

(* To publish the same bundle again changes nothing. *)
Publish(b) ==
  /\ Latest < MaxPublishes /\ b # published[Latest]
  /\ published' = Append(published, b)
  /\ UNCHANGED <<snapshot, fresh, flight>>

---------------------------------------------------------------------------
(* Getting the object *)

Send(c) == flight' = [flight EXCEPT ![c] = @ \cup {[etag |-> snapshot[c], answer |-> None]}]

Load(c) == Send(c) /\ UNCHANGED <<published, snapshot, fresh>>

(* Seeded fault: gets are not coalesced. *)
RefreshesAlways(c) == ~fresh[c]

Refreshes(c) == ~fresh[c] /\ flight[c] = {}

(* Any read: the snapshot as it is, and a refresh behind it if it is due.  *)
Read(c) ==
  /\ IF Refreshes(c) THEN Send(c) ELSE UNCHANGED flight
  /\ UNCHANGED <<published, snapshot, fresh>>

(* The ETag is the content's: a bundle that came back is not modified.     *)
NotModified(get) == get.etag # None /\ published[get.etag] = published[Latest]

Serve(c, get) ==
  /\ get \in flight[c] /\ get.answer = None
  /\ flight' = [flight EXCEPT ![c] = (@ \ {get}) \cup
       {[get EXCEPT !.answer = IF NotModified(get) THEN get.etag ELSE Latest]}]
  /\ UNCHANGED <<published, snapshot, fresh>>

Done(c, get) == flight' = [flight EXCEPT ![c] = @ \ {get}] /\ UNCHANGED published

(* Seeded fault: every answer to a refresh is taken for a 304. *)
AdoptFirst(c, get) ==
  IF get.etag # None THEN UNCHANGED snapshot
  ELSE snapshot' = [snapshot EXCEPT ![c] = get.answer]

Adopt(c, get) ==
  IF get.answer = get.etag THEN UNCHANGED snapshot
  ELSE snapshot' = [snapshot EXCEPT ![c] = get.answer]

Answer(c, get) ==
  /\ get \in flight[c] /\ get.answer # None /\ published[get.answer] # Garbled
  /\ Adopt(c, get)
  /\ fresh' = [fresh EXCEPT ![c] = TRUE]
  /\ Done(c, get)

(* The get fails, or what it got does not parse: the snapshot stays, and   *)
(* stays due for a refresh.                                                *)
Lose(c, get) ==
  /\ get \in flight[c]
  /\ Done(c, get) /\ UNCHANGED <<snapshot, fresh>>

Discard(c, get) ==
  /\ get.answer # None /\ published[get.answer] = Garbled
  /\ Lose(c, get)

---------------------------------------------------------------------------

(* The time to live passes. *)
Expire(c) ==
  /\ fresh[c]
  /\ fresh' = [fresh EXCEPT ![c] = FALSE]
  /\ UNCHANGED <<published, snapshot, flight>>

(* The container is gone, with its memory. *)
Unload(c) ==
  /\ snapshot' = [snapshot EXCEPT ![c] = None]
  /\ fresh' = [fresh EXCEPT ![c] = FALSE]
  /\ flight' = [flight EXCEPT ![c] = {}]
  /\ UNCHANGED published

OptedIn(c) == published[snapshot[c]]

---------------------------------------------------------------------------
(* Properties *)

(* A refresh never puts an older bundle in the place of a newer one, in    *)
(* whatever order gets are answered, and a bundle that cannot be parsed    *)
(* never replaces one that can: reads are answered from a usable bundle    *)
(* that never goes back while the container lives.                         *)
SnapshotNeverGoesBack ==
  [][\A c \in Container : snapshot'[c] # None =>
       snapshot'[c] >= snapshot[c] /\ published'[snapshot'[c]] # Garbled]_catalog

Current(c) ==
  /\ snapshot[c] # None
  /\ published[Latest] \in {OptedIn(c), Garbled}
=================================================================================
