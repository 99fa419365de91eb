------------------------------ MODULE SigningKeys ------------------------------
(***************************************************************************)
(* The signing keys of a container: signing-key-resolver.ts keeps each SSM *)
(* parameter it fetched for a time to live, records that need a parameter  *)
(* while it is being fetched wait for that fetch, and a fetch that failed  *)
(* is forgotten.                                                           *)
(*                                                                         *)
(* SSM reads the parameter at one moment and the container takes the       *)
(* answer at another, and counts the time to live from there.  The         *)
(* continuation that stores or drops the answer runs before the waiting    *)
(* records go on, so taking it is one action.                              *)
(***************************************************************************)
EXTENDS Naturals

CONSTANTS
  Record,    \* queue records
  Param,     \* the SSM parameters that hold the consumers' keys
  KeyTtl,    \* how long a fetched key may be used
  MaxNow, MaxEvents

VARIABLES
  pc,        \* pc[r]: how far record r is
  param,     \* param[r]: the parameter of r's consumer, "literal", or "unsigned"
  keys,      \* the cache
  fetching,  \* parameters whose GetParameter is awaited
  answer,    \* answer[p]: what SSM read for the GetParameter of p, and when
  version,   \* version[p]: how often p was rotated
  rotated,   \* rotated[p]: when p was rotated last
  key,       \* key[r]: the version of the key r's signature was checked with
  now, events

NoKey == MaxEvents + 1

NoAnswer == [value |-> NoKey, read |-> 0]

NoEntry == [kind |-> "none", value |-> NoKey, exp |-> 0, late |-> 0]

(* "late" is history: how long the answer was on its way to the container. *)
Entry == [kind : {"none", "inFlight", "value"}, value : 0..NoKey,
          exp : 0..(MaxNow + KeyTtl), late : 0..MaxNow]

KeysTypeOK ==
  /\ param \in [Record -> Param \cup {"literal", "unsigned"}]
  /\ keys \in [Param -> Entry] /\ fetching \in SUBSET Param
  /\ answer \in [Param -> [value : 0..NoKey, read : 0..MaxNow]]
  /\ version \in [Param -> 0..MaxEvents] /\ rotated \in [Param -> 0..MaxNow]
  /\ key \in [Record -> 0..NoKey]

KeysInit ==
  /\ keys = [p \in Param |-> NoEntry] /\ fetching = {}
  /\ answer = [p \in Param |-> NoAnswer]
  /\ version = [p \in Param |-> 0] /\ rotated = [p \in Param |-> 0]
  /\ key = [r \in Record |-> NoKey]

Waiting(p) == {r \in Record : pc[r] = "key-wait" /\ param[r] = p}

(* The secret of a literal is in the consumer's registry record; a runtime *)
(* message carries no signature.                                           *)
NeedsNoFetch(r) ==
  /\ pc[r] = "key" /\ param[r] \notin Param
  /\ pc' = [pc EXCEPT ![r] = "sync"]
  /\ UNCHANGED <<keys, fetching, answer, key>>

(* Seeded fault: a cached key is used whether it has expired or not.       *)
UseExpired(r) ==
  /\ pc[r] = "key" /\ param[r] \in Param /\ keys[param[r]].kind = "value"
  /\ key' = [key EXCEPT ![r] = keys[param[r]].value]
  /\ pc' = [pc EXCEPT ![r] = "sync"]
  /\ UNCHANGED <<keys, fetching, answer>>

UseCached(r) ==
  /\ pc[r] = "key" /\ param[r] \in Param
  /\ LET e == keys[param[r]]
     IN /\ e.kind = "value" /\ e.exp > now
        /\ key' = [key EXCEPT ![r] = e.value]
  /\ pc' = [pc EXCEPT ![r] = "sync"]
  /\ UNCHANGED <<keys, fetching, answer>>

(* The promise of the fetch in flight: it is waited for, and one that has  *)
(* been rejected rejects at once.                                          *)
Join(r) ==
  /\ pc[r] = "key" /\ param[r] \in Param /\ keys[param[r]].kind = "inFlight"
  /\ pc' = [pc EXCEPT ![r] =
       IF param[r] \in fetching THEN "key-wait" ELSE "unavailable"]
  /\ UNCHANGED <<keys, fetching, answer, key>>

Fetch(r) ==
  /\ pc[r] = "key" /\ param[r] \in Param
  /\ LET e == keys[param[r]]
     IN e.kind = "none" \/ (e.kind = "value" /\ e.exp <= now)
  /\ keys' = [keys EXCEPT ![param[r]] = [NoEntry EXCEPT !.kind = "inFlight"]]
  /\ fetching' = fetching \cup {param[r]}
  /\ pc' = [pc EXCEPT ![r] = "key-wait"]
  /\ UNCHANGED <<answer, key>>

(* SSM reads the value of the moment; again, when its answer was lost and  *)
(* the SDK repeats the call.                                               *)
Served(p) ==
  /\ p \in fetching
  /\ answer' = [answer EXCEPT ![p] = [value |-> version[p], read |-> now]]
  /\ UNCHANGED <<pc, keys, fetching, key>>

(* The answer arrives, however long that took. *)
Fetched(p) ==
  /\ p \in fetching /\ answer[p].value # NoKey
  /\ keys' = [keys EXCEPT ![p] =
       [kind |-> "value", value |-> answer[p].value, exp |-> now + KeyTtl,
        late |-> now - answer[p].read]]
  /\ fetching' = fetching \ {p} /\ answer' = [answer EXCEPT ![p] = NoAnswer]
  /\ key' = [r \in Record |-> IF r \in Waiting(p) THEN answer[p].value ELSE key[r]]
  /\ pc' = [r \in Record |-> IF r \in Waiting(p) THEN "sync" ELSE pc[r]]

(* Seeded fault: the rejected promise stays in the cache. *)
FetchFailsKept(p) ==
  /\ p \in fetching /\ events < MaxEvents
  /\ fetching' = fetching \ {p} /\ answer' = [answer EXCEPT ![p] = NoAnswer]
  /\ pc' = [r \in Record |-> IF r \in Waiting(p) THEN "unavailable" ELSE pc[r]]
  /\ events' = events + 1
  /\ UNCHANGED <<keys, key>>

(* GetParameter throws or returns no value. *)
FetchFails(p) ==
  /\ p \in fetching /\ events < MaxEvents
  /\ keys' = [keys EXCEPT ![p] = NoEntry]
  /\ fetching' = fetching \ {p} /\ answer' = [answer EXCEPT ![p] = NoAnswer]
  /\ pc' = [r \in Record |-> IF r \in Waiting(p) THEN "unavailable" ELSE pc[r]]
  /\ events' = events + 1
  /\ UNCHANGED key

(* An operator rotates the secret. *)
Rotate(p) ==
  /\ events < MaxEvents
  /\ version' = [version EXCEPT ![p] = @ + 1]
  /\ rotated' = [rotated EXCEPT ![p] = now]
  /\ events' = events + 1

---------------------------------------------------------------------------
(* Properties *)

(* A record is turned away for want of a key only by a fetch that was      *)
(* unanswered until then ("Don't cache the failure itself").  A key that   *)
(* lets one pass is the parameter's value, or was it less than KeyTtl ago, *)
(* not counting the time that the answer with it was on its way, which     *)
(* only the life of the container bounds.                                  *)
KeysAreCurrentStep ==
  \A r \in Record :
    /\ pc[r] # "unavailable" /\ pc'[r] = "unavailable" => param[r] \in fetching
    /\ key[r] = NoKey /\ key'[r] # NoKey =>
         \/ key'[r] = version[param[r]]
         \/ LET arrived == rotated[param[r]] + keys'[param[r]].late
            IN now <= arrived \/ now < arrived + KeyTtl
=================================================================================
