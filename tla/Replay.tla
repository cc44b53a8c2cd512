-------------------------------- MODULE Replay --------------------------------
(***************************************************************************)
(* Replay protection of the mutating endpoints: look the key up, perform   *)
(* the operation, remember its outcome.  The three are separate, so two    *)
(* calls with one key may run side by side and a crash may fall between    *)
(* any two of them.                                                        *)
(***************************************************************************)
EXTENDS Clients

CONSTANTS Key,       \* actor, method, path and client key of a call
          Payload,
          KeyTTL

ASSUME KeyAssumption == KeyTTL \in Nat \ {0}

VARIABLES stored,      \* idempotency_keys
          call         \* the call a client has in flight, or its answer

replayVars == <<stored, call>>

NoRecord == [state |-> "none"]
NoCall   == [stage |-> "none"]

ReplayInit ==
  /\ stored = [k \in Key |-> NoRecord]
  /\ call = [c \in Client |-> NoCall]

(* The successful response a client gets; Drop ends the call.                *)
Respond(c, k, payload, outcome, replayed) ==
  call' = [call EXCEPT ![c] = [stage |-> "answered", key |-> k, payload |-> payload,
                               outcome |-> outcome, replayed |-> replayed]]

Matches_AnyPayload(record, payload) == TRUE

Matches(record, payload) == record.payload = payload

(* Guard.Lookup lets the call of an unknown key through ...                  *)
Miss(c, k, payload) ==
  /\ call[c] = NoCall
  /\ stored[k] = NoRecord
  /\ call' = [call EXCEPT ![c] = [stage |-> "perform", key |-> k, payload |-> payload]]
  /\ UNCHANGED <<now, stored>>

(* ... and replays a live record of the same payload.  An expired record and *)
(* another payload are refused: the request ends without an effect.          *)
Replayed(c, k, payload) ==
  /\ call[c] = NoCall
  /\ stored[k] # NoRecord
  /\ now < stored[k].expires
  /\ Matches(stored[k], payload)
  /\ Respond(c, k, payload, stored[k].outcome, TRUE)
  /\ UNCHANGED <<now, stored>>

(* The wrapped operation succeeds with a result; an outcome tells who        *)
(* produced it.                                                              *)
Succeed(c, result) ==
  LET r       == call[c]
      outcome == [key |-> r.key, payload |-> r.payload, by |-> c, result |-> result]
  IN  /\ r.stage = "perform"
      /\ call' = [call EXCEPT ![c] = [stage |-> "remember", key |-> r.key,
                                      payload |-> r.payload, outcome |-> outcome]]
      /\ UNCHANGED <<now, stored>>

Put_Overwrites(k, record) == stored' = [stored EXCEPT ![k] = record]

(* An insert: a record another call has stored meanwhile stays.              *)
Put(k, record) ==
  stored' = IF stored[k] = NoRecord THEN [stored EXCEPT ![k] = record] ELSE stored

(* Guard.Remember, then the caller's own response.                           *)
Remember(c) ==
  LET r == call[c]
  IN  /\ r.stage = "remember"
      /\ Put(r.key, [state |-> "stored", payload |-> r.payload, outcome |-> r.outcome,
                     expires |-> now + KeyTTL])
      /\ Respond(c, r.key, r.payload, r.outcome, FALSE)
      /\ UNCHANGED now

(* The answer is sent, the operation or the insert fails, or the process     *)
(* crashes.                                                                  *)
Drop(c) ==
  /\ call' = [call EXCEPT ![c] = NoCall]
  /\ UNCHANGED stored

Outdated(k) == stored[k] # NoRecord /\ stored[k].expires < now

(* Guard.Sweep.                                                              *)
Sweep ==
  /\ \E k \in Key : Outdated(k)
  /\ stored' = [k \in Key |-> IF Outdated(k) THEN NoRecord ELSE stored[k]]
  /\ UNCHANGED <<now, call>>

(* The first outcome recorded under a key is the one every later call gets   *)
(* until it has expired, although concurrent calls performed theirs too.     *)
StoredOutcomeStable ==
  [][\A k \in Key : stored[k] # NoRecord =>
       stored'[k] = stored[k] \/ (stored'[k] = NoRecord /\ stored[k].expires < now)
    ]_<<now, replayVars>>

(* README.md:158: the same key with a different body is refused.             *)
KeyMeansOnePayload ==
  \A c, d \in Client :
    /\ call[c].stage = "answered" /\ call[d].stage = "answered"
    /\ call[c].key = call[d].key
    => call[c].payload = call[d].payload
===============================================================================
