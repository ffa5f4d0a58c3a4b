---------------------------- MODULE IdemRequests ----------------------------
(***************************************************************************)
(* API-mode requests carrying an Idempotency-Key, as the gateway handles   *)
(* them whichever cache it consults (the Cacher interface): look the key   *)
(* up, claim it, process the request, then store the answer or abandon the *)
(* claim.  A key stands for an (endpoint, Idempotency-Key) pair.  Modules  *)
(* IdemCache and IdemDurable add the two backends.                         *)
(***************************************************************************)
EXTENDS Integers, FiniteSets, Sequences

CONSTANTS
  Reqs, Keys,
  KeyOf,        \* KeyOf[r]: the key request r carries
  NoOne,        \* no request
  Ttl,          \* ticks an answer is kept
  MaxCrashes    \* bound: restarts of the process

ASSUME KeysAssumption == KeyOf \in [Reqs -> Keys] /\ NoOne \notin Reqs
ASSUME TtlAssumption  == Ttl \in Nat \ {0} /\ MaxCrashes \in Nat

VARIABLES
  pc,         \* where each request's handler is
  decision,   \* "fresh" (processed), "replay" or "conflict" (409)
  source,     \* the request whose answer was replayed
  outcome,    \* the answer of a processed request, by class
  inflight,   \* the keys claimed
  after,      \* history: the requests of its key done when it came in
  forgotten,  \* history: the keys that had an answer and lost it
  crashes

requests == <<pc, decision, source, outcome, after>>

\* 200 (sent, suppressed, dry run), 202, 422, and any other status.
Outcomes == {"ok", "queued", "invalid", "error"}

\* Mutant: a failure is kept too, and freezes the answer for the TTL.
Cacheable_Errors == {"ok", "invalid", "error"}

Cacheable == {"ok", "invalid"}

InitRequests ==
  /\ pc = [r \in Reqs |-> "start"]
  /\ decision = [r \in Reqs |-> "none"] /\ source = [r \in Reqs |-> NoOne]
  /\ outcome = [r \in Reqs |-> "none"] /\ after = [r \in Reqs |-> {}]
  /\ inflight = {} /\ forgotten = {} /\ crashes = 0

Move(r, from, to) == pc[r] = from /\ pc' = [pc EXCEPT ![r] = to]

\* The first step of a request; its caller may be retrying what was answered.
Arrive(r) ==
  after' = [after EXCEPT ![r] = {q \in Reqs : pc[q] = "done" /\ KeyOf[q] = KeyOf[r]}]

Refuse(r, from) ==
  /\ Move(r, from, "done") /\ decision' = [decision EXCEPT ![r] = "conflict"]
  /\ UNCHANGED <<source, outcome, inflight>>

Replay(r, from, q) ==
  /\ Move(r, from, "done") /\ decision' = [decision EXCEPT ![r] = "replay"]
  /\ source' = [source EXCEPT ![r] = q] /\ UNCHANGED <<outcome, inflight>>

Claim(r, from) ==
  /\ Move(r, from, "working") /\ decision' = [decision EXCEPT ![r] = "fresh"]
  /\ inflight' = inflight \cup {KeyOf[r]} /\ UNCHANGED <<source, outcome>>

Miss(r, from, to) == Move(r, from, to) /\ UNCHANGED <<decision, source, outcome, inflight>>

\* Everything between the claim and the deferred finalizeIdempotent: whichever
\* return the handler takes, its answer has one of the classes.
Process(r) ==
  /\ Move(r, "working", "finish")
  /\ \E o \in Outcomes : outcome' = [outcome EXCEPT ![r] = o]
  /\ UNCHANGED <<decision, source, inflight, after, forgotten, crashes>>

Release(r, from) ==
  /\ Move(r, from, "done") /\ inflight' = inflight \ {KeyOf[r]}
  /\ UNCHANGED <<decision, source, outcome, after>>

\* The requests under way die with the process, and so do their claims.
Restart ==
  /\ crashes < MaxCrashes /\ crashes' = crashes + 1
  /\ pc' = [r \in Reqs |-> IF pc[r] \in {"start", "done"} THEN pc[r] ELSE "dead"]
  /\ inflight' = {} /\ UNCHANGED <<decision, source, outcome, after>>

-----------------------------------------------------------------------------
Holds(r)  == pc[r] \in {"working", "finish", "release"}
Holder(k) == IF \E r \in Reqs : Holds(r) /\ KeyOf[r] = k
             THEN CHOOSE r \in Reqs : Holds(r) /\ KeyOf[r] = k ELSE NoOne

RequestsOK ==
  /\ pc \in [Reqs -> {"start", "read", "claim", "lock", "working", "finish", "release", "done", "dead"}]
  /\ decision \in [Reqs -> {"none", "fresh", "replay", "conflict"}]
  /\ source \in [Reqs -> Reqs \cup {NoOne}]
  /\ outcome \in [Reqs -> Outcomes \cup {"none"}]
  /\ inflight \subseteq Keys /\ after \in [Reqs -> SUBSET Reqs]
  /\ forgotten \subseteq Keys /\ crashes \in 0 .. MaxCrashes

\* A key is claimed exactly while one handler is processing it: no second
\* handler gets in (FR44), and no claim outlives its handler, which would
\* answer 409 to the key until the next restart.
ClaimsMatchHandlers ==
  /\ inflight = {KeyOf[r] : r \in {q \in Reqs : Holds(q)}}
  /\ \A r, q \in Reqs : Holds(r) /\ Holds(q) /\ KeyOf[r] = KeyOf[q] => r = q

\* A replay hands out what a request of the same key was itself answered, and
\* only answers that are worth keeping: 200 or 422 (finalizeIdempotent).
ReplayFaithful ==
  \A r \in Reqs : decision[r] = "replay" =>
    LET q == source[r] IN
      /\ q \in Reqs /\ KeyOf[q] = KeyOf[r]
      /\ decision[q] = "fresh" /\ outcome[q] \in {"ok", "invalid"}
=============================================================================
