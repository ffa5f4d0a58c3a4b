------------------------------ MODULE IdemCache ------------------------------
(***************************************************************************)
(* The in-memory idempotency cache of one endpoint: an LRU of answers with *)
(* a TTL and the set of keys in flight, under one mutex, so each method is *)
(* one atomic step.  A restart loses both.                                 *)
(***************************************************************************)
EXTENDS IdemRequests, SequencesExt

CONSTANT Capacity
ASSUME CapacityAssumption == Capacity \in Nat \ {0}

VARIABLES
  order,   \* the keys cached, least recently used first
  cached,  \* the request whose answer is cached
  left     \* ticks until it expires

vars == <<requests, inflight, forgotten, crashes, order, cached, left>>

Init ==
  /\ InitRequests
  /\ order = <<>> /\ cached = [k \in Keys |-> NoOne] /\ left = [k \in Keys |-> 0]

Present(k) == cached[k] # NoOne
Valid(k)   == Present(k) /\ left[k] > 0

\* The list with the key's element unlinked.
Without(k) ==
  IF k \in ToSet(order) THEN RemoveAt(order, CHOOSE i \in DOMAIN order : order[i] = k) ELSE order

\* Mutant: puts the key in front without taking it out of its old place.
Touched_Twice(k) == Append(order, k)

Touched(k) == Append(Without(k), k)
Touch(k)   == order' = IF Present(k) THEN Touched(k) ELSE order

Drop(S) ==
  /\ cached' = [k \in Keys |-> IF k \in S THEN NoOne ELSE cached[k]]
  /\ left' = [k \in Keys |-> IF k \in S THEN 0 ELSE left[k]]

\* Mutant: an answer past its TTL is replayed.
Lookup_Expired(r) ==
  LET k == KeyOf[r] IN
  /\ Arrive(r)
  /\ \/ k \in inflight /\ Refuse(r, "start") /\ UNCHANGED order
     \/ k \notin inflight /\ Present(k) /\ Replay(r, "start", cached[k]) /\ Touch(k)
     \/ k \notin inflight /\ ~Present(k) /\ Miss(r, "start", "claim") /\ UNCHANGED order
  /\ UNCHANGED <<cached, left, forgotten, crashes>>

Lookup(r) ==
  LET k == KeyOf[r] IN
  /\ Arrive(r)
  /\ \/ k \in inflight /\ Refuse(r, "start") /\ UNCHANGED <<order, cached, left>>
     \/ /\ k \notin inflight /\ Valid(k) /\ Replay(r, "start", cached[k])
        /\ Touch(k) /\ UNCHANGED <<cached, left>>
     \/ /\ k \notin inflight /\ ~Valid(k) /\ Miss(r, "start", "claim")
        /\ order' = Without(k) /\ Drop({k})
  /\ UNCHANGED <<forgotten, crashes>>

\* Mutant: the key may have been answered since the lookup; nobody looks.
ClaimInFlight_Unchecked(r) ==
  /\ \/ KeyOf[r] \in inflight /\ Refuse(r, "claim") /\ UNCHANGED order
     \/ KeyOf[r] \notin inflight /\ Claim(r, "claim") /\ UNCHANGED order
  /\ UNCHANGED <<cached, left, after, forgotten, crashes>>
\* Mutant: the key may have been claimed since the lookup; nobody looks.
ClaimInFlight_Twice(r) ==
  /\ Claim(r, "claim") /\ UNCHANGED <<order, cached, left, after, forgotten, crashes>>

ClaimInFlight(r) ==
  LET k == KeyOf[r] IN
  /\ \/ k \in inflight /\ Refuse(r, "claim") /\ UNCHANGED order
     \/ k \notin inflight /\ Valid(k) /\ Refuse(r, "claim") /\ Touch(k)
     \/ k \notin inflight /\ ~Valid(k) /\ Claim(r, "claim") /\ Touch(k)
  /\ UNCHANGED <<cached, left, after, forgotten, crashes>>

\* lru.Add puts the key in front and drops the last one above capacity.
Store(r) ==
  LET k    == KeyOf[r]
      full == Len(Touched(k)) > Capacity
      out  == IF full THEN {Head(Touched(k))} ELSE {}
  IN
  /\ outcome[r] \in Cacheable /\ Release(r, "finish")
  /\ order' = IF full THEN Tail(Touched(k)) ELSE Touched(k)
  /\ cached' = [j \in Keys |-> IF j = k THEN r ELSE IF j \in out THEN NoOne ELSE cached[j]]
  /\ left' = [j \in Keys |-> IF j = k THEN Ttl ELSE IF j \in out THEN 0 ELSE left[j]]
  /\ forgotten' = forgotten \cup out
  /\ UNCHANGED crashes

Abandon(r) ==
  /\ outcome[r] \notin Cacheable /\ Release(r, "finish")
  /\ UNCHANGED <<order, cached, left, forgotten, crashes>>

Tick ==
  /\ \E k \in Keys : Valid(k)
  /\ left' = [k \in Keys |-> IF Valid(k) THEN left[k] - 1 ELSE left[k]]
  /\ forgotten' = forgotten \cup {k \in Keys : Valid(k) /\ left[k] = 1}
  /\ UNCHANGED <<requests, inflight, crashes, order, cached>>

Reboot ==
  /\ Restart
  /\ order' = <<>> /\ Drop(Keys)
  /\ forgotten' = forgotten \cup {k \in Keys : Valid(k)}

Next ==
  \/ \E r \in Reqs : \/ Lookup(r) \/ ClaimInFlight(r) \/ Store(r) \/ Abandon(r)
                     \/ Process(r) /\ UNCHANGED <<order, cached, left>>
  \/ Tick \/ Reboot

Spec == Init /\ [][Next]_vars
-----------------------------------------------------------------------------
\* Types, and the two halves of the LRU: its list and its map hold the same
\* keys, each once, and no more than fit.
TypeOK ==
  /\ RequestsOK
  /\ cached \in [Keys -> Reqs \cup {NoOne}] /\ left \in [Keys -> 0 .. Ttl]
  /\ ToSet(order) = {k \in Keys : Present(k)} /\ Len(order) = Cardinality(ToSet(order))
  /\ Len(order) <= Capacity

\* The mail of a key is sent once ("without re-sending the email",
\* features/api-mode.mdx), also by requests racing each other through the gap
\* between Lookup and ClaimInFlight, unless the answer was evicted, expired or
\* lost by a restart, or the restart came before it was stored.
SentOnce ==
  \A r, q \in Reqs :
    r # q /\ KeyOf[r] = KeyOf[q] /\ outcome[r] = "ok" /\ outcome[q] = "ok"
      => KeyOf[r] \in forgotten \/ crashes > 0

\* The cache keeps the contract of a Cacher.
Contract == INSTANCE IdemContract
              WITH holder <- [k \in Keys |-> Holder(k)],
                   answer <- [k \in Keys |-> IF Valid(k) /\ Holder(k) = NoOne
                                             THEN cached[k] ELSE NoOne]
ContractSpec == Contract!Spec
=============================================================================
