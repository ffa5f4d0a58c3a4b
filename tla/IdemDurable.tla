----------------------------- MODULE IdemDurable -----------------------------
(***************************************************************************)
(* The idempotency cache kept in the store: answers are rows that outlive  *)
(* a restart, the keys in flight stay in memory.  The mutex covers only    *)
(* the latter, so Lookup, ClaimInFlight and Store are two steps each, and  *)
(* the degrade gate can turn them into misses and dropped writes.          *)
(***************************************************************************)
EXTENDS IdemRequests

CONSTANT MaxFaults   \* bound: outages of the disk
ASSUME FaultsAssumption == MaxFaults \in Nat

VARIABLES
  row,              \* the request whose answer the idempotency table holds
  left,             \* ticks until it expires
  healthy, diskOk,  \* the gate, and whether a write would succeed
  faults

table == <<row, left>>
disk  == <<healthy, diskOk, faults>>
vars  == <<requests, inflight, forgotten, crashes, table, disk>>

Init ==
  /\ InitRequests
  /\ row = [k \in Keys |-> NoOne] /\ left = [k \in Keys |-> 0]
  /\ healthy = TRUE /\ diskOk = TRUE /\ faults = 0

Valid(k) == row[k] # NoOne /\ left[k] > 0

LookupInFlight(r) ==
  /\ Arrive(r)
  /\ \/ KeyOf[r] \in inflight /\ Refuse(r, "start")
     \/ KeyOf[r] \notin inflight /\ Miss(r, "start", "read")
  /\ UNCHANGED <<forgotten, crashes, table, disk>>

\* A failing disk may still serve reads; a read that fails degrades the gate.
LookupRow(r) ==
  /\ \/ /\ healthy /\ Valid(KeyOf[r]) /\ Replay(r, "read", row[KeyOf[r]])
        /\ UNCHANGED healthy
     \/ ~(healthy /\ Valid(KeyOf[r])) /\ Miss(r, "read", "claim") /\ UNCHANGED healthy
     \/ healthy /\ ~diskOk /\ Miss(r, "read", "claim") /\ healthy' = FALSE
  /\ UNCHANGED <<after, forgotten, crashes, table, diskOk, faults>>

\* lookupStored: here a read that fails passes for a miss.
ClaimStored(r) ==
  /\ \/ healthy /\ Valid(KeyOf[r]) /\ Refuse(r, "claim")
     \/ (healthy /\ Valid(KeyOf[r]) => ~diskOk) /\ Miss(r, "claim", "lock")
  /\ UNCHANGED <<after, forgotten, crashes, table, disk>>

\* The stored answer is not looked at again under the lock.
ClaimLocked(r) ==
  /\ \/ KeyOf[r] \in inflight /\ Refuse(r, "lock")
     \/ KeyOf[r] \notin inflight /\ Claim(r, "lock")
  /\ UNCHANGED <<after, forgotten, crashes, table, disk>>

StoreRow(r) ==
  /\ outcome[r] \in Cacheable /\ Miss(r, "finish", "release")
  /\ \/ /\ healthy /\ diskOk
        /\ row' = [row EXCEPT ![KeyOf[r]] = r] /\ left' = [left EXCEPT ![KeyOf[r]] = Ttl]
     \/ ~(healthy /\ diskOk) /\ UNCHANGED table
  /\ healthy' = (healthy /\ diskOk)
  /\ UNCHANGED <<after, forgotten, crashes, diskOk, faults>>

ReleaseClaim(r) ==
  /\ \/ Release(r, "release")
     \/ outcome[r] \notin Cacheable /\ Release(r, "finish")
  /\ UNCHANGED <<forgotten, crashes, table, disk>>

\* Mutant: every row goes, whatever its age.
PruneIdempotency_All ==
  /\ healthy /\ diskOk /\ \E k \in Keys : row[k] # NoOne
  /\ row' = [k \in Keys |-> NoOne] /\ left' = [k \in Keys |-> 0]
  /\ UNCHANGED <<requests, inflight, forgotten, crashes, disk>>

PruneIdempotency ==
  /\ healthy /\ diskOk /\ \E k \in Keys : row[k] # NoOne /\ left[k] = 0
  /\ row' = [k \in Keys |-> IF left[k] = 0 THEN NoOne ELSE row[k]]
  /\ UNCHANGED <<requests, inflight, forgotten, crashes, left, disk>>

Tick ==
  /\ \E k \in Keys : Valid(k)
  /\ left' = [k \in Keys |-> IF Valid(k) THEN left[k] - 1 ELSE left[k]]
  /\ forgotten' = forgotten \cup {k \in Keys : Valid(k) /\ left[k] = 1}
  /\ UNCHANGED <<requests, inflight, crashes, row, disk>>

\* The new process opens the store and starts with a healthy gate.
Reboot ==
  /\ diskOk /\ Restart /\ healthy' = TRUE
  /\ UNCHANGED <<forgotten, table, diskOk, faults>>

Probe ==
  /\ healthy' = diskOk
  /\ UNCHANGED <<requests, inflight, forgotten, crashes, table, diskOk, faults>>

DiskFails ==
  /\ diskOk /\ faults < MaxFaults /\ diskOk' = FALSE /\ faults' = faults + 1
  /\ UNCHANGED <<requests, inflight, forgotten, crashes, table, healthy>>

DiskRecovers ==
  /\ ~diskOk /\ diskOk' = TRUE
  /\ UNCHANGED <<requests, inflight, forgotten, crashes, table, healthy, faults>>

Next ==
  \/ \E r \in Reqs :
       \/ LookupInFlight(r) \/ LookupRow(r) \/ ClaimStored(r) \/ ClaimLocked(r)
       \/ Process(r) /\ UNCHANGED <<table, disk>>
       \/ StoreRow(r) \/ ReleaseClaim(r)
  \/ PruneIdempotency \/ Tick \/ Reboot \/ Probe \/ DiskFails \/ DiskRecovers

Spec == Init /\ [][Next]_vars
-----------------------------------------------------------------------------
\* Types of the variables.
TypeOK ==
  /\ RequestsOK
  /\ row \in [Keys -> Reqs \cup {NoOne}] /\ left \in [Keys -> 0 .. Ttl]
  /\ healthy \in BOOLEAN /\ diskOk \in BOOLEAN /\ faults \in 0 .. MaxFaults

\* A retry that comes in after its first request was answered for good is
\* replayed, never processed again, also across restarts and whatever other
\* requests of the key are doing meanwhile: the answer is committed before the
\* claim is released.  (An outage of the disk lifts this: "callers fall through
\* to a fresh send".)
RetryReplayed ==
  faults = 0 =>
    \A r \in Reqs : \A q \in after[r] :
      outcome[q] \in {"ok", "invalid"} /\ KeyOf[r] \notin forgotten => decision[r] # "fresh"

\* -- Claims of the repository's documentation that the code does not keep. --

\* Same contract as Cache (durable.go): of racing requests with one key, one
\* sends.  The claim is checked against the table before the lock is taken.
SentOnce ==
  \A r, q \in Reqs :
    r # q /\ KeyOf[r] = KeyOf[q] /\ outcome[r] = "ok" /\ outcome[q] = "ok"
      => KeyOf[r] \in forgotten \/ crashes > 0 \/ faults > 0

\* "A request that received 202 queued replays as that 202" (FR81).
QueuedReplays ==
  faults = 0 =>
    \A r \in Reqs : \A q \in after[r] :
      outcome[q] = "queued" /\ KeyOf[r] \notin forgotten => decision[r] # "fresh"
=============================================================================
