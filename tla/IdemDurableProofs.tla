-------------------------- MODULE IdemDurableProofs --------------------------
(***************************************************************************)
(* Proofs about IdemDurable, for every set of requests and keys, every TTL *)
(* and number of restarts and outages.                                     *)
(***************************************************************************)
EXTENDS IdemDurable, TLAPS

\* How far a request can be when it knows what.
Progress ==
  \A r \in Reqs :
    /\ pc[r] \in {"start", "read", "claim", "lock"} => decision[r] = "none"
    /\ Holds(r) => decision[r] = "fresh"
    /\ outcome[r] # "none" => decision[r] = "fresh" /\ pc[r] \in {"finish", "release", "done", "dead"}
    /\ pc[r] = "start" => after[r] = {}
    /\ \A q \in after[r] : pc[q] = "done" /\ KeyOf[q] = KeyOf[r]

\* A row is the answer of a request of its key.
RowsFaithful ==
  \A k \in Keys : row[k] # NoOne =>
    /\ KeyOf[row[k]] = k /\ decision[row[k]] = "fresh" /\ outcome[row[k]] \in Cacheable

\* While the disk has never failed, an answer worth keeping is in the table
\* before its claim is given up, and stays there until it expires.
Committed ==
  faults = 0 =>
    /\ healthy /\ diskOk
    /\ \A q \in Reqs : outcome[q] \in Cacheable /\ pc[q] \in {"release", "done"} =>
         Valid(KeyOf[q]) \/ KeyOf[q] \in forgotten

\* A retry that went on to claim has read the table and not found a row.
LookedFirst ==
  faults = 0 =>
    \A r \in Reqs : \A q \in after[r] :
      outcome[q] \in Cacheable /\ (pc[r] = "lock" \/ decision[r] = "fresh") => KeyOf[r] \in forgotten

IInv ==
  /\ TypeOK /\ Progress /\ ClaimsMatchHandlers /\ RowsFaithful /\ ReplayFaithful
  /\ Committed /\ LookedFirst

USE KeysAssumption, TtlAssumption, FaultsAssumption

THEOREM InitIInv == Init => IInv
  BY DEF Init, InitRequests, IInv, TypeOK, RequestsOK, Progress, Holds, ClaimsMatchHandlers,
         RowsFaithful, ReplayFaithful, Committed, LookedFirst, Valid, Outcomes

-----------------------------------------------------------------------------
(* Steps on the way in: nothing is claimed, answered or stored. *)

LEMMA WayInKeeps ==
  ASSUME IInv, NEW r \in Reqs, pc[r] \in {"start", "read", "claim", "lock"},
         NEW to \in {"read", "claim", "lock", "done"}, pc' = [pc EXCEPT ![r] = to],
         NEW d \in {"none", "conflict"}, decision' = [decision EXCEPT ![r] = d],
         to # "done" => d = "none",
         NEW A \in SUBSET Reqs, after' = [after EXCEPT ![r] = A],
         A # {} => \A q \in A : pc[q] = "done" /\ KeyOf[q] = KeyOf[r],
         UNCHANGED <<source, outcome, inflight, forgotten, crashes, table, diskOk, faults>>,
         healthy' \in BOOLEAN, faults = 0 => healthy' = healthy,
         faults = 0 /\ to = "lock" => ~Valid(KeyOf[r])
  PROVE  IInv'
<1>a. UNCHANGED <<row, left>>
  BY DEF table
<1>b. /\ pc'[r] = to /\ decision'[r] = d /\ after'[r] = A /\ decision[r] = "none" /\ outcome[r] = "none"
      /\ \A q \in Reqs \ {r} : pc'[q] = pc[q] /\ decision'[q] = decision[q] /\ after'[q] = after[q]
  BY DEF IInv, TypeOK, RequestsOK, Progress
<1>c. \A q \in Reqs : Holds(q)' = Holds(q)
  BY <1>b DEF Holds
<1>1. TypeOK'
  BY <1>a DEF IInv, TypeOK, RequestsOK
<1>2. Progress'
  BY <1>a, <1>b, <1>c DEF IInv, Progress, TypeOK, RequestsOK
<1>3. ClaimsMatchHandlers'
  BY <1>c DEF IInv, ClaimsMatchHandlers
<1>4. RowsFaithful' /\ ReplayFaithful'
  BY <1>a, <1>b DEF IInv, RowsFaithful, ReplayFaithful, TypeOK
<1>5. Committed'
  BY <1>a, <1>b DEF IInv, Committed, Valid, Cacheable
<1>6. LookedFirst'
  <2>1. ASSUME faults = 0, NEW q \in A, outcome[q] \in Cacheable, to = "lock"
        PROVE  KeyOf[r] \in forgotten
    BY <1>b, <2>1 DEF IInv, Committed
  <2>2. QED
    BY <1>b, <2>1 DEF IInv, LookedFirst
<1>7. QED
  BY <1>1, <1>2, <1>3, <1>4, <1>5, <1>6 DEF IInv

LEMMA LookupInFlightKeeps == ASSUME IInv, NEW r \in Reqs, LookupInFlight(r) PROVE IInv'
<1> DEFINE A == {q \in Reqs : pc[q] = "done" /\ KeyOf[q] = KeyOf[r]}
<1>1. /\ pc[r] = "start" /\ after' = [after EXCEPT ![r] = A] /\ A \in SUBSET Reqs
      /\ UNCHANGED <<source, outcome, inflight, forgotten, crashes, table, diskOk, faults, healthy>>
  BY DEF LookupInFlight, Arrive, Refuse, Miss, Move, disk
<1>2. decision[r] = "none" /\ healthy \in BOOLEAN
  BY <1>1 DEF IInv, Progress, TypeOK
<1>3. CASE Refuse(r, "start")
  BY <1>1, <1>2, <1>3, WayInKeeps DEF Refuse, Move
<1>4. CASE Miss(r, "start", "read")
  <2>1. decision' = [decision EXCEPT ![r] = "none"]
    BY <1>2, <1>4 DEF Miss, IInv, TypeOK, RequestsOK
  <2>2. QED
    BY <1>1, <1>2, <1>4, <2>1, WayInKeeps DEF Miss, Move
<1>5. QED
  BY <1>3, <1>4 DEF LookupInFlight

LEMMA ClaimStoredKeeps == ASSUME IInv, NEW r \in Reqs, ClaimStored(r) PROVE IInv'
<1>1. /\ pc[r] = "claim" /\ after' = [after EXCEPT ![r] = after[r]] /\ after[r] \in SUBSET Reqs
      /\ UNCHANGED <<source, outcome, inflight, forgotten, crashes, table, diskOk, faults, healthy>>
  BY DEF ClaimStored, Refuse, Miss, Move, disk, IInv, TypeOK, RequestsOK
<1>2. /\ decision[r] = "none" /\ healthy \in BOOLEAN
      /\ \A q \in after[r] : pc[q] = "done" /\ KeyOf[q] = KeyOf[r]
  BY <1>1 DEF IInv, Progress, TypeOK
<1>3. CASE Refuse(r, "claim")
  BY <1>1, <1>2, <1>3, WayInKeeps DEF Refuse, Move
<1>4. CASE (healthy /\ Valid(KeyOf[r]) => ~diskOk) /\ Miss(r, "claim", "lock")
  <2>1. decision' = [decision EXCEPT ![r] = "none"]
    BY <1>2, <1>4 DEF Miss, IInv, TypeOK, RequestsOK
  <2>2. faults = 0 => ~Valid(KeyOf[r])
    BY <1>4 DEF IInv, Committed
  <2>3. QED
    BY <1>1, <1>2, <1>4, <2>1, <2>2, WayInKeeps DEF Miss, Move
<1>5. QED
  BY <1>3, <1>4 DEF ClaimStored

LEMMA LookupRowKeeps == ASSUME IInv, NEW r \in Reqs, LookupRow(r) PROVE IInv'
<1> DEFINE k == KeyOf[r]
<1>1. /\ pc[r] = "read" /\ UNCHANGED <<after, outcome, inflight, forgotten, crashes, row, left, diskOk, faults>>
  BY DEF LookupRow, Replay, Miss, Move, table
<1>2. /\ decision[r] = "none" /\ outcome[r] = "none" /\ healthy \in BOOLEAN
      /\ \A q \in after[r] : pc[q] = "done" /\ KeyOf[q] = k
      /\ after' = [after EXCEPT ![r] = after[r]] /\ after[r] \in SUBSET Reqs
  BY <1>1 DEF IInv, Progress, TypeOK, RequestsOK
<1>3. CASE Miss(r, "read", "claim") /\ (UNCHANGED healthy \/ (~diskOk /\ healthy' = FALSE))
  <2>1. decision' = [decision EXCEPT ![r] = "none"]
    BY <1>2, <1>3 DEF Miss, IInv, TypeOK, RequestsOK
  <2>2. healthy' \in BOOLEAN /\ (faults = 0 => healthy' = healthy) /\ UNCHANGED table
    BY <1>1, <1>2, <1>3 DEF IInv, Committed, table
  <2>3. QED
    BY <1>1, <1>2, <1>3, <2>1, <2>2, WayInKeeps DEF Miss, Move
<1>4. CASE healthy /\ Valid(k) /\ Replay(r, "read", row[k]) /\ UNCHANGED healthy
  <2>1. /\ pc'[r] = "done" /\ decision'[r] = "replay" /\ source'[r] = row[k]
        /\ \A q \in Reqs \ {r} : pc'[q] = pc[q] /\ decision'[q] = decision[q] /\ source'[q] = source[q]
    BY <1>4 DEF Replay, Move, IInv, TypeOK, RequestsOK
  <2>2. \A q \in Reqs : Holds(q)' = Holds(q)
    BY <1>1, <2>1 DEF Holds
  <2>3. k \in Keys /\ row[k] \in Reqs /\ KeyOf[row[k]] = k
        /\ decision[row[k]] = "fresh" /\ outcome[row[k]] \in Cacheable
    BY <1>4 DEF Valid, IInv, TypeOK, RowsFaithful
  <2>4. TypeOK'
    BY <1>1, <1>4, <2>3 DEF Replay, Move, IInv, TypeOK, RequestsOK
  <2>5. Progress'
    BY <1>1, <1>2, <2>1, <2>2 DEF IInv, Progress, TypeOK, RequestsOK
  <2>6. ClaimsMatchHandlers'
    BY <1>1, <2>2 DEF IInv, ClaimsMatchHandlers
  <2>7. RowsFaithful' /\ ReplayFaithful'
    BY <1>1, <1>2, <2>1, <2>3 DEF IInv, RowsFaithful, ReplayFaithful, TypeOK, Cacheable
  <2>8. Committed' /\ LookedFirst'
    BY <1>1, <1>2, <1>4, <2>1 DEF IInv, Committed, LookedFirst, Valid, Cacheable
  <2>9. QED
    BY <2>4, <2>5, <2>6, <2>7, <2>8 DEF IInv
<1>5. QED
  BY <1>3, <1>4 DEF LookupRow

-----------------------------------------------------------------------------
(* Steps of a request that holds its key, or takes it. *)

LEMMA ClaimLockedKeeps == ASSUME IInv, NEW r \in Reqs, ClaimLocked(r) PROVE IInv'
<1> DEFINE k == KeyOf[r]
<1>1. /\ pc[r] = "lock" /\ UNCHANGED <<source, outcome, after, forgotten, crashes, table, diskOk, faults, healthy>>
  BY DEF ClaimLocked, Refuse, Claim, Move, disk
<1>2. /\ decision[r] = "none" /\ outcome[r] = "none" /\ healthy \in BOOLEAN /\ k \in Keys
      /\ \A q \in after[r] : pc[q] = "done" /\ KeyOf[q] = k
      /\ after' = [after EXCEPT ![r] = after[r]] /\ after[r] \in SUBSET Reqs
  BY <1>1 DEF IInv, Progress, TypeOK, RequestsOK
<1>3. CASE Refuse(r, "lock")
  BY <1>1, <1>2, <1>3, WayInKeeps DEF Refuse, Move
<1>4. CASE k \notin inflight /\ Claim(r, "lock")
  <2>1. /\ pc'[r] = "working" /\ decision'[r] = "fresh" /\ inflight' = inflight \cup {k}
        /\ \A q \in Reqs \ {r} : pc'[q] = pc[q] /\ decision'[q] = decision[q]
    BY <1>4 DEF Claim, Move, IInv, TypeOK, RequestsOK
  <2>2. Holds(r)' /\ ~Holds(r) /\ \A q \in Reqs \ {r} : Holds(q)' = Holds(q)
    BY <1>1, <2>1 DEF Holds
  <2>3. TypeOK'
    BY <1>1, <1>2, <1>4 DEF Claim, Move, IInv, TypeOK, RequestsOK, table
  <2>4. Progress'
    BY <1>1, <1>2, <2>1, <2>2 DEF IInv, Progress, TypeOK, RequestsOK
  <2>5. ClaimsMatchHandlers'
    <3>1. \A q \in Reqs : Holds(q) => KeyOf[q] # k
      BY <1>4 DEF IInv, ClaimsMatchHandlers
    <3>2. QED
      BY <2>1, <2>2, <3>1 DEF IInv, ClaimsMatchHandlers
  <2>6. RowsFaithful' /\ ReplayFaithful'
    BY <1>1, <1>2, <2>1 DEF IInv, RowsFaithful, ReplayFaithful, TypeOK, table
  <2>7. Committed' /\ LookedFirst'
    BY <1>1, <1>2, <2>1 DEF IInv, Committed, LookedFirst, Valid, Cacheable, table
  <2>8. QED
    BY <2>3, <2>4, <2>5, <2>6, <2>7 DEF IInv
<1>5. QED
  BY <1>3, <1>4 DEF ClaimLocked

LEMMA ProcessKeeps ==
  ASSUME IInv, NEW r \in Reqs, Process(r), UNCHANGED <<table, disk>> PROVE IInv'
<1>1. PICK o \in Outcomes : outcome' = [outcome EXCEPT ![r] = o]
  BY DEF Process
<1>2. /\ pc[r] = "working" /\ pc' = [pc EXCEPT ![r] = "finish"]
      /\ UNCHANGED <<decision, source, inflight, after, forgotten, crashes, row, left, healthy, diskOk, faults>>
  BY DEF Process, Move, table, disk
<1>3. Holds(r) /\ decision[r] = "fresh" /\ outcome[r] = "none" /\ \A q \in Reqs : Holds(q)' = Holds(q)
  BY <1>2 DEF IInv, TypeOK, RequestsOK, Progress, Holds
<1>4. pc'[r] = "finish" /\ \A q \in Reqs \ {r} : pc'[q] = pc[q] /\ outcome'[q] = outcome[q]
  BY <1>1, <1>2 DEF IInv, TypeOK, RequestsOK
<1>5. TypeOK'
  BY <1>1, <1>2 DEF IInv, TypeOK, RequestsOK
<1>6. Progress'
  BY <1>2, <1>3, <1>4 DEF IInv, Progress, TypeOK, RequestsOK
<1>7. ClaimsMatchHandlers'
  BY <1>2, <1>3 DEF IInv, ClaimsMatchHandlers
<1>8. RowsFaithful'
  BY <1>2, <1>3, <1>4 DEF IInv, TypeOK, RowsFaithful, Cacheable
<1>9. ReplayFaithful'
  BY <1>2, <1>3, <1>4 DEF IInv, ReplayFaithful
<1>10. Committed'
  BY <1>2, <1>4 DEF IInv, Committed, Valid
<1>11. LookedFirst'
  BY <1>2, <1>3, <1>4 DEF IInv, TypeOK, RequestsOK, Progress, LookedFirst
<1>12. QED
  BY <1>5, <1>6, <1>7, <1>8, <1>9, <1>10, <1>11 DEF IInv

LEMMA StoreRowKeeps == ASSUME IInv, NEW r \in Reqs, StoreRow(r) PROVE IInv'
<1> DEFINE k == KeyOf[r]
<1>1. /\ pc[r] = "finish" /\ pc' = [pc EXCEPT ![r] = "release"] /\ outcome[r] \in Cacheable
      /\ UNCHANGED <<decision, source, outcome, inflight, after, forgotten, crashes, diskOk, faults>>
      /\ healthy' = (healthy /\ diskOk) /\ k \in Keys
  BY DEF StoreRow, Miss, Move
<1>2. Holds(r) /\ decision[r] = "fresh" /\ \A q \in Reqs : Holds(q)' = Holds(q)
  BY <1>1 DEF IInv, TypeOK, RequestsOK, Progress, Holds
<1>3. pc'[r] = "release" /\ \A q \in Reqs \ {r} : pc'[q] = pc[q]
  BY <1>1 DEF IInv, TypeOK, RequestsOK
<1>4. \/ healthy /\ diskOk /\ row' = [row EXCEPT ![k] = r] /\ left' = [left EXCEPT ![k] = Ttl]
      \/ ~(healthy /\ diskOk) /\ UNCHANGED <<row, left>>
  BY DEF StoreRow, table
<1>5. TypeOK'
  BY <1>1, <1>4 DEF IInv, TypeOK, RequestsOK
<1>6. Progress'
  BY <1>1, <1>2, <1>3 DEF IInv, Progress, TypeOK, RequestsOK
<1>7. ClaimsMatchHandlers' /\ ReplayFaithful'
  BY <1>1, <1>2 DEF IInv, ClaimsMatchHandlers, ReplayFaithful
<1>8. RowsFaithful'
  BY <1>1, <1>2, <1>4 DEF IInv, TypeOK, RowsFaithful
<1>9. Committed'
  <2>1. ASSUME faults = 0 PROVE healthy /\ diskOk
    BY <2>1 DEF IInv, Committed
  <2>2. ASSUME faults = 0 PROVE \A j \in Keys : (Valid(j) \/ j = k) => row'[j] # NoOne /\ left'[j] > 0
    BY <1>4, <2>1, <2>2 DEF IInv, TypeOK, Valid
  <2>3. QED
    BY <1>1, <1>3, <2>1, <2>2 DEF IInv, Committed, Valid
<1>10. LookedFirst'
  BY <1>1, <1>3 DEF IInv, LookedFirst
<1>11. QED
  BY <1>5, <1>6, <1>7, <1>8, <1>9, <1>10 DEF IInv

LEMMA ReleaseKeeps == ASSUME IInv, NEW r \in Reqs, ReleaseClaim(r) PROVE IInv'
<1> DEFINE k == KeyOf[r]
<1>1. /\ pc[r] = "release" \/ (pc[r] = "finish" /\ outcome[r] \notin Cacheable)
      /\ pc' = [pc EXCEPT ![r] = "done"] /\ inflight' = inflight \ {k}
      /\ UNCHANGED <<decision, source, outcome, after, forgotten, crashes, row, left, healthy, diskOk, faults>>
  BY DEF ReleaseClaim, Release, Move, table, disk
<1>2. Holds(r) /\ decision[r] = "fresh"
  BY <1>1 DEF IInv, Progress, Holds
<1>3. pc'[r] = "done" /\ \A q \in Reqs \ {r} : pc'[q] = pc[q]
  BY <1>1 DEF IInv, TypeOK, RequestsOK
<1>4. ~Holds(r)' /\ \A q \in Reqs \ {r} : Holds(q)' = Holds(q)
  BY <1>3 DEF Holds
<1>5. TypeOK'
  BY <1>1 DEF IInv, TypeOK, RequestsOK
<1>6. Progress'
  BY <1>1, <1>2, <1>3, <1>4 DEF IInv, Progress, TypeOK, RequestsOK
<1>7. ClaimsMatchHandlers'
  BY <1>1, <1>2, <1>4 DEF IInv, ClaimsMatchHandlers
<1>8. RowsFaithful' /\ ReplayFaithful'
  BY <1>1 DEF IInv, RowsFaithful, ReplayFaithful
<1>9. Committed'
  BY <1>1, <1>3 DEF IInv, Committed, Valid
<1>10. LookedFirst'
  BY <1>1, <1>3 DEF IInv, LookedFirst
<1>11. QED
  BY <1>5, <1>6, <1>7, <1>8, <1>9, <1>10 DEF IInv

-----------------------------------------------------------------------------
(* Steps of the table, the disk and the process. *)

\* What only takes rows out that have expired, or none, and leaves the
\* requests alone.
LEMMA TableKeeps ==
  ASSUME IInv, UNCHANGED <<pc, decision, source, outcome, after, inflight, crashes>>, TypeOK',
         \A k \in Keys : row'[k] \in {NoOne, row[k]},
         \A k \in Keys : Valid(k) => Valid(k)' \/ k \in forgotten',
         forgotten \subseteq forgotten',
         faults' = 0 => faults = 0 /\ (healthy' = healthy) /\ (diskOk' = diskOk)
  PROVE  IInv'
<1>1. Progress' /\ ClaimsMatchHandlers' /\ ReplayFaithful'
  BY DEF IInv, Progress, ClaimsMatchHandlers, ReplayFaithful, Holds
<1>2. RowsFaithful'
  BY DEF IInv, RowsFaithful
<1>3. Committed'
  BY DEF IInv, Committed
<1>4. LookedFirst'
  BY DEF IInv, LookedFirst
<1>5. QED
  BY <1>1, <1>2, <1>3, <1>4 DEF IInv

LEMMA PruneKeeps == ASSUME IInv, PruneIdempotency PROVE IInv'
<1>1. UNCHANGED <<pc, decision, source, outcome, after, inflight, crashes, forgotten, left, healthy, diskOk, faults>>
      /\ row' = [k \in Keys |-> IF left[k] = 0 THEN NoOne ELSE row[k]]
  BY DEF PruneIdempotency, requests, disk
<1>2. TypeOK'
  BY <1>1 DEF IInv, TypeOK, RequestsOK
<1>3. \A k \in Keys : row'[k] \in {NoOne, row[k]} /\ (Valid(k) => Valid(k)')
  BY <1>1 DEF Valid, IInv, TypeOK
<1>4. QED
  BY <1>1, <1>2, <1>3, TableKeeps

LEMMA TickKeeps == ASSUME IInv, Tick PROVE IInv'
<1>1. UNCHANGED <<pc, decision, source, outcome, after, inflight, crashes, row, healthy, diskOk, faults>>
      /\ left' = [k \in Keys |-> IF Valid(k) THEN left[k] - 1 ELSE left[k]]
      /\ forgotten' = forgotten \cup {k \in Keys : Valid(k) /\ left[k] = 1}
  BY DEF Tick, requests, disk
<1>2. TypeOK'
  BY <1>1 DEF IInv, TypeOK, RequestsOK, Valid
<1>3. \A k \in Keys : Valid(k) => Valid(k)' \/ k \in forgotten'
  BY <1>1 DEF Valid, IInv, TypeOK
<1>4. QED
  BY <1>1, <1>2, <1>3, TableKeeps

LEMMA DiskKeeps == ASSUME IInv, Probe \/ DiskFails \/ DiskRecovers PROVE IInv'
<1>1. UNCHANGED <<pc, decision, source, outcome, after, inflight, crashes, forgotten, row, left>>
  BY DEF Probe, DiskFails, DiskRecovers, requests, table
<1>2. TypeOK'
  <2>1. healthy' \in BOOLEAN /\ diskOk' \in BOOLEAN
    BY Zenon DEF IInv, TypeOK, Probe, DiskFails, DiskRecovers
  <2>2. faults' \in 0 .. MaxFaults
    BY DEF IInv, TypeOK, Probe, DiskFails, DiskRecovers
  <2>3. QED
    BY <1>1, <2>1, <2>2 DEF IInv, TypeOK, RequestsOK
<1>3. faults' = 0 => faults = 0 /\ (healthy' = healthy) /\ (diskOk' = diskOk)
  BY DEF IInv, TypeOK, Committed, Probe, DiskFails, DiskRecovers
<1>4. \A k \in Keys : row'[k] \in {NoOne, row[k]} /\ (Valid(k) => Valid(k)')
  BY <1>1 DEF Valid
<1>5. QED
  BY <1>1, <1>2, <1>3, <1>4, TableKeeps

LEMMA RebootKeeps == ASSUME IInv, Reboot PROVE IInv'
<1>1. /\ UNCHANGED <<decision, source, outcome, after, forgotten, row, left, diskOk, faults>>
      /\ inflight' = {} /\ healthy' = TRUE /\ diskOk
      /\ pc' = [r \in Reqs |-> IF pc[r] \in {"start", "done"} THEN pc[r] ELSE "dead"]
  BY DEF Reboot, Restart, table
<1>2. \A r \in Reqs : ~Holds(r)' /\ (pc[r] \in {"start", "done"} => pc'[r] = pc[r])
                      /\ pc'[r] \in {"start", "done", "dead"} /\ (pc'[r] # "dead" => pc'[r] = pc[r])
  BY <1>1 DEF Holds
<1>3. TypeOK'
  <2>1. crashes' \in 0 .. MaxCrashes
    BY DEF Reboot, Restart, IInv, TypeOK, RequestsOK
  <2>2. QED
    BY <1>1, <2>1 DEF IInv, TypeOK, RequestsOK
<1>4. Progress'
  BY <1>1, <1>2 DEF IInv, Progress, TypeOK, RequestsOK, Holds
<1>5. ClaimsMatchHandlers' /\ RowsFaithful' /\ ReplayFaithful'
  BY <1>1, <1>2 DEF IInv, ClaimsMatchHandlers, RowsFaithful, ReplayFaithful
<1>6. Committed' /\ LookedFirst'
  BY <1>1, <1>2 DEF IInv, Committed, LookedFirst, Valid
<1>7. QED
  BY <1>3, <1>4, <1>5, <1>6 DEF IInv

LEMMA StepKeeps == ASSUME IInv, [Next]_vars PROVE IInv'
<1>1. CASE UNCHANGED vars
  <2>1. UNCHANGED <<pc, decision, source, outcome, after, inflight, forgotten, crashes, row, left, healthy, diskOk, faults>>
    BY <1>1 DEF vars, requests, table, disk
  <2>2. TypeOK' /\ \A k \in Keys : Valid(k) => Valid(k)'
    BY <2>1 DEF IInv, TypeOK, RequestsOK, Valid
  <2>3. QED
    BY <2>1, <2>2, TableKeeps
<1>2. QED
  BY <1>1, LookupInFlightKeeps, LookupRowKeeps, ClaimStoredKeeps, ClaimLockedKeeps, ProcessKeeps,
     StoreRowKeeps, ReleaseKeeps, PruneKeeps, TickKeeps, DiskKeeps, RebootKeeps DEF Next

-----------------------------------------------------------------------------
\* The table, the claims and the handlers agree in every reachable state.
THEOREM Inductive == Spec => []IInv
  BY InitIInv, StepKeeps, PTL DEF Spec

\* Every variable of the durable backend keeps to its type.
THEOREM TypeCorrect == Spec => []TypeOK
<1>1. IInv => TypeOK
  BY DEF IInv
<1>2. QED
  BY <1>1, Inductive, PTL

\* One handler per claim, and no claim without its handler (FR44), though the
\* table is read outside the lock.
THEOREM ClaimsHeldByHandlers == Spec => []ClaimsMatchHandlers
<1>1. IInv => ClaimsMatchHandlers
  BY DEF IInv
<1>2. QED
  BY <1>1, Inductive, PTL

\* A replay hands out an answer of the same key that was worth keeping, also
\* after restarts and outages.
THEOREM ReplaysFaithful == Spec => []ReplayFaithful
<1>1. IInv => ReplayFaithful
  BY DEF IInv
<1>2. QED
  BY <1>1, Inductive, PTL

\* A retry of an answered request is never processed again while the disk has
\* not failed and the answer has not expired.
THEOREM RetriesReplayed == Spec => []RetryReplayed
<1>1. IInv => RetryReplayed
  BY DEF IInv, LookedFirst, RetryReplayed, Cacheable
<1>2. QED
  BY <1>1, Inductive, PTL
=============================================================================
