--------------------------- MODULE IdemCacheProofs ---------------------------
(***************************************************************************)
(* Proofs about IdemCache, for every set of requests and keys, every TTL,  *)
(* capacity and number of restarts.  Only the type invariant rests on the  *)
(* LRU list; the rest holds whichever entry an insertion pushes out.       *)
(***************************************************************************)
EXTENDS IdemCache, ListLemmas

\* Functions and ranges of what the proofs look at.
Typed ==
  /\ pc \in [Reqs -> {"start", "claim", "working", "finish", "done", "dead"}]
  /\ decision \in [Reqs -> {"none", "fresh", "replay", "conflict"}]
  /\ source \in [Reqs -> Reqs \cup {NoOne}]
  /\ outcome \in [Reqs -> Outcomes \cup {"none"}]
  /\ cached \in [Keys -> Reqs \cup {NoOne}] /\ left \in [Keys -> 0 .. Ttl]
  /\ crashes \in Nat

\* A request is decided when it leaves the way in, and has an answer once its
\* handler is through.
Progress ==
  \A r \in Reqs :
    /\ pc[r] \in {"start", "claim"} => decision[r] = "none"
    /\ Holds(r) => decision[r] = "fresh"
    /\ outcome[r] # "none" => decision[r] = "fresh" /\ pc[r] \in {"finish", "done", "dead"}
    /\ pc[r] = "dead" => crashes > 0

\* What is cached was the answer of a request of the key, and while a key is
\* processed nothing valid is cached for it.
Kept ==
  \A k \in Keys :
    /\ Present(k) => /\ KeyOf[cached[k]] = k /\ decision[cached[k]] = "fresh"
                     /\ outcome[cached[k]] \in Cacheable
    /\ k \in inflight => ~Valid(k)

\* A key whose mail was sent is answered from the cache, and is not processed
\* again, until its answer is forgotten.
Remembered ==
  crashes = 0 =>
    /\ \A q \in Reqs : outcome[q] = "ok" /\ pc[q] = "done" => Valid(KeyOf[q]) \/ KeyOf[q] \in forgotten
    /\ \A r, q \in Reqs : r # q /\ KeyOf[r] = KeyOf[q] /\ outcome[q] = "ok" /\ (Holds(r) \/ outcome[r] = "ok")
         => KeyOf[q] \in forgotten

IInv == Typed /\ Progress /\ ClaimsMatchHandlers /\ Kept /\ ReplayFaithful /\ Remembered

USE KeysAssumption, TtlAssumption

THEOREM InitIInv == Init => IInv
  BY DEF Init, InitRequests, IInv, Typed, Progress, Holds, ClaimsMatchHandlers, Kept, Present, Valid,
         ReplayFaithful, Remembered, Outcomes

-----------------------------------------------------------------------------
(* The steps, each under the whole invariant. *)

LEMMA LookupKeeps == ASSUME IInv, NEW r \in Reqs, Lookup(r) PROVE IInv'
<1> DEFINE k == KeyOf[r]
<1>a. pc[r] = "start" /\ k \in Keys /\ UNCHANGED <<outcome, inflight, forgotten, crashes>>
  BY DEF Lookup, Refuse, Replay, Miss, Move
<1>b. \A q \in Reqs \ {r} : pc'[q] = pc[q] /\ decision'[q] = decision[q] /\ source'[q] = source[q]
  BY DEF Lookup, Refuse, Replay, Miss, Move, IInv, Typed
<1>c. \A q \in Reqs : Holds(q)' = Holds(q)
  BY <1>a, <1>b DEF Lookup, Refuse, Replay, Miss, Move, IInv, Typed, Holds
<1>d. \A j \in Keys : Valid(j)' = Valid(j)
  BY <1>a DEF Lookup, Drop, Valid, Present, IInv, Typed
<1>e. \A j \in Keys : Present(j)' => Present(j) /\ cached'[j] = cached[j]
  BY <1>a DEF Lookup, Drop, Present, IInv, Typed
<1>f. decision[r] = "none" /\ outcome[r] = "none"
  BY <1>a DEF IInv, Typed, Progress
<1>1. Typed'
  BY DEF Lookup, Refuse, Replay, Miss, Move, Drop, IInv, Typed
<1>2. Progress'
  BY <1>a, <1>b, <1>c, <1>f DEF IInv, Progress, Lookup, Refuse, Replay, Miss, Move, Typed, Holds
<1>3. ClaimsMatchHandlers'
  BY <1>a, <1>c DEF IInv, ClaimsMatchHandlers
<1>4. Kept'
  BY <1>a, <1>b, <1>d, <1>e, <1>f DEF IInv, Typed, Kept, Present
<1>5. ReplayFaithful'
  <2>1. \A q \in Reqs : decision[q] = "fresh" => decision'[q] = "fresh"
    BY <1>b, <1>f
  <2>2. decision'[r] = "replay" => Present(k) /\ source'[r] = cached[k]
    BY DEF Lookup, Refuse, Replay, Miss, Move, IInv, Typed, Progress, Valid
  <2>3. QED
    BY <1>a, <1>b, <2>1, <2>2 DEF IInv, Typed, ReplayFaithful, Kept, Present, Cacheable
<1>6. Remembered'
  BY <1>a, <1>b, <1>c, <1>d, <1>f DEF IInv, Typed, Remembered
<1>7. QED
  BY <1>1, <1>2, <1>3, <1>4, <1>5, <1>6 DEF IInv

LEMMA ClaimKeeps == ASSUME IInv, NEW r \in Reqs, ClaimInFlight(r) PROVE IInv'
<1> DEFINE k == KeyOf[r]
<1>a. pc[r] = "claim" /\ k \in Keys /\ UNCHANGED <<outcome, source, cached, left, forgotten, crashes>>
  BY DEF ClaimInFlight, Refuse, Claim, Move
<1>b. \A q \in Reqs \ {r} : pc'[q] = pc[q] /\ decision'[q] = decision[q] /\ (Holds(q)' = Holds(q))
  BY DEF ClaimInFlight, Refuse, Claim, Move, IInv, Typed, Holds
<1>c. decision[r] = "none" /\ outcome[r] = "none" /\ ~Holds(r)
  BY <1>a DEF IInv, Typed, Progress, Holds
<1>d. CASE ~Holds(r)' /\ decision'[r] = "conflict" /\ pc'[r] = "done" /\ UNCHANGED inflight
  BY <1>a, <1>b, <1>c, <1>d
     DEF IInv, Typed, Progress, ClaimsMatchHandlers, Kept, Present, Valid, ReplayFaithful, Remembered,
         ClaimInFlight, Refuse, Claim, Move
<1>e. CASE k \notin inflight /\ ~Valid(k) /\ Claim(r, "claim")
  <2>1. Holds(r)' /\ decision'[r] = "fresh" /\ pc'[r] = "working" /\ inflight' = inflight \cup {k}
    BY <1>e DEF Claim, Move, Holds, IInv, Typed
  <2>2. Typed'
    BY <1>a, <1>e DEF Claim, Move, IInv, Typed
  <2>3. Progress'
    BY <1>a, <1>b, <1>c, <2>1 DEF IInv, Typed, Progress
  <2>4. ClaimsMatchHandlers'
    <3>1. \A q \in Reqs : Holds(q) => KeyOf[q] # k
      BY <1>e DEF IInv, ClaimsMatchHandlers
    <3>2. QED
      BY <1>b, <1>c, <2>1, <3>1 DEF IInv, ClaimsMatchHandlers
  <2>5. Kept'
    BY <1>a, <1>b, <1>c, <1>e, <2>1 DEF IInv, Typed, Kept, Present, Valid
  <2>6. ReplayFaithful'
    BY <1>a, <1>b, <1>c, <2>1 DEF IInv, Typed, ReplayFaithful
  <2>7. Remembered'
    <3>1. ASSUME NEW q \in Reqs \ {r}, KeyOf[q] = k, outcome[q] = "ok", crashes = 0
          PROVE  k \in forgotten
      <4>1. ~Holds(q)
        BY <1>e, <3>1 DEF IInv, ClaimsMatchHandlers
      <4>2. pc[q] = "done"
        BY <3>1, <4>1 DEF IInv, Typed, Progress, Holds
      <4>3. QED
        BY <1>e, <3>1, <4>2 DEF IInv, Remembered
    <3>2. QED
      BY <1>a, <1>b, <1>c, <2>1, <3>1 DEF IInv, Typed, Remembered, Valid, Present
  <2>8. QED
    BY <2>2, <2>3, <2>4, <2>5, <2>6, <2>7 DEF IInv
<1>f. QED
  BY <1>d, <1>e DEF ClaimInFlight, Refuse, Move, IInv, Typed, Holds

LEMMA ProcessKeeps ==
  ASSUME IInv, NEW r \in Reqs, Process(r), UNCHANGED <<order, cached, left>> PROVE IInv'
<1>a. pc[r] = "working" /\ pc' = [pc EXCEPT ![r] = "finish"]
  BY DEF Process, Move
<1>b. PICK o \in Outcomes : outcome' = [outcome EXCEPT ![r] = o]
  BY DEF Process
<1>c. UNCHANGED <<decision, source, inflight, forgotten, crashes, cached, left>>
  BY DEF Process
<1>d. \A q \in Reqs : Holds(q)' = Holds(q)
  BY <1>a DEF IInv, Typed, Holds
<1>e. Holds(r) /\ decision[r] = "fresh" /\ outcome[r] = "none"
  BY <1>a DEF IInv, Typed, Progress, Holds
<1>1. Typed'
  BY <1>a, <1>b, <1>c DEF IInv, Typed
<1>2. Progress'
  BY <1>a, <1>b, <1>c, <1>d, <1>e DEF IInv, Typed, Progress
<1>3. ClaimsMatchHandlers'
  BY <1>c, <1>d DEF IInv, ClaimsMatchHandlers
<1>4. Kept'
  BY <1>b, <1>c, <1>e DEF IInv, Typed, Kept, Present, Valid, Cacheable
<1>5. ReplayFaithful'
  BY <1>b, <1>c, <1>e DEF IInv, Typed, ReplayFaithful
<1>6. Remembered'
  <2>1. \A q \in Reqs \ {r} : Holds(q) /\ KeyOf[q] = KeyOf[r] => FALSE
    BY <1>e DEF IInv, ClaimsMatchHandlers
  <2>2. \A q \in Reqs \ {r} : outcome'[q] = outcome[q] /\ pc'[q] = pc[q]
    BY <1>a, <1>b DEF IInv, Typed
  <2>3. pc'[r] = "finish"
    BY <1>a DEF IInv, Typed
  <2>4. QED
    BY <1>c, <1>d, <1>e, <2>1, <2>2, <2>3 DEF IInv, Remembered, Valid, Present
<1>7. QED
  BY <1>1, <1>2, <1>3, <1>4, <1>5, <1>6 DEF IInv

\* A claim given back, with the answer kept (out: what it pushes out) or not.
LEMMA ReleaseKeeps ==
  ASSUME IInv, NEW r \in Reqs, NEW out, Release(r, "finish"), UNCHANGED crashes,
         \/ /\ outcome[r] \in Cacheable /\ forgotten' = forgotten \cup out
            /\ cached' = [j \in Keys |-> IF j = KeyOf[r] THEN r ELSE IF j \in out THEN NoOne ELSE cached[j]]
            /\ left' = [j \in Keys |-> IF j = KeyOf[r] THEN Ttl ELSE IF j \in out THEN 0 ELSE left[j]]
         \/ outcome[r] \notin Cacheable /\ UNCHANGED <<forgotten, cached, left>>
  PROVE  IInv'
<1> DEFINE k == KeyOf[r]
<1>a. pc[r] = "finish" /\ k \in Keys /\ inflight' = inflight \ {k}
      /\ UNCHANGED <<decision, source, outcome>>
  BY DEF Release, Move
<1>b. pc'[r] = "done" /\ \A q \in Reqs \ {r} : pc'[q] = pc[q]
  BY DEF Release, Move, IInv, Typed
<1>c. Holds(r) /\ ~Holds(r)' /\ \A q \in Reqs \ {r} : Holds(q)' = Holds(q)
  BY <1>a, <1>b DEF Holds
<1>d. \A j \in Keys \ {k} : /\ Present(j)' => Present(j) /\ cached'[j] = cached[j]
                            /\ Valid(j) => Valid(j)' \/ j \in forgotten'
                            /\ Valid(j)' => Valid(j)
  BY DEF Present, Valid, IInv, Typed
<1>e. outcome[r] \in Cacheable => Valid(k)' /\ cached'[k] = r
  BY <1>a DEF Present, Valid
<1>f. outcome[r] \notin Cacheable => (Present(k)' = Present(k)) /\ cached'[k] = cached[k] /\ (Valid(k)' = Valid(k))
  BY DEF Present, Valid
<1>1. Typed'
  BY <1>a DEF Release, Move, IInv, Typed
<1>2. Progress'
  BY <1>a, <1>b, <1>c DEF IInv, Progress
<1>3. ClaimsMatchHandlers'
  BY <1>a, <1>b, <1>c DEF IInv, ClaimsMatchHandlers
<1>4. Kept'
  <2>1. decision[r] = "fresh"
    BY <1>c DEF IInv, Progress
  <2>2. \A j \in Keys : (Present(j) => KeyOf[cached[j]] = j /\ decision[cached[j]] = "fresh"
                                       /\ outcome[cached[j]] \in Cacheable)
                        /\ (j \in inflight => ~Valid(j))
    BY DEF IInv, Kept
  <2>3. ASSUME NEW j \in Keys
        PROVE  /\ Present(j)' => /\ KeyOf[cached'[j]] = j /\ decision[cached'[j]] = "fresh"
                                 /\ outcome[cached'[j]] \in Cacheable
               /\ j \in inflight' => ~Valid(j)'
    <3>1. CASE j = k
      BY <1>a, <1>e, <1>f, <2>1, <2>2, <3>1
    <3>2. CASE j # k
      BY <1>a, <1>d, <2>2, <3>2
    <3>3. QED
      BY <3>1, <3>2
  <2>4. QED
    BY <1>a, <2>3 DEF Kept, Present, Valid
<1>5. ReplayFaithful'
  BY <1>a DEF IInv, ReplayFaithful
<1>6. Remembered'
  <2>1. ASSUME crashes = 0, NEW q \in Reqs, outcome[q] = "ok", pc'[q] = "done"
        PROVE  Valid(KeyOf[q])' \/ KeyOf[q] \in forgotten'
    <3>1. CASE KeyOf[q] = k /\ outcome[r] \in Cacheable
      BY <1>e, <3>1 DEF Valid, Present
    <3>2. CASE KeyOf[q] = k /\ outcome[r] \notin Cacheable
      <4>1. q # r
        BY <2>1, <3>2 DEF Cacheable
      <4>2. k \in forgotten
        BY <1>c, <2>1, <3>2, <4>1 DEF IInv, Remembered
      <4>3. QED
        BY <3>2, <4>2
    <3>3. CASE KeyOf[q] # k
      <4>1. Valid(KeyOf[q]) \/ KeyOf[q] \in forgotten
        BY <1>b, <2>1, <3>3 DEF IInv, Remembered
      <4>2. QED
        BY <1>d, <3>3, <4>1
    <3>4. QED
      BY <3>1, <3>2, <3>3
  <2>2. QED
    BY <1>a, <1>b, <1>c, <2>1 DEF IInv, Remembered
<1>7. QED
  BY <1>1, <1>2, <1>3, <1>4, <1>5, <1>6 DEF IInv

LEMMA TickKeeps == ASSUME IInv, Tick PROVE IInv'
<1>a. UNCHANGED <<pc, decision, source, outcome, inflight, crashes, cached>>
  BY DEF Tick, requests
<1>b. \A k \in Keys : /\ Present(k)' = Present(k) /\ Valid(k)' => Valid(k)
                      /\ Valid(k) => Valid(k)' \/ k \in forgotten'
  BY <1>a DEF Tick, Present, Valid, IInv, Typed
<1>1. Typed'
  BY <1>a DEF Tick, IInv, Typed, Valid
<1>2. Progress' /\ ClaimsMatchHandlers' /\ ReplayFaithful'
  BY <1>a DEF IInv, Progress, ClaimsMatchHandlers, ReplayFaithful, Holds
<1>3. Kept'
  <2>1. ASSUME NEW k \in Keys
        PROVE  /\ cached[k] # NoOne => /\ KeyOf[cached[k]] = k /\ decision[cached[k]] = "fresh"
                                      /\ outcome[cached[k]] \in Cacheable
               /\ k \in inflight => ~Valid(k)'
    <3>1. cached[k] # NoOne => /\ KeyOf[cached[k]] = k /\ decision[cached[k]] = "fresh"
                               /\ outcome[cached[k]] \in Cacheable
      BY DEF IInv, Kept, Present
    <3>2. k \in inflight => ~Valid(k)
      BY DEF IInv, Kept
    <3>3. Valid(k)' => Valid(k)
      BY <1>a DEF Tick, Present, Valid, IInv, Typed
    <3>4. QED
      BY <3>1, <3>2, <3>3
  <2>2. QED
    BY <1>a, <2>1 DEF Kept, Present
<1>4. Remembered'
  BY <1>a, <1>b DEF IInv, Remembered, Holds, Tick
<1>5. QED
  BY <1>1, <1>2, <1>3, <1>4 DEF IInv

LEMMA RebootKeeps == ASSUME IInv, Reboot PROVE IInv'
<1>a. crashes' > 0 /\ crashes' \in Nat /\ inflight' = {} /\ UNCHANGED <<decision, source, outcome>>
  BY DEF Reboot, Restart, IInv, Typed
<1>b. \A r \in Reqs : pc'[r] = (IF pc[r] \in {"start", "done"} THEN pc[r] ELSE "dead") /\ ~Holds(r)'
  BY DEF Reboot, Restart, Holds, IInv, Typed
<1>c. cached' = [k \in Keys |-> NoOne] /\ left' = [k \in Keys |-> 0]
  BY DEF Reboot, Drop
<1>1. Typed'
  BY <1>a, <1>c DEF Reboot, Restart, IInv, Typed
<1>2. Progress'
  BY <1>a, <1>b DEF IInv, Typed, Progress
<1>3. ClaimsMatchHandlers' /\ Kept' /\ ReplayFaithful' /\ Remembered'
  BY <1>a, <1>b, <1>c DEF IInv, ClaimsMatchHandlers, Kept, Present, Valid, ReplayFaithful, Remembered
<1>4. QED
  BY <1>1, <1>2, <1>3 DEF IInv

LEMMA StepKeeps == ASSUME IInv, [Next]_vars PROVE IInv'
<1>1. ASSUME NEW r \in Reqs, Store(r) PROVE IInv'
  BY <1>1, ReleaseKeeps DEF Store
<1>2. ASSUME NEW r \in Reqs, Abandon(r) PROVE IInv'
  <2>1. UNCHANGED <<forgotten, cached, left, crashes>> /\ Release(r, "finish") /\ outcome[r] \notin Cacheable
    BY <1>2 DEF Abandon
  <2>2. QED
    BY <2>1, ReleaseKeeps
<1>3. CASE UNCHANGED vars
  <2>1. UNCHANGED <<pc, decision, source, outcome, inflight, forgotten, crashes, cached, left>>
    BY <1>3 DEF vars, requests
  <2>2. QED
    BY <2>1 DEF IInv, Typed, Progress, ClaimsMatchHandlers, Kept, ReplayFaithful, Remembered, Holds, Present, Valid
<1>4. QED
  BY <1>1, <1>2, <1>3, LookupKeeps, ClaimKeeps, ProcessKeeps, TickKeeps, RebootKeeps DEF Next

-----------------------------------------------------------------------------
\* The cache, the claims and the handlers agree in every reachable state.
THEOREM Inductive == Spec => []IInv
  BY InitIInv, StepKeeps, PTL DEF Spec

\* One handler per claim, and no claim without its handler (FR44).
THEOREM ClaimsHeldByHandlers == Spec => []ClaimsMatchHandlers
<1>1. IInv => ClaimsMatchHandlers
  BY DEF IInv
<1>2. QED
  BY <1>1, Inductive, PTL

\* A replay hands out an answer of the same key that was worth keeping.
THEOREM ReplaysFaithful == Spec => []ReplayFaithful
<1>1. IInv => ReplayFaithful
  BY DEF IInv
<1>2. QED
  BY <1>1, Inductive, PTL

\* A key's mail is sent once, as long as its answer is not lost.
THEOREM KeysSendOnce == Spec => []SentOnce
<1>1. IInv => SentOnce
  BY DEF IInv, Typed, Remembered, SentOnce
<1>2. QED
  BY <1>1, Inductive, PTL

-----------------------------------------------------------------------------
(* The LRU's list holds the keys of its map, each once.                    *)

Listed ==
  /\ order \in Seq(Keys) /\ IsInjective(order)
  /\ ToSet(order) = {k \in Keys : Present(k)} /\ Len(order) <= Capacity

Rest ==
  /\ after \in [Reqs -> SUBSET Reqs] /\ inflight \subseteq Keys /\ forgotten \subseteq Keys
  /\ crashes \in 0 .. MaxCrashes

LInv == Listed /\ Rest

LEMMA WithoutIs ==
  ASSUME Listed, NEW k \in Keys
  PROVE  /\ Without(k) \in Seq(Keys) /\ IsInjective(Without(k)) /\ ToSet(Without(k)) = ToSet(order) \ {k}
         /\ Len(Without(k)) = IF k \in ToSet(order) THEN Len(order) - 1 ELSE Len(order)
<1>1. order \in Seq(Keys) /\ IsInjective(order)
  BY DEF Listed
<1>2. CASE k \in ToSet(order)
  <2> DEFINE i == CHOOSE i \in DOMAIN order : order[i] = k
  <2>1. i \in 1 .. Len(order) /\ order[i] = k
    BY <1>1, <1>2 DEF ToSet
  <2> HIDE DEF i
  <2>2. /\ RemoveAt(order, i) \in Seq(Keys) /\ Len(RemoveAt(order, i)) = Len(order) - 1
        /\ ToSet(RemoveAt(order, i)) = ToSet(order) \ {k} /\ IsInjective(RemoveAt(order, i))
    BY <1>1, <2>1, RemoveAtIs, RemoveAtSet
  <2>3. Without(k) = RemoveAt(order, i)
    BY <1>2 DEF Without, i
  <2>4. QED
    BY <1>2, <2>2, <2>3
<1>3. CASE k \notin ToSet(order)
  BY <1>1, <1>3 DEF Without
<1>4. QED
  BY <1>2, <1>3

LEMMA TouchedIs ==
  ASSUME Listed, NEW k \in Keys
  PROVE  /\ Touched(k) \in Seq(Keys) /\ IsInjective(Touched(k)) /\ ToSet(Touched(k)) = ToSet(order) \cup {k}
         /\ Len(Touched(k)) = IF k \in ToSet(order) THEN Len(order) ELSE Len(order) + 1
<1> DEFINE w == Without(k)
<1>1. /\ w \in Seq(Keys) /\ IsInjective(w) /\ ToSet(w) = ToSet(order) \ {k}
      /\ Len(w) = IF k \in ToSet(order) THEN Len(order) - 1 ELSE Len(order)
  BY WithoutIs
<1>2. Len(order) \in Nat
  BY DEF Listed
<1> HIDE DEF w
<1>3. Append(w, k) \in Seq(Keys) /\ Len(Append(w, k)) = Len(w) + 1
  BY <1>1
<1>4. ToSet(Append(w, k)) = ToSet(order) \cup {k} /\ IsInjective(Append(w, k))
  BY <1>1, AppendSet
<1>5. QED
  BY <1>1, <1>2, <1>3, <1>4 DEF Touched, w

LEMMA InitLInv == Init => LInv
  BY CapacityAssumption DEF Init, InitRequests, LInv, Listed, Rest, Present, IsInjective, ToSet

\* A key is used again: its place in the list changes, the keys in it do not.
LEMMA TouchKeeps ==
  ASSUME Listed, NEW k \in Keys, Touch(k), UNCHANGED cached PROVE Listed'
<1>1. CASE Present(k)
  <2>1. order' = Touched(k) /\ k \in ToSet(order)
    BY <1>1 DEF Touch, Listed
  <2>2. ToSet(order') = ToSet(order) /\ Len(order') = Len(order) /\ order' \in Seq(Keys) /\ IsInjective(order')
    <3>1. /\ ToSet(Touched(k)) = ToSet(order) \cup {k} /\ Len(Touched(k)) = Len(order)
          /\ Touched(k) \in Seq(Keys) /\ IsInjective(Touched(k))
      BY <2>1, TouchedIs
    <3>2. ToSet(order) \cup {k} = ToSet(order)
      BY <2>1
    <3>3. QED
      BY <2>1, <3>1, <3>2
  <2>3. QED
    BY <2>2 DEF Listed, Present
<1>2. CASE ~Present(k)
  BY <1>2 DEF Touch, Listed, Present
<1>3. QED
  BY <1>1, <1>2

LEMMA StoreKeepsList == ASSUME IInv, Listed, NEW r \in Reqs, Store(r) PROVE Listed'
<1> DEFINE k == KeyOf[r]
           t == Touched(k)
           full == Len(t) > Capacity
           out == IF full THEN {Head(t)} ELSE {}
<1>1. k \in Keys /\ Len(order) \in Nat /\ Len(order) <= Capacity /\ Capacity \in Nat \ {0}
  BY CapacityAssumption DEF Listed
<1>2. /\ t \in Seq(Keys) /\ IsInjective(t) /\ ToSet(t) = ToSet(order) \cup {k}
      /\ Len(t) = IF k \in ToSet(order) THEN Len(order) ELSE Len(order) + 1
  BY TouchedIs
<1>3. t[Len(t)] = k /\ Len(t) \in Nat /\ Len(t) > 0
  <2>1. t = Append(Without(k), k) /\ Without(k) \in Seq(Keys)
    BY WithoutIs DEF Touched
  <2>2. QED
    BY <2>1
<1>4. /\ order' = IF full THEN Tail(t) ELSE t
      /\ cached' = [j \in Keys |-> IF j = k THEN r ELSE IF j \in out THEN NoOne ELSE cached[j]]
  BY DEF Store
<1> HIDE DEF k, t
<1>5. \A j \in Keys : Present(j)' <=> j = k \/ (j \notin out /\ Present(j))
  BY <1>4 DEF Present
<1>6. ToSet(t) = {j \in Keys : Present(j)} \cup {k}
  BY <1>2 DEF Listed
<1>7. CASE ~full
  BY <1>1, <1>2, <1>4, <1>5, <1>6, <1>7 DEF Listed
<1>8. CASE full
  <2>1. t # <<>> /\ Len(t) > 1
    BY <1>1, <1>3, <1>8
  <2>2. /\ Tail(t) \in Seq(Keys) /\ Len(Tail(t)) = Len(t) - 1 /\ Head(t) \in Keys
        /\ ToSet(Tail(t)) = ToSet(t) \ {Head(t)} /\ IsInjective(Tail(t))
    BY <1>2, <2>1, TailSet
  <2>3. Head(t) # k
    BY <1>2, <1>3, <2>1 DEF IsInjective
  <2>4. ToSet(order') = {j \in Keys : Present(j)'}
    BY <1>1, <1>4, <1>5, <1>6, <1>8, <2>2, <2>3
  <2>5. Len(order') <= Capacity
    BY <1>1, <1>2, <1>3, <1>4, <1>8, <2>2
  <2>6. QED
    BY <1>4, <1>8, <2>2, <2>4, <2>5 DEF Listed, Present
<1>9. QED
  BY <1>7, <1>8

LEMMA StepKeepsList == ASSUME IInv, LInv, [Next]_vars PROVE LInv'
<1>1. ASSUME NEW r \in Reqs, Lookup(r) PROVE LInv'
  <2> DEFINE k == KeyOf[r]
  <2>1. k \in Keys /\ UNCHANGED <<inflight, forgotten, crashes>> /\ Arrive(r)
    BY <1>1 DEF Lookup, Refuse, Replay, Miss
  <2>2. Rest'
    BY <2>1 DEF LInv, Rest, Arrive
  <2>3. CASE order' = Without(k) /\ Drop({k})
    <3>1. /\ order' \in Seq(Keys) /\ IsInjective(order') /\ ToSet(order') = ToSet(order) \ {k}
          /\ Len(order') <= Len(order) /\ Len(order) \in Nat /\ Len(order') \in Nat
      BY <2>3, WithoutIs DEF LInv, Listed
    <3>2. \A j \in Keys : Present(j)' <=> j # k /\ Present(j)
      BY <2>3 DEF Drop, Present
    <3>3. Capacity \in Nat
      BY CapacityAssumption
    <3>4. QED
      BY <2>2, <3>1, <3>2, <3>3 DEF LInv, Listed
  <2>4. CASE UNCHANGED <<order, cached>>
    BY <2>2, <2>4 DEF LInv, Listed, Present
  <2>5. CASE Touch(k) /\ UNCHANGED cached
    BY <2>2, <2>5, TouchKeeps DEF LInv
  <2>6. QED
    BY <1>1, <2>3, <2>4, <2>5 DEF Lookup
<1>2. ASSUME NEW r \in Reqs, ClaimInFlight(r) PROVE LInv'
  <2>1. UNCHANGED <<cached, after, forgotten, crashes>> /\ inflight' \in {inflight, inflight \cup {KeyOf[r]}}
        /\ (UNCHANGED order \/ Touch(KeyOf[r])) /\ KeyOf[r] \in Keys
    BY <1>2 DEF ClaimInFlight, Refuse, Claim
  <2>2. Listed'
    BY <2>1, TouchKeeps DEF LInv, Listed, Present
  <2>3. QED
    BY <2>1, <2>2 DEF LInv, Rest
<1>3. ASSUME NEW r \in Reqs, Store(r) PROVE LInv'
  <2> DEFINE t == Touched(KeyOf[r])
  <2>1. t \in Seq(Keys) /\ KeyOf[r] \in Keys
    BY TouchedIs DEF LInv
  <2>2. /\ UNCHANGED <<after, crashes>> /\ inflight' \subseteq inflight
        /\ forgotten' = forgotten \cup IF Len(t) > Capacity THEN {Head(t)} ELSE {}
    BY <1>3 DEF Store, Release
  <2>3. Len(t) > Capacity => Head(t) \in Keys
    BY <2>1, CapacityAssumption
  <2>4. Rest'
    BY <2>2, <2>3 DEF LInv, Rest
  <2>5. QED
    BY <1>3, <2>4, StoreKeepsList DEF LInv
<1>4. ASSUME NEW r \in Reqs, Abandon(r) \/ (Process(r) /\ UNCHANGED <<order, cached, left>>) PROVE LInv'
  BY <1>4 DEF Abandon, Release, Process, LInv, Listed, Rest, Present
<1>5. CASE Tick
  BY <1>5 DEF Tick, requests, LInv, Listed, Rest, Present
<1>6. CASE Reboot
  <2>1. order' = <<>> /\ (\A k \in Keys : ~Present(k)') /\ inflight' = {} /\ UNCHANGED after
        /\ crashes' \in 0 .. MaxCrashes /\ forgotten' \subseteq Keys
    BY <1>6 DEF Reboot, Restart, Drop, Present, LInv, Rest
  <2>2. QED
    BY <2>1, CapacityAssumption DEF LInv, Listed, Rest, IsInjective, ToSet
<1>7. CASE UNCHANGED vars
  BY <1>7 DEF vars, requests, LInv, Listed, Rest, Present
<1>8. QED
  BY <1>1, <1>2, <1>3, <1>4, <1>5, <1>6, <1>7 DEF Next

\* Types, and the two halves of the LRU: its list and its map hold the same
\* keys, each once, and no more than fit.
THEOREM TypeCorrect == Spec => []TypeOK
<1>1. ASSUME IInv, LInv PROVE TypeOK
  <2>1. Len(order) = Cardinality(ToSet(order))
    BY <1>1, LenIsCardinality DEF LInv, Listed
  <2>2. RequestsOK
    BY <1>1 DEF IInv, Typed, LInv, Rest, RequestsOK
  <2>3. QED
    BY <1>1, <2>1, <2>2 DEF IInv, Typed, LInv, Listed, TypeOK
<1>2. Spec => []LInv
  BY InitLInv, StepKeepsList, Inductive, PTL DEF Spec
<1>3. QED
  BY <1>1, <1>2, Inductive, PTL

-----------------------------------------------------------------------------
(* Refinement.  The holder of a key is found by CHOOSE; the invariant makes *)
(* it the only one there is.                                               *)

LEMMA HolderIs ==
  ASSUME IInv, NEW r \in Reqs, Holds(r) PROVE Holder(KeyOf[r]) = r
  BY DEF Holder, IInv, ClaimsMatchHandlers

LEMMA HolderNone ==
  ASSUME IInv, NEW k \in Keys
  PROVE  /\ k \notin inflight <=> Holder(k) = NoOne
         /\ k \in inflight => Holder(k) \in Reqs /\ Holds(Holder(k)) /\ KeyOf[Holder(k)] = k
<1>1. k \in inflight <=> \E r \in Reqs : Holds(r) /\ KeyOf[r] = k
  BY DEF IInv, ClaimsMatchHandlers
<1>2. QED
  BY <1>1 DEF Holder

\* Steps that move nobody in or out of a key leave its holder alone.
LEMMA HolderKept ==
  ASSUME IInv, IInv', UNCHANGED inflight, \A r \in Reqs : Holds(r)' = Holds(r)
  PROVE  \A k \in Keys : Holder(k)' = Holder(k)
  BY DEF Holder

\* The cache, from claims and list to eviction and restart, keeps the contract
\* requests rely on: one request of a key at a time, and kept answers replayed.
THEOREM ImplementsContract == Spec => ContractSpec
<1> DEFINE h == [k \in Keys |-> Holder(k)]
           a == [k \in Keys |-> IF Valid(k) /\ Holder(k) = NoOne THEN cached[k] ELSE NoOne]
<1>1. Init => Contract!Init
  BY DEF Init, InitRequests, Contract!Init, Valid, Present, Holder, Holds
<1>2. ASSUME IInv, IInv', [Next]_vars PROVE [Contract!Next]_(Contract!vars)
  <2> SUFFICES Contract!Next \/ UNCHANGED <<h, a, decision, source>>
    BY DEF Contract!vars
  <2>a. \A k \in Keys : Holder(k) \in Reqs \cup {NoOne}
    BY <1>2, HolderNone
  <2>b. ASSUME NEW r \in Reqs, Lookup(r) PROVE Contract!Next \/ UNCHANGED <<h, a, decision, source>>
    <3> DEFINE k == KeyOf[r]
    <3>1. \A j \in Keys : Valid(j)' = Valid(j) /\ (Valid(j) => cached'[j] = cached[j])
      BY <1>2, <2>b DEF Lookup, Drop, Valid, Present, IInv, Typed
    <3>2. \A q \in Reqs : Holds(q)' = Holds(q)
      BY <1>2, <2>b DEF Lookup, Refuse, Replay, Miss, Move, IInv, Typed, Holds
    <3>3. UNCHANGED inflight /\ decision[r] = "none" /\ k \in Keys
      BY <1>2, <2>b DEF Lookup, Refuse, Replay, Miss, Move, IInv, Progress
    <3>4. h' = h /\ a' = a
      BY <1>2, <3>1, <3>2, <3>3, HolderKept
    <3>5. CASE Refuse(r, "start") /\ k \in inflight
      <4>1. h[k] # NoOne
        BY <1>2, <3>3, <3>5, HolderNone
      <4>2. Contract!Conflict(r)
        BY <3>3, <3>4, <3>5, <4>1 DEF Contract!Conflict, Contract!Decide, Refuse
      <4>3. QED
        BY <4>2 DEF Contract!Next
    <3>6. CASE Replay(r, "start", cached[k]) /\ k \notin inflight /\ Valid(k)
      <4>1. a[k] = cached[k] /\ a[k] # NoOne
        BY <1>2, <3>3, <3>6, HolderNone DEF Valid, Present
      <4>2. Contract!Replay(r)
        BY <3>3, <3>4, <3>6, <4>1 DEF Contract!Replay, Contract!Decide, Replay
      <4>3. QED
        BY <4>2 DEF Contract!Next
    <3>7. CASE Miss(r, "start", "claim")
      BY <3>4, <3>7 DEF Miss
    <3>8. QED
      BY <2>b, <3>5, <3>6, <3>7 DEF Lookup
  <2>c. ASSUME NEW r \in Reqs, ClaimInFlight(r) PROVE Contract!Next \/ UNCHANGED <<h, a, decision, source>>
    <3> DEFINE k == KeyOf[r]
    <3>1. UNCHANGED <<cached, left>> /\ decision[r] = "none" /\ k \in Keys /\ ~Holds(r) /\ UNCHANGED source
      BY <1>2, <2>c DEF ClaimInFlight, Refuse, Claim, Move, IInv, Progress, Holds
    <3>2. CASE Refuse(r, "claim") /\ (k \in inflight \/ Valid(k))
      <4>1. \A q \in Reqs : Holds(q)' = Holds(q)
        BY <1>2, <3>2 DEF Refuse, Move, IInv, Typed, Holds
      <4>2. h' = h /\ a' = a
        BY <1>2, <3>1, <3>2, <4>1, HolderKept DEF Refuse, Valid, Present
      <4>3. h[k] # NoOne \/ a[k] # NoOne
        BY <1>2, <3>1, <3>2, HolderNone DEF Valid, Present
      <4>4. Contract!Conflict(r)
        BY <3>1, <3>2, <4>2, <4>3 DEF Contract!Conflict, Contract!Decide, Refuse
      <4>5. QED
        BY <4>4 DEF Contract!Next
    <3>3. CASE Claim(r, "claim") /\ k \notin inflight /\ ~Valid(k)
      <4>1. Holds(r)' /\ \A q \in Reqs \ {r} : Holds(q)' = Holds(q)
        BY <1>2, <3>3 DEF Claim, Move, IInv, Typed, Holds
      <4>2. Holder(k)' = r
        <5>1. \A q \in Reqs : Holds(q)' /\ KeyOf[q] = k => q = r
          BY <1>2, <4>1 DEF IInv, ClaimsMatchHandlers
        <5>2. QED
          BY <4>1, <5>1 DEF Holder
      <4>3. \A j \in Keys \ {k} : Holder(j)' = Holder(j)
        BY <3>1, <4>1 DEF Holder
      <4>4. Holder(k) = NoOne
        BY <1>2, <3>1, <3>3, HolderNone
      <4>5. h' = [h EXCEPT ![k] = r] /\ a' = a
        BY <3>1, <3>3, <4>2, <4>3, <4>4 DEF Valid, Present
      <4>6. Contract!Proceed(r)
        BY <3>1, <3>3, <4>4, <4>5 DEF Contract!Proceed, Contract!Decide, Claim
      <4>7. QED
        BY <4>6 DEF Contract!Next
    <3>4. QED
      BY <2>c, <3>2, <3>3 DEF ClaimInFlight
  <2>d. ASSUME NEW r \in Reqs, Process(r), UNCHANGED <<order, cached, left>>
        PROVE  UNCHANGED <<h, a, decision, source>>
    <3>1. \A q \in Reqs : Holds(q)' = Holds(q)
      BY <1>2, <2>d DEF Process, Move, IInv, Typed, Holds
    <3>2. QED
      BY <1>2, <2>d, <3>1, HolderKept DEF Process, Valid, Present
  <2>e. ASSUME NEW r \in Reqs, Release(r, "finish"), UNCHANGED crashes,
               /\ Valid(KeyOf[r])' => cached'[KeyOf[r]] = r
               /\ \A j \in Keys \ {KeyOf[r]} : Valid(j)' => Valid(j) /\ cached'[j] = cached[j]
        PROVE  Contract!Next
    <3> DEFINE k == KeyOf[r]
    <3>1. k \in Keys /\ Holds(r) /\ ~Holds(r)' /\ \A q \in Reqs \ {r} : Holds(q)' = Holds(q)
      BY <1>2, <2>e DEF Release, Move, IInv, Typed, Holds
    <3>2. Holder(k) = r
      BY <1>2, <3>1, HolderIs
    <3>3. Holder(k)' = NoOne
      <4>1. \A q \in Reqs : Holds(q)' => KeyOf[q] # k
        BY <1>2, <3>1 DEF IInv, ClaimsMatchHandlers
      <4>2. QED
        BY <4>1 DEF Holder
    <3>4. \A j \in Keys \ {k} : Holder(j)' = Holder(j)
      BY <3>1 DEF Holder
    <3>5. h[k] = r /\ h' = [h EXCEPT ![k] = NoOne]
      BY <3>1, <3>2, <3>3, <3>4
    <3>6. a' \in [Keys -> Reqs \cup {NoOne}] /\ a'[k] \in {NoOne, h[k]}
      BY <1>2, <2>e, <3>1, <3>2 DEF IInv, Typed
    <3>7. \A j \in Keys \ {k} : a'[j] \in {NoOne, a[j]}
      BY <2>e, <3>4
    <3>8. Contract!Finish(k)
      BY <2>e, <3>1, <3>5, <3>6, <3>7 DEF Contract!Finish, Release
    <3>9. QED
      BY <3>1, <3>8 DEF Contract!Next
  <2>f. ASSUME NEW r \in Reqs, Store(r) PROVE Contract!Next
    <3>1. /\ Valid(KeyOf[r])' => cached'[KeyOf[r]] = r
          /\ \A j \in Keys \ {KeyOf[r]} : Valid(j)' => Valid(j) /\ cached'[j] = cached[j]
      BY <1>2, <2>f DEF Store, Valid, Present, IInv, Typed
    <3>2. QED
      BY <2>e, <2>f, <3>1 DEF Store
  <2>g. ASSUME NEW r \in Reqs, Abandon(r) PROVE Contract!Next
    <3>1. Holds(r) /\ KeyOf[r] \in inflight
      BY <1>2, <2>g DEF Abandon, Release, Move, Holds, IInv, ClaimsMatchHandlers
    <3>2. ~Valid(KeyOf[r])
      BY <1>2, <3>1 DEF IInv, Kept
    <3>3. QED
      BY <2>e, <2>g, <3>2 DEF Abandon, Valid, Present
  <2>h. CASE Tick
    <3>1. UNCHANGED <<pc, inflight, cached, decision, source>>
      BY <2>h DEF Tick, requests
    <3>2. h' = h
      BY <1>2, <3>1, HolderKept DEF Holds
    <3>3. \A k \in Keys : Valid(k)' => Valid(k)
      BY <1>2, <2>h DEF Tick, Valid, Present, IInv, Typed
    <3>4. a' = [k \in Keys |-> IF k \in {j \in Keys : ~Valid(j)'} THEN NoOne ELSE a[k]]
      BY <1>2, <3>1, <3>3, HolderKept DEF Holds
    <3>5. Contract!Forget
      BY <3>1, <3>2, <3>4 DEF Contract!Forget
    <3>6. QED
      BY <3>5 DEF Contract!Next
  <2>i. CASE Reboot
    <3>1. inflight' = {} /\ UNCHANGED <<decision, source>> /\ cached' = [k \in Keys |-> NoOne]
      BY <2>i DEF Reboot, Restart, Drop
    <3>2. h' = [k \in Keys |-> NoOne]
      <4>1. \A r \in Reqs : ~Holds(r)'
        BY <1>2, <3>1 DEF IInv, ClaimsMatchHandlers
      <4>2. QED
        BY <4>1 DEF Holder
    <3>3. a' = [k \in Keys |-> IF k \in Keys THEN NoOne ELSE a[k]]
      BY <3>1 DEF Valid, Present
    <3>4. Contract!Restart
      BY <3>1, <3>2, <3>3 DEF Contract!Restart
    <3>5. QED
      BY <3>4 DEF Contract!Next
  <2>j. CASE UNCHANGED vars
    BY <2>j DEF vars, requests, Holder, Holds, Valid, Present
  <2>k. QED
    BY <1>2, <2>b, <2>c, <2>d, <2>f, <2>g, <2>h, <2>i, <2>j DEF Next
<1>3. QED
  BY <1>1, <1>2, Inductive, PTL DEF Spec, ContractSpec, Contract!Spec, Contract!vars
=============================================================================
