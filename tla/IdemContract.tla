---------------------------- MODULE IdemContract ----------------------------
(***************************************************************************)
(* What a request with an Idempotency-Key is promised, whichever backend   *)
(* keeps the answers: at most one request of a key is being processed, a   *)
(* kept answer is replayed instead of processing again, and an answer,     *)
(* once kept, is only ever forgotten.                                      *)
(***************************************************************************)
CONSTANTS Reqs, Keys, KeyOf, NoOne
VARIABLES
  holder,    \* the request processing each key, or NoOne
  answer,    \* the request whose answer is kept for each key, or NoOne
  decision,  \* what was decided for each request
  source     \* the request whose answer it was given, if replayed

vars == <<holder, answer, decision, source>>

Init ==
  /\ holder = [k \in Keys |-> NoOne] /\ answer = [k \in Keys |-> NoOne]
  /\ decision = [r \in Reqs |-> "none"] /\ source = [r \in Reqs |-> NoOne]

Decide(r, d) == decision[r] = "none" /\ decision' = [decision EXCEPT ![r] = d]

Proceed(r) ==
  /\ Decide(r, "fresh") /\ UNCHANGED <<answer, source>>
  /\ holder[KeyOf[r]] = NoOne /\ answer[KeyOf[r]] = NoOne
  /\ holder' = [holder EXCEPT ![KeyOf[r]] = r]

Replay(r) ==
  /\ Decide(r, "replay") /\ UNCHANGED <<holder, answer>>
  /\ answer[KeyOf[r]] # NoOne
  /\ source' = [source EXCEPT ![r] = answer[KeyOf[r]]]

Conflict(r) ==
  /\ Decide(r, "conflict") /\ UNCHANGED <<holder, answer, source>>
  /\ holder[KeyOf[r]] # NoOne \/ answer[KeyOf[r]] # NoOne

\* Keeping one answer may push out others.
Finish(k) ==
  /\ holder[k] # NoOne /\ holder' = [holder EXCEPT ![k] = NoOne]
  /\ answer' \in [Keys -> Reqs \cup {NoOne}]
  /\ answer'[k] \in {NoOne, holder[k]}
  /\ \A j \in Keys \ {k} : answer'[j] \in {NoOne, answer[j]}
  /\ UNCHANGED <<decision, source>>

Forget ==
  /\ \E S \in SUBSET Keys :
       answer' = [k \in Keys |-> IF k \in S THEN NoOne ELSE answer[k]]
  /\ UNCHANGED <<holder, decision, source>>

Restart ==
  /\ holder' = [k \in Keys |-> NoOne]
  /\ \E S \in SUBSET Keys :
       answer' = [k \in Keys |-> IF k \in S THEN NoOne ELSE answer[k]]
  /\ UNCHANGED <<decision, source>>

Next ==
  \/ \E r \in Reqs : Proceed(r) \/ Replay(r) \/ Conflict(r)
  \/ \E k \in Keys : Finish(k)
  \/ Forget \/ Restart

Spec == Init /\ [][Next]_vars
=============================================================================
