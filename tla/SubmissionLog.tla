---------------------------- MODULE SubmissionLog ----------------------------
(***************************************************************************)
(* What storage promises about a submission, with no queue, worker, disk   *)
(* or process in sight: each submission is logged at most once, is pending *)
(* until it is settled, is settled once, and leaves the log only after     *)
(* that.  A client told "queued" has a logged submission behind the word,  *)
(* and that submission does get settled.                                   *)
(***************************************************************************)
CONSTANT Subs
VARIABLES
  fate,   \* what the log shows for each submission
  told    \* the answer its client has received

vars == <<fate, told>>

Outcomes == {"sent", "failed", "suppressed"}

Init == fate = [s \in Subs |-> "none"] /\ told = [s \in Subs |-> "none"]

Log(s) ==
  /\ fate[s] = "none" /\ told[s] = "none"
  /\ \E f \in {"pending", "suppressed"} : fate' = [fate EXCEPT ![s] = f]
  /\ UNCHANGED told

Settle(s) ==
  /\ fate[s] = "pending"
  /\ \E f \in {"sent", "failed"} : fate' = [fate EXCEPT ![s] = f]
  /\ UNCHANGED told

Forget ==
  /\ \E S \in SUBSET {s \in Subs : fate[s] \in Outcomes} :
       fate' = [s \in Subs |-> IF s \in S THEN "pruned" ELSE fate[s]]
  /\ UNCHANGED told

Tell(s) ==
  /\ told[s] = "none"
  /\ \/ \E r \in {"ok", "failed", "suppressed"} : told' = [told EXCEPT ![s] = r]
     \/ fate[s] # "none" /\ told' = [told EXCEPT ![s] = "queued"]
  /\ UNCHANGED fate

Next == Forget \/ \E s \in Subs : Log(s) \/ Settle(s) \/ Tell(s)

Spec     == Init /\ [][Next]_vars
KeepWord == \A s \in Subs : WF_vars(told[s] = "queued" /\ Settle(s))
FairSpec == Spec /\ KeepWord
=============================================================================
