----------------------------- MODULE MCMailQueue -----------------------------
(* Instances of MailQueue for TLC. *)
EXTENDS MailQueue

\* Waits of one and two ticks keep the ladder's rungs apart.
MCBackoff == [n \in 0 .. MaxAttempts - 1 |-> IF n = 0 THEN 1 ELSE 2]
=============================================================================
