---------------------------- MODULE MCMailQueueCli ----------------------------
(* Instances of MailQueueCli for TLC. *)
EXTENDS MailQueueCli

MCBackoff == [n \in 0 .. MaxAttempts - 1 |-> IF n = 0 THEN 1 ELSE 2]
=============================================================================
