---------------------------- MODULE SendContract ----------------------------
(***************************************************************************)
(* What the rest of the program relies on when it hands a message to a     *)
(* transport: at most two tries, none after a verdict, and a refusal for   *)
(* good only for a message the provider did not take in that try.  These   *)
(* are the outcomes InlineAccepted, InlineRefused and WorkerSend of module *)
(* MailQueue choose from; module Transports implements them.               *)
(***************************************************************************)
EXTENDS Naturals

CONSTANT MaxTries
VARIABLES tries, verdict, copies, diverted, over

vars == <<tries, verdict, copies, diverted, over>>

Init ==
  /\ tries = 0 /\ verdict = "none" /\ copies = 0
  /\ diverted = FALSE /\ over = FALSE

Try(v) ==
  /\ ~over /\ tries < MaxTries
  /\ tries' = tries + 1 /\ verdict' = v

\* The provider has it, or somebody it redirected the client to said so.
Accepted ==
  /\ Try("ok") /\ over' = TRUE
  /\ \/ copies' = copies + 1 /\ UNCHANGED diverted
     \/ diverted' = TRUE /\ UNCHANGED copies

Refused == Try("terminal") /\ over' = TRUE /\ UNCHANGED <<copies, diverted>>

\* Nobody can tell whether the provider has it.
Failed ==
  /\ Try("retryable") /\ over' \in BOOLEAN
  /\ copies' \in {copies, copies + 1} /\ UNCHANGED diverted

GivesUp ==
  /\ ~over /\ verdict = "retryable" /\ over' = TRUE
  /\ UNCHANGED <<tries, verdict, copies, diverted>>

Next == Accepted \/ Refused \/ Failed \/ GivesUp
Spec == Init /\ [][Next]_vars
=============================================================================
