---------------------------- MODULE MailQueueCli ----------------------------
(***************************************************************************)
(* MailQueue together with `posthorn suppressions`, a second process that  *)
(* opens the storage file of a running server.  Every subcommand opens the *)
(* store with storage.Open, which ends in recoverInFlight: the two         *)
(* statements run against the live tables, each as one transaction of its  *)
(* own between those of the server.                                        *)
(***************************************************************************)
EXTENDS MailQueue

CONSTANT MaxOpens   \* bound: times the command is run

VARIABLES cli, opens
cliVars == <<vars, cli, opens>>

CliInit == Init /\ cli = "idle" /\ opens = 0

CliInsert ==
  /\ cli = "idle" /\ opens < MaxOpens
  /\ opens' = opens + 1
  /\ IF diskOk
     THEN /\ InsertRows({s \in Subs : status[s] = "sending"}, -Lag)
          /\ cli' = "recovering"
     ELSE UNCHANGED <<queue, attempt, due, cli>>
  /\ UNCHANGED <<status, lastErr, handler, worker, process, history>>

CliUpdate ==
  /\ cli = "recovering" /\ cli' = "idle"
  /\ status' = [s \in Subs |-> IF diskOk /\ status[s] = "sending" THEN "queued" ELSE status[s]]
  /\ UNCHANGED <<lastErr, queue, attempt, due, handler, worker, process, history, opens>>

CliNext == (Next /\ UNCHANGED <<cli, opens>>) \/ CliInsert \/ CliUpdate

CliSpec == CliInit /\ [][CliNext]_cliVars
=============================================================================
