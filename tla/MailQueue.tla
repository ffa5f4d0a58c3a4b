------------------------------- MODULE MailQueue -------------------------------
(***************************************************************************)
(* The life of a submission in Posthorn when [storage] is configured: the  *)
(* request handler that sends it inline, the submissions and retry_queue   *)
(* tables, the degrade gate, the background worker that climbs the retry   *)
(* ladder, retention pruning, and a process that crashes and recovers.     *)
(*                                                                         *)
(* The store holds one database connection, so each statement, and each    *)
(* transaction, is one atomic step; handlers, worker, maintenance loop and *)
(* the disk interleave between them.  Sending to the provider happens      *)
(* outside every transaction.                                              *)
(***************************************************************************)
EXTENDS Integers, FiniteSets

CONSTANTS
  Subs,         \* submission ids; each names one request (a fresh UUID)
  MetaOnly,     \* those from endpoints with log_failed_submissions = false
  Nobody,       \* "the worker holds no entry"
  MaxAttempts,  \* background failures before dead-letter
  Backoff,      \* Backoff[n]: ticks until the try after the n-th failure
  BatchSize,    \* entries one poll may claim
  Lag,          \* bound: how far past due a row's time is distinguished
  MaxCrashes,   \* bound: crashes of the process
  MaxFaults     \* bound: outages of the disk

ASSUME SubsAssumption == MetaOnly \subseteq Subs /\ Nobody \notin Subs
ASSUME LadderAssumption ==
  /\ MaxAttempts \in Nat \ {0}
  /\ Backoff \in [0 .. MaxAttempts - 1 -> Nat]
ASSUME BoundsAssumption ==
  BatchSize \in Nat \ {0} /\ Lag \in Nat /\ MaxCrashes \in Nat /\ MaxFaults \in Nat

VARIABLES
  \* the database
  status,     \* submissions.status; "none" before the row, "pruned" after it
  lastErr,    \* submissions.last_error, by class
  queue,      \* the submissions with a retry_queue row
  attempt,    \* retry_queue.attempt
  due,        \* retry_queue.next_attempt_at, in ticks from now
  \* the process and its disk
  proc,       \* "up", "recovering" (between the two statements), "down"
  healthy,    \* Gate.healthy
  diskOk,     \* would a write succeed now?
  \* the request handler of each submission
  pc, persisted, err, reply,
  \* the worker: rows selected, rows claimed, the entry being sent, its result
  selected, claimed, current, result,
  \* history
  accepted,   \* times the provider took the message (counted to 2)
  tries,      \* background sends (counted to MaxAttempts + 1)
  lostAck,    \* submissions whose acceptance was reported as an error
  crashes, faults

database == <<status, lastErr, queue, attempt, due>>
handler  == <<pc, persisted, err, reply>>
worker   == <<selected, claimed, current, result>>
process  == <<proc, healthy, diskOk>>
budget   == <<crashes, faults>>
history  == <<accepted, tries, lostAck, budget>>
vars     == <<database, handler, worker, process, history>>

Settled  == {"sent", "failed", "suppressed"}
Pending  == {"sending", "queued"}
Statuses == Settled \cup Pending \cup {"none", "pruned"}
Classes  == {"retryable", "terminal"}   \* IsRetryable(err), or not
Stages   == {"idle", "try1", "try2", "accepted", "refused", "giveup", "reply", "done"}
Replies  == {"none", "ok", "queued", "failed", "suppressed"}

Smaller(a, b) == IF a < b THEN a ELSE b
HasRow(s)     == status[s] \notin {"none", "pruned"}
Queueable(s)  == persisted[s] /\ s \notin MetaOnly

Init ==
  /\ status = [s \in Subs |-> "none"] /\ lastErr = [s \in Subs |-> "none"]
  /\ queue = {} /\ attempt = [s \in Subs |-> 0] /\ due = [s \in Subs |-> 0]
  /\ proc = "up" /\ healthy = TRUE /\ diskOk = TRUE
  /\ pc = [s \in Subs |-> "idle"] /\ persisted = [s \in Subs |-> FALSE]
  /\ err = [s \in Subs |-> "none"] /\ reply = [s \in Subs |-> "none"]
  /\ selected = {} /\ claimed = {} /\ current = Nobody /\ result = "none"
  /\ accepted = [s \in Subs |-> 0] /\ tries = [s \in Subs |-> 0]
  /\ lostAck = {} /\ crashes = 0 /\ faults = 0

-----------------------------------------------------------------------------
(* Statements of the store.  An UPDATE of a row that is gone changes       *)
(* nothing; removing a queue row forgets its ladder position.              *)

\* Mutant: the two columns of the UPDATE swapped.
SetStatus_Swapped(s, v, e) ==
  status' = [status EXCEPT ![s] = e] /\ lastErr' = [lastErr EXCEPT ![s] = v]

SetStatus(s, v, e) ==
  IF HasRow(s)
  THEN /\ status' = [status EXCEPT ![s] = v]
       /\ lastErr' = [lastErr EXCEPT ![s] = e]
  ELSE UNCHANGED <<status, lastErr>>

DropRows(S) ==
  /\ queue' = queue \ S
  /\ attempt' = [s \in Subs |-> IF s \in S THEN 0 ELSE attempt[s]]
  /\ due' = [s \in Subs |-> IF s \in S THEN 0 ELSE due[s]]

\* INSERT ... ON CONFLICT DO NOTHING: a row already there keeps its position.
InsertRows(S, d) ==
  /\ queue' = queue \cup S
  /\ attempt' = [s \in Subs |-> IF s \in S \ queue THEN 0 ELSE attempt[s]]
  /\ due' = [s \in Subs |-> IF s \in S \ queue THEN d ELSE due[s]]

\* Mutant: the transaction forgets to delete the queue row.
MarkSent_KeepsRow(s) == SetStatus(s, "sent", "none") /\ UNCHANGED <<queue, attempt, due>>
\* Mutant: so does this one.
DeadLetter_KeepsRow(s, e) == SetStatus(s, "failed", e) /\ UNCHANGED <<queue, attempt, due>>
\* Mutant: the status is set without a row to be claimed by.
Enqueue_StatusOnly(s) == SetStatus(s, "queued", lastErr[s]) /\ UNCHANGED <<queue, attempt, due>>

MarkSent(s)       == SetStatus(s, "sent", "none") /\ DropRows({s})
DeadLetter(s, e)  == SetStatus(s, "failed", e) /\ DropRows({s})
MarkStatus(s, v, e) == SetStatus(s, v, e) /\ UNCHANGED <<queue, attempt, due>>
Enqueue(s)        == InsertRows({s}, Backoff[0]) /\ SetStatus(s, "queued", lastErr[s])

\* Mutant: gives up one failure early.
RecordRetryFailure_Early(s, e) ==
  IF attempt[s] + 2 >= MaxAttempts
  THEN DeadLetter(s, e)
  ELSE /\ attempt' = [attempt EXCEPT ![s] = @ + 1]
       /\ due' = [due EXCEPT ![s] = Backoff[attempt[s] + 1]]
       /\ SetStatus(s, "queued", e) /\ UNCHANGED queue
\* Mutant: reschedules without counting the failure.
RecordRetryFailure_Uncounted(s, e) ==
  /\ due' = [due EXCEPT ![s] = Backoff[0]]
  /\ SetStatus(s, "queued", e) /\ UNCHANGED <<queue, attempt>>

RecordRetryFailure(s, e) ==
  IF attempt[s] + 1 >= MaxAttempts
  THEN DeadLetter(s, e)
  ELSE /\ attempt' = [attempt EXCEPT ![s] = @ + 1]
       /\ due' = [due EXCEPT ![s] = Backoff[attempt[s] + 1]]
       /\ SetStatus(s, "queued", e)
       /\ UNCHANGED queue

-----------------------------------------------------------------------------
(* The request handler.  Both ingresses run these steps for one            *)
(* submission once the message is built and its recipients known.          *)

Step(s, from, to) ==
  proc = "up" /\ pc[s] = from /\ pc' = [pc EXCEPT ![s] = to]

\* The answer is decided; the handler has no further use for its locals.
Answer(s, from, r) ==
  /\ Step(s, from, "reply") /\ reply' = [reply EXCEPT ![s] = r]
  /\ persisted' = [persisted EXCEPT ![s] = FALSE] /\ err' = [err EXCEPT ![s] = "none"]

\* Every recipient is on the suppression list (seen only while healthy):
\* the submission is logged as such, if the write works, and not sent.
Suppress(s) ==
  /\ healthy /\ Answer(s, "idle", "suppressed")
  /\ IF diskOk
     THEN status' = [status EXCEPT ![s] = "suppressed"] /\ UNCHANGED healthy
     ELSE healthy' = FALSE /\ UNCHANGED status
  /\ UNCHANGED <<lastErr, queue, attempt, due, worker, proc, diskOk, history>>

\* Mutant: the row is queued from the start, to be safe against crashes.
RecordSubmission_Queued(s) ==
  /\ healthy /\ diskOk /\ Step(s, "idle", "try1")
  /\ status' = [status EXCEPT ![s] = "sending"]
  /\ persisted' = [persisted EXCEPT ![s] = TRUE]
  /\ InsertRows({s}, Backoff[0])
  /\ UNCHANGED <<lastErr, err, reply, worker, process, history>>

RecordSubmission(s) ==
  /\ healthy /\ diskOk /\ Step(s, "idle", "try1")
  /\ status' = [status EXCEPT ![s] = "sending"]
  /\ persisted' = [persisted EXCEPT ![s] = TRUE]
  /\ UNCHANGED <<lastErr, queue, attempt, due, err, reply, worker, process, history>>

\* Degraded, or the write fails and degrades the gate: send without a row.
SkipRecord(s) ==
  /\ ~(healthy /\ diskOk) /\ Step(s, "idle", "try1")
  /\ healthy' = FALSE
  /\ UNCHANGED <<database, persisted, err, reply, worker, proc, diskOk, history>>

TakenBy(s) == accepted' = [accepted EXCEPT ![s] = Smaller(@ + 1, 2)]

InlineAccepted(s) ==
  /\ \E stage \in {"try1", "try2"} : Step(s, stage, "accepted")
  /\ TakenBy(s)
  /\ UNCHANGED <<database, persisted, err, reply, worker, process, tries, lostAck, budget>>

\* The provider's verdict, or the loss of it: a message may be taken although
\* the connection then fails, which the transports classify as transient.
Refusal(s, class) ==
  \/ UNCHANGED <<accepted, lostAck>>
  \/ class = "retryable" /\ TakenBy(s) /\ lostAck' = lostAck \cup {s}

\* SendWithRetry: one more try after a retryable error, unless the request's
\* context ends during the backoff.
InlineRefused(s, class) ==
  /\ \/ class = "retryable" /\ Step(s, "try1", "try2")
     \/ \E stage \in {"try1", "try2"} : Step(s, stage, "refused")
  /\ err' = [err EXCEPT ![s] = class]
  /\ Refusal(s, class)
  /\ UNCHANGED <<database, persisted, reply, worker, process, tries, budget>>

FinishSent(s) ==
  /\ Answer(s, "accepted", "ok")
  /\ IF persisted[s] /\ diskOk THEN MarkSent(s) ELSE UNCHANGED database
  /\ healthy' = (healthy /\ (persisted[s] => diskOk))
  /\ UNCHANGED <<worker, proc, diskOk, history>>

EnqueueRefused(s) ==
  /\ Queueable(s) /\ err[s] = "retryable"
  /\ \/ /\ diskOk /\ HasRow(s) /\ Answer(s, "refused", "queued")
        /\ Enqueue(s) /\ UNCHANGED healthy
     \/ /\ ~(diskOk /\ HasRow(s)) /\ Step(s, "refused", "giveup")
        /\ healthy' = FALSE /\ UNCHANGED <<database, persisted, err, reply>>
  /\ UNCHANGED <<worker, proc, diskOk, history>>

\* Mutant: the failure is answered but not recorded.
FinishFailed_Unrecorded(s) ==
  /\ \/ pc[s] = "giveup"
     \/ pc[s] = "refused" /\ ~(Queueable(s) /\ err[s] = "retryable")
  /\ Answer(s, pc[s], "failed")
  /\ UNCHANGED <<database, worker, process, history>>

FinishFailed(s) ==
  /\ \/ pc[s] = "giveup"
     \/ pc[s] = "refused" /\ ~(Queueable(s) /\ err[s] = "retryable")
  /\ Answer(s, pc[s], "failed")
  /\ IF persisted[s] /\ diskOk
     THEN MarkStatus(s, "failed", err[s]) ELSE UNCHANGED database
  /\ healthy' = (healthy /\ (persisted[s] => diskOk))
  /\ UNCHANGED <<worker, proc, diskOk, history>>

\* The response reaches the client; until then a crash can still swallow it.
Reply(s) ==
  /\ Step(s, "reply", "done")
  /\ UNCHANGED <<database, persisted, err, reply, worker, process, history>>

Handler(s) ==
  \/ Suppress(s) \/ RecordSubmission(s) \/ SkipRecord(s)
  \/ InlineAccepted(s) \/ \E class \in Classes : InlineRefused(s, class)
  \/ FinishSent(s) \/ EnqueueRefused(s) \/ FinishFailed(s) \/ Reply(s)

-----------------------------------------------------------------------------
(* The worker.  One goroutine: it selects due rows, claims them one by     *)
(* one, then sends the claimed entries and records each result.  It        *)
(* consults neither the gate nor the status of the rows it selects.        *)

Due == {s \in queue : due[s] <= 0}

SelectDue ==
  /\ proc = "up" /\ selected = {} /\ claimed = {} /\ current = Nobody
  /\ \E S \in SUBSET Due :
       /\ Cardinality(S) = Smaller(BatchSize, Cardinality(Due)) /\ S # {}
       /\ \A s \in S, t \in Due \ S : due[s] <= due[t]
       /\ selected' = S
  /\ UNCHANGED <<database, handler, claimed, current, result, process, history>>

Claim(s) ==
  /\ proc = "up" /\ s \in selected /\ diskOk
  /\ selected' = selected \ {s}
  /\ IF HasRow(s)
     THEN MarkStatus(s, "sending", lastErr[s]) /\ claimed' = claimed \cup {s}
     ELSE DropRows({s}) /\ UNCHANGED <<status, lastErr, claimed>>
  /\ UNCHANGED <<handler, current, result, process, history>>

\* A failing statement ends the claim; what was claimed so far is attempted.
ClaimFails ==
  /\ proc = "up" /\ selected # {} /\ ~diskOk
  /\ selected' = {}
  /\ UNCHANGED <<database, handler, claimed, current, result, process, history>>

WorkerSend(s) ==
  /\ proc = "up" /\ selected = {} /\ current = Nobody /\ s \in claimed
  /\ claimed' = claimed \ {s} /\ current' = s
  /\ tries' = [tries EXCEPT ![s] = Smaller(@ + 1, MaxAttempts + 1)]
  /\ \/ result' = "ok" /\ TakenBy(s) /\ UNCHANGED lostAck
     \/ \E class \in Classes : result' = class /\ Refusal(s, class)
  /\ UNCHANGED <<database, handler, selected, process, budget>>

\* A failed write is only logged: the row keeps its place in the queue.
WorkerRecord ==
  /\ proc = "up" /\ current # Nobody
  /\ current' = Nobody /\ result' = "none"
  /\ IF ~diskOk
     THEN UNCHANGED database
     ELSE \/ result = "ok" /\ MarkSent(current)
          \/ result = "terminal" /\ DeadLetter(current, result)
          \/ /\ result = "retryable"
             /\ IF current \in queue
                THEN RecordRetryFailure(current, result) ELSE UNCHANGED database
  /\ UNCHANGED <<handler, selected, claimed, process, history>>

Worker ==
  \/ SelectDue \/ ClaimFails \/ WorkerRecord
  \/ \E s \in Subs : Claim(s) \/ WorkerSend(s)

-----------------------------------------------------------------------------
(* The maintenance loop. *)

Probe ==
  /\ proc = "up"
  /\ healthy' = diskOk
  /\ UNCHANGED <<database, handler, worker, proc, diskOk, history>>

\* Mutant: age alone decides.
Prune_Pending ==
  /\ proc = "up" /\ healthy /\ diskOk
  /\ \E S \in SUBSET {s \in Subs : HasRow(s)} \ {{}} :
       /\ status' = [s \in Subs |-> IF s \in S THEN "pruned" ELSE status[s]]
       /\ lastErr' = [s \in Subs |-> IF s \in S THEN "none" ELSE lastErr[s]]
       /\ DropRows(S)
  /\ UNCHANGED <<handler, worker, process, history>>

\* The rows past retention are any settled ones; their queue rows, if any,
\* go with them (foreign key cascade).
Prune ==
  /\ proc = "up" /\ healthy /\ diskOk
  /\ \E S \in SUBSET {s \in Subs : status[s] \in Settled} \ {{}} :
       /\ status' = [s \in Subs |-> IF s \in S THEN "pruned" ELSE status[s]]
       /\ lastErr' = [s \in Subs |-> IF s \in S THEN "none" ELSE lastErr[s]]
       /\ DropRows(S)
  /\ UNCHANGED <<handler, worker, process, history>>

-----------------------------------------------------------------------------
(* The process, its disk and the clock. *)

\* Handlers and worker die where they are; their clients get no answer.
Crash ==
  /\ proc # "down" /\ crashes < MaxCrashes
  /\ crashes' = crashes + 1 /\ proc' = "down"
  /\ LET cut == {s \in Subs : pc[s] \notin {"idle", "done"}} IN
       /\ pc' = [s \in Subs |-> IF s \in cut THEN "done" ELSE pc[s]]
       /\ reply' = [s \in Subs |-> IF s \in cut THEN "none" ELSE reply[s]]
  /\ persisted' = [s \in Subs |-> FALSE] /\ err' = [s \in Subs |-> "none"]
  /\ selected' = {} /\ claimed' = {} /\ current' = Nobody /\ result' = "none"
  /\ UNCHANGED <<database, healthy, diskOk, accepted, tries, lostAck, faults>>

\* Mutant: the SELECT lost its WHERE clause.
RecoverInsert_All ==
  /\ proc = "down" /\ diskOk
  /\ InsertRows({s \in Subs : HasRow(s)}, -Lag)
  /\ proc' = "recovering"
  /\ UNCHANGED <<status, lastErr, handler, worker, healthy, diskOk, history>>

\* recoverInFlight, first statement.  next_attempt_at = 0: as overdue as can be.
RecoverInsert ==
  /\ proc = "down" /\ diskOk
  /\ InsertRows({s \in Subs : status[s] = "sending"}, -Lag)
  /\ proc' = "recovering"
  /\ UNCHANGED <<status, lastErr, handler, worker, healthy, diskOk, history>>

\* Second statement; the gate of the new process starts healthy.
RecoverUpdate ==
  /\ proc = "recovering"
  /\ IF diskOk
     THEN /\ status' = [s \in Subs |-> IF status[s] = "sending" THEN "queued" ELSE status[s]]
          /\ proc' = "up" /\ healthy' = TRUE
     ELSE proc' = "down" /\ UNCHANGED <<status, healthy>>
  /\ UNCHANGED <<lastErr, queue, attempt, due, handler, worker, diskOk, history>>

DiskFails ==
  /\ diskOk /\ faults < MaxFaults
  /\ diskOk' = FALSE /\ faults' = faults + 1
  /\ UNCHANGED <<database, handler, worker, proc, healthy, accepted, tries, lostAck, crashes>>

DiskRecovers ==
  /\ ~diskOk /\ diskOk' = TRUE
  /\ UNCHANGED <<database, handler, worker, proc, healthy, history>>

Tick ==
  /\ \E s \in queue : due[s] > -Lag
  /\ due' = [s \in Subs |-> IF s \in queue /\ due[s] > -Lag THEN due[s] - 1 ELSE due[s]]
  /\ UNCHANGED <<status, lastErr, queue, attempt, handler, worker, process, history>>

Next ==
  \/ \E s \in Subs : Handler(s)
  \/ Worker \/ Probe \/ Prune
  \/ Crash \/ RecoverInsert \/ RecoverUpdate
  \/ DiskFails \/ DiskRecovers \/ Tick

Spec == Init /\ [][Next]_vars

(***************************************************************************)
(* The worker goroutine keeps polling, time passes, a started request runs *)
(* to its end, and an outage of the disk or of the process ends.           *)
(***************************************************************************)
Fairness ==
  /\ WF_vars(Worker) /\ WF_vars(Tick) /\ WF_vars(DiskRecovers)
  /\ WF_vars(RecoverInsert) /\ WF_vars(RecoverUpdate)
  /\ \A s \in Subs : WF_vars(pc[s] # "idle" /\ Handler(s))

FairSpec == Spec /\ Fairness
-----------------------------------------------------------------------------
(* Correctness. *)

\* Types of the variables.
TypeOK ==
  /\ status \in [Subs -> Statuses] /\ lastErr \in [Subs -> Classes \cup {"none"}]
  /\ queue \subseteq Subs
  /\ attempt \in [Subs -> 0 .. MaxAttempts - 1] /\ due \in [Subs -> Int]
  /\ proc \in {"up", "recovering", "down"} /\ healthy \in BOOLEAN /\ diskOk \in BOOLEAN
  /\ pc \in [Subs -> Stages] /\ persisted \in [Subs -> BOOLEAN]
  /\ err \in [Subs -> Classes \cup {"none"}] /\ reply \in [Subs -> Replies]
  /\ selected \subseteq Subs /\ claimed \subseteq Subs
  /\ current \in Subs \cup {Nobody} /\ result \in Classes \cup {"ok", "none"}
  /\ accepted \in [Subs -> 0 .. 2] /\ tries \in [Subs -> 0 .. MaxAttempts + 1]
  /\ lostAck \subseteq Subs /\ crashes \in Nat /\ faults \in Nat

Inline(s)     == pc[s] \in {"try1", "try2", "accepted", "refused", "giveup"}
WithWorker(s) == s \in selected \cup claimed \/ s = current
Told(s, r)    == pc[s] = "done" /\ reply[s] = r

\* A submission is never in the hands of its request handler and of the
\* worker at once: the handler owns it until Enqueue commits.  The worker
\* selects by queue row alone (queue.go, ClaimDue), so this rests on no row
\* existing earlier, across crashes and recovery.
SingleSender == \A s \in Subs : Inline(s) => s \notin queue /\ ~WithWorker(s)

\* The two tables agree: a queue row belongs to a submission still pending,
\* and a submission shown as "queued" has the row that will get it sent.  No
\* foreign key or trigger says so; every transaction has to keep it, also
\* between the two separate statements of recoverInFlight.
TablesAgree ==
  /\ \A s \in queue : status[s] \in Pending
  /\ \A s \in Subs : status[s] = "queued" => s \in queue

\* Mail acknowledged as queued (202, or 250 on SMTP) is never lost: it is in
\* the queue until it is sent or dead-lettered, whatever crashes or outages
\* of the disk come in between.  (That only settled rows are pruned is part of
\* LogSpec.)
AcknowledgedKept ==
  \A s \in Subs : Told(s, "queued") => s \in queue \/ status[s] \in {"sent", "failed", "pruned"}

\* Mail acknowledged as queued and given up on transient errors alone has had
\* every try of the retry ladder, also when crashes reset nothing but time.
FullLadder ==
  \A s \in Subs :
    Told(s, "queued") /\ status[s] = "failed" /\ lastErr[s] = "retryable"
      => tries[s] >= MaxAttempts

\* Without a crash, a disk outage or a lost provider answer a message is taken
\* at most once, and the worker tries it at most MaxAttempts times: no
\* interleaving of handler, worker, probe and pruning duplicates mail.
CleanRunSendsOnce ==
  crashes = 0 /\ faults = 0 =>
    \A s \in Subs : /\ accepted[s] = 2 => s \in lostAck
                    /\ tries[s] <= MaxAttempts

\* With a working disk, mail refused with 502 (451 on SMTP) is not sent
\* afterwards, even by the recovery of a later crash: the client is free to
\* send it again.
RefusalIsFinal ==
  \A s \in Subs : faults = 0 /\ Told(s, "failed") => s \notin queue /\ status[s] # "sending"

\* A settled row only ever disappears: nothing puts sent, failed or
\* suppressed mail back to work, although ClaimDue and Enqueue overwrite the
\* status they find.
SettledStaysSettled ==
  [][\A s \in Subs : status[s] \in Settled => status'[s] \in {status[s], "pruned"}]_vars

\* Queued mail is settled in the end, whatever the provider answers.
QueuedSettles ==
  \A s \in Subs : status[s] = "queued" ~> status[s] \in {"sent", "failed", "pruned"}

\* -- Why the safety properties hold: the inductive invariant. --

\* Who owns a submission: a request not yet begun has left no trace; a running
\* handler is the only one to know its submission, whose row (if it has one)
\* is "sending"; whatever the worker holds is in the queue.
Ownership(s) ==
  /\ pc[s] = "idle" => status[s] = "none" /\ reply[s] = "none" /\ ~persisted[s]
  /\ Inline(s) => /\ s \notin queue /\ reply[s] = "none"
                  /\ status[s] = IF persisted[s] THEN "sending" ELSE "none"
  /\ WithWorker(s) => s \in queue

\* The worker takes its entries from one stage to the next, one at a time.
WorkerTurns ==
  /\ selected \cap claimed = {}
  /\ current # Nobody => selected = {} /\ current \notin claimed /\ result # "none"

\* The word given to the client, from the moment it is decided on.
WordKept(s) ==
  /\ reply[s] = "queued" => s \in queue \/ status[s] \in {"sent", "failed", "pruned"}
  /\ reply[s] = "failed" /\ faults = 0 => status[s] \notin Pending

\* Each failure counted on the ladder was a try; the try being recorded is not
\* counted yet.
TriesCounted(s) ==
  /\ s \in queue => attempt[s] <= tries[s]
  /\ s = current => attempt[s] < tries[s]
  /\ reply[s] = "queued" /\ status[s] = "failed" /\ lastErr[s] = "retryable"
       => tries[s] >= MaxAttempts

\* A process that is not up runs no handler and no worker; between the two
\* statements of recovery every "sending" row has its queue row.
AtRest ==
  /\ proc # "up" => /\ selected = {} /\ claimed = {} /\ current = Nobody
                    /\ \A s \in Subs : pc[s] \in {"idle", "done"}
  /\ proc = "recovering" => \A s \in Subs : status[s] = "sending" => s \in queue
  /\ faults = 0 => diskOk

\* The strengthening of the safety properties that every step preserves.
IInv ==
  /\ TypeOK /\ TablesAgree /\ WorkerTurns /\ AtRest
  /\ \A s \in Subs : Ownership(s) /\ WordKept(s) /\ TriesCounted(s)

\* The tries of a queued submission are its counted failures and the try under
\* way, and a message not yet sent, as its handler or its queue row knows, has
\* not been taken.
Counted(s) ==
  /\ pc[s] = "idle" \/ Inline(s) => tries[s] = 0
  /\ s \in queue => tries[s] = attempt[s] + (IF s = current THEN 1 ELSE 0)
  /\ tries[s] <= MaxAttempts
  /\ s \notin lostAck =>
       /\ accepted[s] <= 1
       /\ pc[s] \in {"idle", "try1", "try2", "refused", "giveup"} => accepted[s] = 0
       /\ s \in queue /\ ~(s = current /\ result = "ok") => accepted[s] = 0

\* That is so as long as nothing has failed.
CountInv ==
  /\ crashes = 0 => proc = "up"
  /\ crashes = 0 /\ faults = 0 => \A s \in Subs : Counted(s)

\* -- A claim of the repository's documentation that the code does not keep. --

\* "Duplicates are rare and bounded to crashes" (storage.mdx): without a crash
\* only a lost answer of the provider can make it take a message twice.
DuplicatesNeedCrash ==
  \A s \in Subs : accepted[s] = 2 => crashes > 0 \/ s \in lostAck

\* The whole of it implements module SubmissionLog: the two tables together
\* behave as one record per submission that is settled once.
Log == INSTANCE SubmissionLog
         WITH fate <- [s \in Subs |-> IF status[s] \in Pending THEN "pending" ELSE status[s]],
              told <- [s \in Subs |-> IF pc[s] = "done" THEN reply[s] ELSE "none"]
LogSpec     == Log!Spec
\* ... and mail whose client was told "queued" is settled in the end.
LogFairSpec == Log!FairSpec
=============================================================================
