--------------------------- MODULE MailQueueProofs ---------------------------
(***************************************************************************)
(* Proofs about MailQueue, for every set of submissions, ladder length,    *)
(* backoff, batch size and number of crashes and outages.                  *)
(***************************************************************************)
EXTENDS MailQueue, TLAPS

\* The groups of variables, for steps that leave a whole group alone.
LEMMA TypeOfDatabase ==
  ASSUME TypeOK, UNCHANGED database
  PROVE  /\ status' \in [Subs -> Statuses] /\ lastErr' \in [Subs -> Classes \cup {"none"}]
         /\ queue' \subseteq Subs
         /\ attempt' \in [Subs -> 0 .. MaxAttempts - 1] /\ due' \in [Subs -> Int]
  BY DEF TypeOK, database

LEMMA TypeOfSetStatus ==
  ASSUME TypeOK, NEW s \in Subs, NEW v \in Statuses, NEW e \in Classes \cup {"none"},
         SetStatus(s, v, e)
  PROVE  status' \in [Subs -> Statuses] /\ lastErr' \in [Subs -> Classes \cup {"none"}]
  BY DEF TypeOK, SetStatus

LEMMA TypeOfDropRows ==
  ASSUME TypeOK, NEW S \in SUBSET Subs, DropRows(S)
  PROVE  /\ queue' \subseteq Subs
         /\ attempt' \in [Subs -> 0 .. MaxAttempts - 1] /\ due' \in [Subs -> Int]
  BY LadderAssumption DEF TypeOK, DropRows

LEMMA TypeOfInsertRows ==
  ASSUME TypeOK, NEW S \in SUBSET Subs, NEW d \in Int, InsertRows(S, d)
  PROVE  /\ queue' \subseteq Subs
         /\ attempt' \in [Subs -> 0 .. MaxAttempts - 1] /\ due' \in [Subs -> Int]
  BY LadderAssumption DEF TypeOK, InsertRows

LEMMA TypeOfRecordRetryFailure ==
  ASSUME TypeOK, NEW s \in Subs, NEW e \in Classes, RecordRetryFailure(s, e)
  PROVE  /\ status' \in [Subs -> Statuses] /\ lastErr' \in [Subs -> Classes \cup {"none"}]
         /\ queue' \subseteq Subs
         /\ attempt' \in [Subs -> 0 .. MaxAttempts - 1] /\ due' \in [Subs -> Int]
<1>1. "failed" \in Statuses /\ "queued" \in Statuses
  BY DEF Statuses, Settled, Pending
<1>2. CASE attempt[s] + 1 >= MaxAttempts
  BY <1>1, <1>2, TypeOfSetStatus, TypeOfDropRows DEF RecordRetryFailure, DeadLetter
<1>3. CASE ~(attempt[s] + 1 >= MaxAttempts)
  <2>1. attempt[s] + 1 \in 0 .. MaxAttempts - 1
    BY <1>3, LadderAssumption, SMTT(20) DEF TypeOK
  <2>2. Backoff[attempt[s] + 1] \in Int
    BY <2>1, LadderAssumption
  <2>3. SetStatus(s, "queued", e)
    BY <1>3 DEF RecordRetryFailure
  <2>4. status' \in [Subs -> Statuses] /\ lastErr' \in [Subs -> Classes \cup {"none"}]
    BY <1>1, <2>3, TypeOfSetStatus
  <2>5. QED
    BY <1>3, <2>1, <2>2, <2>4 DEF RecordRetryFailure, TypeOK
<1>4. QED
  BY <1>2, <1>3

-----------------------------------------------------------------------------
(* Type correctness. *)

LEMMA TypeOfHandler == ASSUME TypeOK, NEW s \in Subs, Handler(s) PROVE TypeOK'
<1> USE DEF TypeOK, handler, worker, process, history, budget
<1>0. /\ "sent" \in Statuses /\ "failed" \in Statuses /\ "suppressed" \in Statuses
      /\ "queued" \in Statuses /\ "sending" \in Statuses
  BY DEF Statuses, Settled, Pending
<1>1. CASE Suppress(s)
  BY <1>0, <1>1 DEF Suppress, Answer, Step, Stages, Replies
<1>2. CASE RecordSubmission(s)
  BY <1>0, <1>2 DEF RecordSubmission, Step, Stages
<1>3. CASE SkipRecord(s)
  BY <1>3, TypeOfDatabase DEF SkipRecord, Step, Stages
<1>4. CASE InlineAccepted(s)
  BY <1>4, TypeOfDatabase DEF InlineAccepted, Step, Stages, TakenBy, Smaller
<1>5. ASSUME NEW class \in Classes, InlineRefused(s, class) PROVE TypeOK'
  BY <1>5, TypeOfDatabase DEF InlineRefused, Refusal, Step, Stages, TakenBy, Smaller
<1>6. CASE FinishSent(s)
  <2>1. CASE persisted[s] /\ diskOk
    <3>1. SetStatus(s, "sent", "none") /\ DropRows({s})
      BY <1>6, <2>1 DEF FinishSent, MarkSent
    <3>2. QED
      BY <1>0, <1>6, <2>1, <3>1, TypeOfSetStatus, TypeOfDropRows
      DEF FinishSent, Answer, Step, Stages, Replies
  <2>2. CASE ~(persisted[s] /\ diskOk)
    BY <1>6, <2>2, TypeOfDatabase DEF FinishSent, Answer, Step, Stages, Replies
  <2>3. QED BY <2>1, <2>2
<1>7. CASE EnqueueRefused(s)
  <2>1. CASE diskOk /\ HasRow(s)
    <3>1. InsertRows({s}, Backoff[0]) /\ SetStatus(s, "queued", lastErr[s])
      BY <1>7, <2>1 DEF EnqueueRefused, Enqueue
    <3>2. Backoff[0] \in Int /\ lastErr[s] \in Classes \cup {"none"}
      BY LadderAssumption
    <3>3. status' \in [Subs -> Statuses] /\ lastErr' \in [Subs -> Classes \cup {"none"}]
      BY <1>0, <3>1, <3>2, TypeOfSetStatus
    <3>4. /\ queue' \subseteq Subs
          /\ attempt' \in [Subs -> 0 .. MaxAttempts - 1] /\ due' \in [Subs -> Int]
      BY <3>1, <3>2, TypeOfInsertRows
    <3>5. QED
      BY <1>7, <2>1, <3>3, <3>4 DEF EnqueueRefused, Answer, Step, Stages, Replies
  <2>2. CASE ~(diskOk /\ HasRow(s))
    BY <1>7, <2>2, TypeOfDatabase DEF EnqueueRefused, Step, Stages
  <2>3. QED BY <2>1, <2>2
<1>8. CASE FinishFailed(s)
  <2>1. CASE persisted[s] /\ diskOk
    <3>1. SetStatus(s, "failed", err[s]) /\ UNCHANGED <<queue, attempt, due>>
      BY <1>8, <2>1 DEF FinishFailed, MarkStatus
    <3>2. err[s] \in Classes \cup {"none"}
      OBVIOUS
    <3>3. QED
      BY <1>0, <1>8, <2>1, <3>1, <3>2, TypeOfSetStatus
      DEF FinishFailed, Answer, Step, Stages, Replies
  <2>2. CASE ~(persisted[s] /\ diskOk)
    BY <1>8, <2>2, TypeOfDatabase DEF FinishFailed, Answer, Step, Stages, Replies
  <2>3. QED BY <2>1, <2>2
<1>9. CASE Reply(s)
  BY <1>9, TypeOfDatabase DEF Reply, Step, Stages
<1>10. QED
  BY <1>1, <1>2, <1>3, <1>4, <1>5, <1>6, <1>7, <1>8, <1>9 DEF Handler

LEMMA TypeOfWorker == ASSUME TypeOK, Worker PROVE TypeOK'
<1> USE DEF TypeOK, handler, worker, process, history, budget
<1>0. "sent" \in Statuses /\ "failed" \in Statuses /\ "sending" \in Statuses
  BY DEF Statuses, Settled, Pending
<1>1. CASE SelectDue
  BY <1>1, TypeOfDatabase DEF SelectDue, Due
<1>2. CASE ClaimFails
  BY <1>2, TypeOfDatabase DEF ClaimFails
<1>3. ASSUME NEW s \in Subs, Claim(s) PROVE TypeOK'
  <2>1. CASE HasRow(s)
    <3>1. SetStatus(s, "sending", lastErr[s]) /\ UNCHANGED <<queue, attempt, due>>
      BY <1>3, <2>1 DEF Claim, MarkStatus
    <3>2. QED
      BY <1>0, <1>3, <2>1, <3>1, TypeOfSetStatus DEF Claim
  <2>2. CASE ~HasRow(s)
    <3>1. DropRows({s}) /\ UNCHANGED <<status, lastErr, claimed>>
      BY <1>3, <2>2 DEF Claim
    <3>2. QED
      BY <1>3, <3>1, TypeOfDropRows DEF Claim
  <2>3. QED BY <2>1, <2>2
<1>4. ASSUME NEW s \in Subs, WorkerSend(s) PROVE TypeOK'
  <2>1. tries' \in [Subs -> 0 .. MaxAttempts + 1]
    BY <1>4, LadderAssumption DEF WorkerSend, Smaller
  <2>2. TakenBy(s) => accepted' \in [Subs -> 0 .. 2]
    BY DEF TakenBy, Smaller
  <2>3. accepted' \in [Subs -> 0 .. 2] /\ lostAck' \subseteq Subs
    BY <1>4, <2>2 DEF WorkerSend, Refusal
  <2>4. result' \in Classes \cup {"ok", "none"}
    BY <1>4 DEF WorkerSend
  <2>5. QED
    BY <1>4, <2>1, <2>3, <2>4, TypeOfDatabase DEF WorkerSend
<1>5. CASE WorkerRecord
  <2>0. current \in Subs
    BY <1>5 DEF WorkerRecord
  <2>1. CASE UNCHANGED database
    BY <1>5, <2>1, TypeOfDatabase DEF WorkerRecord
  <2>2. CASE MarkSent(current)
    BY <1>0, <1>5, <2>0, <2>2, TypeOfSetStatus, TypeOfDropRows DEF WorkerRecord, MarkSent
  <2>3. CASE result = "terminal" /\ DeadLetter(current, result)
    <3>1. result \in Classes
      BY <2>3 DEF Classes
    <3>2. SetStatus(current, "failed", result) /\ DropRows({current})
      BY <2>3 DEF DeadLetter
    <3>3. /\ status' \in [Subs -> Statuses] /\ lastErr' \in [Subs -> Classes \cup {"none"}]
      BY <1>0, <2>0, <3>1, <3>2, TypeOfSetStatus
    <3>4. QED
      BY <1>5, <2>0, <3>2, <3>3, TypeOfDropRows DEF WorkerRecord
  <2>4. CASE result = "retryable" /\ RecordRetryFailure(current, result)
    <3>1. result \in Classes
      BY <2>4 DEF Classes
    <3>2. QED
      BY <1>5, <2>0, <2>4, <3>1, TypeOfRecordRetryFailure DEF WorkerRecord
  <2>5. QED
    BY <1>5, <2>1, <2>2, <2>3, <2>4 DEF WorkerRecord
<1>6. QED
  BY <1>1, <1>2, <1>3, <1>4, <1>5 DEF Worker

\* Every variable keeps to its type in every reachable state.
THEOREM TypeCorrect == Spec => []TypeOK
<1>1. Init => TypeOK
  BY LadderAssumption DEF Init, TypeOK, Statuses, Stages, Replies
<1>2. ASSUME TypeOK, [Next]_vars PROVE TypeOK'
  <2> USE DEF TypeOK, handler, worker, process, history, budget
  <2>0. "queued" \in Statuses /\ "pruned" \in Statuses
    BY DEF Statuses, Pending
  <2>1. ASSUME NEW s \in Subs, Handler(s) PROVE TypeOK'
    BY <1>2, <2>1, TypeOfHandler
  <2>2. CASE Worker
    BY <1>2, <2>2, TypeOfWorker
  <2>3. CASE Probe
    BY <1>2, <2>3, TypeOfDatabase DEF Probe
  <2>4. CASE Prune
    <3>1. PICK S \in SUBSET Subs :
            /\ status' = [s \in Subs |-> IF s \in S THEN "pruned" ELSE status[s]]
            /\ lastErr' = [s \in Subs |-> IF s \in S THEN "none" ELSE lastErr[s]]
            /\ DropRows(S)
      BY <2>4 DEF Prune
    <3>2. QED
      BY <1>2, <2>0, <2>4, <3>1, TypeOfDropRows DEF Prune
  <2>5. CASE Crash
    BY <1>2, <2>5, TypeOfDatabase DEF Crash, Stages, Replies
  <2>6. CASE RecoverInsert
    <3>1. -Lag \in Int
      BY BoundsAssumption
    <3>2. PICK S \in SUBSET Subs : InsertRows(S, -Lag)
      BY <2>6 DEF RecoverInsert
    <3>3. QED
      BY <1>2, <2>6, <3>1, <3>2, TypeOfInsertRows DEF RecoverInsert
  <2>7. CASE RecoverUpdate
    BY <1>2, <2>0, <2>7 DEF RecoverUpdate
  <2>8. CASE DiskFails
    <3>1. faults' = faults + 1 /\ UNCHANGED database
      BY <2>8 DEF DiskFails
    <3>2. faults' \in Nat
      BY <1>2, <3>1
    <3>3. QED
      BY <1>2, <2>8, <3>1, <3>2, TypeOfDatabase DEF DiskFails
  <2>9. CASE DiskRecovers
    BY <1>2, <2>9, TypeOfDatabase DEF DiskRecovers
  <2>10. CASE Tick
    BY <1>2, <2>10 DEF Tick
  <2>11. CASE UNCHANGED vars
    BY <1>2, <2>11, TypeOfDatabase DEF vars
  <2>12. QED
    BY <1>2, <2>1, <2>2, <2>3, <2>4, <2>5, <2>6, <2>7, <2>8, <2>9, <2>10, <2>11 DEF Next
<1>3. QED
  BY <1>1, <1>2, PTL DEF Spec

-----------------------------------------------------------------------------
(* The inductive invariant. *)

LEMMA InvHandler == ASSUME IInv, TypeOK', NEW t \in Subs, Handler(t) PROVE IInv'
<1> USE DEF IInv, TypeOK, TablesAgree, WorkerTurns, AtRest, Ownership, WordKept, TriesCounted,
            Inline, WithWorker, HasRow, Pending, Settled, Step, Answer,
            handler, worker, process, history, budget
<1>1. CASE Suppress(t)
  <2>1. CASE diskOk
    <3>1. /\ status' = [status EXCEPT ![t] = "suppressed"]
          /\ UNCHANGED <<lastErr, queue, attempt>>
      BY <1>1, <2>1 DEF Suppress
    <3>2. QED
      BY <1>1, <3>1 DEF Suppress
  <2>2. CASE ~diskOk
    <3>1. UNCHANGED <<status, lastErr, queue, attempt>>
      BY <1>1, <2>2 DEF Suppress
    <3>2. QED
      BY <1>1, <3>1 DEF Suppress
  <2>3. QED
    BY <2>1, <2>2
<1>2. CASE RecordSubmission(t)
  BY <1>2 DEF RecordSubmission
<1>3. CASE SkipRecord(t)
  BY <1>3 DEF SkipRecord, database
<1>4. CASE InlineAccepted(t)
  BY <1>4 DEF InlineAccepted, database
<1>5. ASSUME NEW class \in Classes, InlineRefused(t, class) PROVE IInv'
  BY <1>5 DEF InlineRefused, database
<1>6. CASE FinishSent(t)
  BY <1>6 DEF FinishSent, MarkSent, SetStatus, DropRows, database
<1>7. CASE EnqueueRefused(t)
  <2>1. CASE diskOk /\ HasRow(t)
    <3>1. /\ Answer(t, "refused", "queued") /\ Queueable(t)
          /\ InsertRows({t}, Backoff[0]) /\ SetStatus(t, "queued", lastErr[t])
          /\ UNCHANGED <<worker, proc, diskOk, history>>
      BY <1>7, <2>1 DEF EnqueueRefused, Enqueue
    <3>2. t \notin queue
      BY <3>1
    <3>3. /\ status' = [status EXCEPT ![t] = "queued"]
          /\ lastErr' = [lastErr EXCEPT ![t] = lastErr[t]]
          /\ queue' = queue \cup {t}
          /\ \A s \in Subs : attempt'[s] = IF s = t THEN 0 ELSE attempt[s]
      BY <2>1, <3>1, <3>2 DEF SetStatus, InsertRows
    <3>4. QED
      BY <3>1, <3>2, <3>3
  <2>2. CASE ~(diskOk /\ HasRow(t))
    <3>1. /\ Step(t, "refused", "giveup")
          /\ UNCHANGED <<database, persisted, reply, worker, proc, diskOk, history>>
      BY <1>7, <2>2 DEF EnqueueRefused
    <3>2. QED
      BY <3>1 DEF database
  <2>3. QED
    BY <2>1, <2>2
<1>8. CASE FinishFailed(t)
  BY <1>8 DEF FinishFailed, MarkStatus, SetStatus, database
<1>9. CASE Reply(t)
  BY <1>9 DEF Reply, database
<1>10. QED
  BY <1>1, <1>2, <1>3, <1>4, <1>5, <1>6, <1>7, <1>8, <1>9 DEF Handler

\* A try more counts, up to the bound on the counter.
LEMMA MoreTries ==
  ASSUME NEW n \in 0 .. MaxAttempts + 1, NEW a \in 0 .. MaxAttempts - 1, a <= n
  PROVE  Smaller(n + 1, MaxAttempts + 1) > a /\ Smaller(n + 1, MaxAttempts + 1) >= n
BY LadderAssumption DEF Smaller

LEMMA InvWorker == ASSUME IInv, TypeOK', Worker PROVE IInv'
<1> USE DEF IInv, TypeOK, TablesAgree, WorkerTurns, AtRest, Ownership, WordKept, TriesCounted,
            Inline, WithWorker, HasRow, Pending, Settled,
            handler, worker, process, history, budget
<1>1. CASE SelectDue
  BY <1>1, SubsAssumption DEF SelectDue, Due, database
<1>2. CASE ClaimFails
  BY <1>2 DEF ClaimFails, database
<1>3. ASSUME NEW t \in Subs, Claim(t) PROVE IInv'
  BY <1>3 DEF Claim, MarkStatus, SetStatus, DropRows
<1>4. ASSUME NEW t \in Subs, WorkerSend(t) PROVE IInv'
  <2>1. t # Nobody /\ current = Nobody /\ t \in queue /\ selected = {}
    BY <1>4, SubsAssumption DEF WorkerSend
  <2>2. /\ UNCHANGED <<database, handler, selected, process, budget>>
        /\ current' = t /\ claimed' = claimed \ {t} /\ result' # "none"
    BY <1>4 DEF WorkerSend, Classes
  <2>3. /\ tries'[t] > attempt[t]
        /\ \A s \in Subs : tries'[s] >= tries[s]
    <3>1. tries' = [tries EXCEPT ![t] = Smaller(@ + 1, MaxAttempts + 1)]
      BY <1>4 DEF WorkerSend
    <3>2. tries[t] \in 0 .. MaxAttempts + 1 /\ attempt[t] \in 0 .. MaxAttempts - 1 /\ attempt[t] <= tries[t]
      BY <2>1
    <3>3. tries'[t] = Smaller(tries[t] + 1, MaxAttempts + 1) /\ \A s \in Subs \ {t} : tries'[s] = tries[s]
      BY <3>1
    <3>4. tries'[t] > attempt[t] /\ tries'[t] >= tries[t]
      BY <3>2, <3>3, MoreTries
    <3>5. \A s \in Subs : tries[s] \in Nat
      BY LadderAssumption
    <3>6. QED
      BY <3>3, <3>4, <3>5
  <2>4. TablesAgree' /\ WorkerTurns' /\ AtRest'
    BY <1>4, <2>1, <2>2 DEF database, WorkerSend
  <2>5. ASSUME NEW s \in Subs PROVE Ownership(s)' /\ WordKept(s)'
    BY <2>1, <2>2 DEF database
  <2>6. ASSUME NEW s \in Subs PROVE TriesCounted(s)'
    BY <2>1, <2>2, <2>3, LadderAssumption DEF database
  <2>7. QED
    BY <2>4, <2>5, <2>6
<1>5. CASE WorkerRecord
  <2>0. /\ current \in Subs /\ current \in queue /\ current # Nobody
        /\ selected = {} /\ current \notin claimed /\ HasRow(current) /\ proc = "up"
    BY <1>5 DEF WorkerRecord
  <2>1. /\ current' = Nobody /\ Nobody \notin Subs
        /\ UNCHANGED <<handler, selected, claimed, process, history>>
    BY <1>5, SubsAssumption DEF WorkerRecord
  <2>2. CASE UNCHANGED database
    BY <2>0, <2>1, <2>2 DEF database
  <2>3. CASE MarkSent(current)
    <3>1. /\ status' = [status EXCEPT ![current] = "sent"]
          /\ lastErr' = [lastErr EXCEPT ![current] = "none"]
          /\ queue' = queue \ {current}
          /\ attempt' = [s \in Subs |-> IF s \in {current} THEN 0 ELSE attempt[s]]
      BY <2>0, <2>3 DEF MarkSent, SetStatus, DropRows
    <3>2. QED
      BY <2>0, <2>1, <3>1
  <2>4. CASE /\ DeadLetter(current, result)
             /\ result = "terminal" \/ attempt[current] + 1 >= MaxAttempts
    <3>1. /\ status' = [status EXCEPT ![current] = "failed"]
          /\ lastErr' = [lastErr EXCEPT ![current] = result]
          /\ queue' = queue \ {current}
          /\ attempt' = [s \in Subs |-> IF s \in {current} THEN 0 ELSE attempt[s]]
      BY <2>0, <2>4 DEF DeadLetter, SetStatus, DropRows
    <3>2. result = "terminal" \/ tries[current] >= MaxAttempts
      BY <2>0, <2>4, LadderAssumption
    <3>3. TablesAgree' /\ WorkerTurns' /\ AtRest'
      BY <2>0, <2>1, <3>1
    <3>4. ASSUME NEW s \in Subs PROVE Ownership(s)' /\ WordKept(s)' /\ TriesCounted(s)'
      BY <2>0, <2>1, <3>1, <3>2
    <3>5. QED
      BY <3>3, <3>4
  <2>5. CASE /\ RecordRetryFailure(current, result)
             /\ ~(attempt[current] + 1 >= MaxAttempts)
    <3>1. /\ status' = [status EXCEPT ![current] = "queued"]
          /\ lastErr' = [lastErr EXCEPT ![current] = result]
          /\ queue' = queue /\ attempt' = [attempt EXCEPT ![current] = @ + 1]
      BY <2>0, <2>5 DEF RecordRetryFailure, SetStatus
    <3>2. attempt'[current] <= tries[current]
      BY <2>0, <3>1, LadderAssumption
    <3>3. TablesAgree' /\ WorkerTurns' /\ AtRest'
      BY <2>0, <2>1, <3>1
    <3>4. ASSUME NEW s \in Subs PROVE Ownership(s)' /\ WordKept(s)' /\ TriesCounted(s)'
      BY <2>0, <2>1, <3>1, <3>2
    <3>5. QED
      BY <3>3, <3>4
  <2>6. QED
    BY <1>5, <2>2, <2>3, <2>4, <2>5 DEF WorkerRecord, RecordRetryFailure
<1>6. QED
  BY <1>1, <1>2, <1>3, <1>4, <1>5 DEF Worker

THEOREM Inductive == Spec => []IInv
<1>1. Init => IInv
  <2>1. Init => TypeOK
    BY LadderAssumption DEF Init, TypeOK, Statuses, Stages, Replies
  <2>2. QED
    BY <2>1, SubsAssumption
    DEF Init, IInv, TablesAgree, WorkerTurns, AtRest, Ownership, WordKept, TriesCounted,
        Inline, WithWorker, Pending
<1>2. ASSUME TypeOK, TypeOK', IInv, [Next]_vars PROVE IInv'
  <2> USE DEF IInv, TypeOK, TablesAgree, WorkerTurns, AtRest, Ownership, WordKept, TriesCounted,
            Inline, WithWorker, HasRow, Pending, Settled,
            handler, worker, process, history, budget, database
  <2>1. ASSUME NEW s \in Subs, Handler(s) PROVE IInv'
    BY <1>2, <2>1, InvHandler
  <2>2. CASE Worker
    BY <1>2, <2>2, InvWorker
  <2>3. CASE Probe
    BY <1>2, <2>3 DEF Probe
  <2>4. CASE Prune
    BY <1>2, <2>4 DEF Prune, DropRows
  <2>5. CASE Crash
    BY <1>2, <2>5, SubsAssumption DEF Crash
  <2>6. CASE RecoverInsert
    BY <1>2, <2>6, LadderAssumption DEF RecoverInsert, InsertRows
  <2>7. CASE RecoverUpdate
    BY <1>2, <2>7 DEF RecoverUpdate
  <2>8. CASE DiskFails
    BY <1>2, <2>8 DEF DiskFails
  <2>9. CASE DiskRecovers
    BY <1>2, <2>9 DEF DiskRecovers
  <2>10. CASE Tick
    BY <1>2, <2>10 DEF Tick
  <2>11. CASE UNCHANGED vars
    BY <1>2, <2>11 DEF vars
  <2>12. QED
    BY <1>2, <2>1, <2>2, <2>3, <2>4, <2>5, <2>6, <2>7, <2>8, <2>9, <2>10, <2>11 DEF Next
<1>3. QED
  BY <1>1, <1>2, TypeCorrect, PTL DEF Spec

-----------------------------------------------------------------------------
(* What follows. *)

\* The tables agree in every reachable state, also in the middle of recovery.
THEOREM TablesAlwaysAgree == Spec => []TablesAgree
<1>1. IInv => TablesAgree
  BY DEF IInv
<1>2. QED
  BY <1>1, Inductive, PTL

\* Handler and worker never both have a submission in hand.
THEOREM OneSender == Spec => []SingleSender
<1>1. IInv => SingleSender
  BY DEF IInv, Ownership, SingleSender
<1>2. QED
  BY <1>1, Inductive, PTL

\* Mail answered with "queued" is never lost, whatever crashes and outages occur.
THEOREM QueuedMailKept == Spec => []AcknowledgedKept
<1>1. IInv => AcknowledgedKept
  BY DEF IInv, WordKept, AcknowledgedKept, Told
<1>2. QED
  BY <1>1, Inductive, PTL

\* Queued mail given up on transient errors had at least MaxAttempts tries.
THEOREM LadderClimbed == Spec => []FullLadder
<1>1. IInv => FullLadder
  BY DEF IInv, TriesCounted, FullLadder, Told
<1>2. QED
  BY <1>1, Inductive, PTL

\* Mail refused while the disk never failed is not sent afterwards.
THEOREM RefusalsFinal == Spec => []RefusalIsFinal
<1>1. IInv => RefusalIsFinal
  BY DEF IInv, WordKept, TablesAgree, RefusalIsFinal, Told, Pending
<1>2. QED
  BY <1>1, Inductive, PTL

-----------------------------------------------------------------------------
(* Runs in which nothing fails send each message once. *)

LEMMA CountHandler ==
  ASSUME IInv, \A s \in Subs : Counted(s), diskOk, NEW t \in Subs, Handler(t)
  PROVE  \A s \in Subs : Counted(s)'
<1> USE DEF IInv, TypeOK, Ownership, TablesAgree, Counted, Inline, WithWorker, HasRow, Pending,
            Step, Answer, handler, worker, process, history, budget
<1>1. CASE Suppress(t)
  BY <1>1 DEF Suppress
<1>2. CASE RecordSubmission(t)
  BY <1>2 DEF RecordSubmission
<1>3. CASE SkipRecord(t)
  BY <1>3 DEF SkipRecord, database
<1>4. CASE InlineAccepted(t)
  BY <1>4 DEF InlineAccepted, database, TakenBy, Smaller
<1>5. ASSUME NEW class \in Classes, InlineRefused(t, class) PROVE \A s \in Subs : Counted(s)'
  <2>1. /\ UNCHANGED <<database, worker, tries>>
        /\ pc[t] \in {"try1", "try2"} /\ pc' = [pc EXCEPT ![t] = pc'[t]]
        /\ pc'[t] \in {"try2", "refused"}
    BY <1>5 DEF InlineRefused
  <2>2. \/ UNCHANGED <<accepted, lostAck>>
        \/ /\ lostAck' = lostAck \cup {t}
           /\ \A s \in Subs \ {t} : accepted'[s] = accepted[s]
    BY <1>5 DEF InlineRefused, Refusal, TakenBy
  <2>3. QED
    BY <2>1, <2>2 DEF database
<1>6. CASE FinishSent(t)
  <2>1. /\ pc[t] = "accepted" /\ pc' = [pc EXCEPT ![t] = "reply"]
        /\ UNCHANGED <<worker, history>>
    BY <1>6 DEF FinishSent
  <2>2. \/ queue' = queue /\ UNCHANGED attempt
        \/ /\ queue' = queue \ {t}
           /\ \A s \in Subs \ {t} : attempt'[s] = attempt[s]
    BY <1>6 DEF FinishSent, MarkSent, DropRows, database
  <2>3. QED
    BY <2>1, <2>2
<1>7. CASE EnqueueRefused(t)
  <2>1. CASE diskOk /\ HasRow(t)
    <3>1. /\ pc[t] = "refused" /\ pc' = [pc EXCEPT ![t] = "reply"]
          /\ InsertRows({t}, Backoff[0]) /\ UNCHANGED <<worker, history>>
      BY <1>7, <2>1 DEF EnqueueRefused, Enqueue
    <3>2. queue' = queue \cup {t} /\ \A s \in Subs : attempt'[s] = IF s = t THEN 0 ELSE attempt[s]
      BY <3>1 DEF InsertRows
    <3>3. QED
      BY <3>1, <3>2
  <2>2. CASE ~(diskOk /\ HasRow(t))
    <3>1. /\ pc[t] = "refused" /\ pc' = [pc EXCEPT ![t] = "giveup"]
          /\ UNCHANGED <<database, worker, history>>
      BY <1>7, <2>2 DEF EnqueueRefused
    <3>2. QED
      BY <3>1 DEF database
  <2>3. QED
    BY <2>1, <2>2
<1>8. CASE FinishFailed(t)
  BY <1>8 DEF FinishFailed, MarkStatus, database
<1>9. CASE Reply(t)
  BY <1>9 DEF Reply, database
<1>10. QED
  BY <1>1, <1>2, <1>3, <1>4, <1>5, <1>6, <1>7, <1>8, <1>9 DEF Handler

LEMMA CountWorker ==
  ASSUME IInv, \A s \in Subs : Counted(s), diskOk, Worker
  PROVE  \A s \in Subs : Counted(s)'
<1> USE DEF IInv, TypeOK, Ownership, WorkerTurns, TablesAgree, Counted, Inline, WithWorker,
            HasRow, Pending, handler, worker, process, history, budget
<1>1. CASE SelectDue
  BY <1>1 DEF SelectDue, database
<1>2. CASE ClaimFails
  BY <1>2 DEF ClaimFails, database
<1>3. ASSUME NEW t \in Subs, Claim(t) PROVE \A s \in Subs : Counted(s)'
  BY <1>3 DEF Claim, MarkStatus
<1>4. ASSUME NEW t \in Subs, WorkerSend(t) PROVE \A s \in Subs : Counted(s)'
  <2>1. /\ t \in queue /\ t # Nobody /\ current = Nobody /\ current' = t
        /\ UNCHANGED <<database, handler>>
    BY <1>4, SubsAssumption DEF WorkerSend
  <2>2. tries[t] = attempt[t] /\ attempt[t] < MaxAttempts /\ (t \notin lostAck => accepted[t] = 0)
    BY <2>1, LadderAssumption
  <2>3. tries' = [tries EXCEPT ![t] = tries[t] + 1]
    <3>1. tries' = [tries EXCEPT ![t] = Smaller(tries[t] + 1, MaxAttempts + 1)]
      BY <1>4 DEF WorkerSend
    <3>2. Smaller(tries[t] + 1, MaxAttempts + 1) = tries[t] + 1
      BY <2>2, LadderAssumption DEF Smaller
    <3>3. QED
      BY <3>1, <3>2
  <2>4. \/ result' # "ok" /\ UNCHANGED <<accepted, lostAck>>
        \/ result' # "ok" /\ lostAck' = lostAck \cup {t} /\ \A s \in Subs \ {t} : accepted'[s] = accepted[s]
        \/ /\ result' = "ok" /\ UNCHANGED lostAck
           /\ accepted' = [accepted EXCEPT ![t] = Smaller(accepted[t] + 1, 2)]
    BY <1>4 DEF WorkerSend, Refusal, TakenBy, Classes
  <2>5. \A s \in Subs : /\ s \in queue => s # current
                        /\ s \in queue' => s \in queue
                        /\ attempt'[s] = attempt[s] /\ pc'[s] = pc[s]
    BY <2>1, SubsAssumption DEF database
  <2>6. ASSUME NEW s \in Subs
        PROVE  s \notin lostAck' =>
                 /\ accepted'[s] <= 1
                 /\ pc'[s] \in {"idle", "try1", "try2", "refused", "giveup"} => accepted'[s] = 0
                 /\ s \in queue' /\ ~(s = current' /\ result' = "ok") => accepted'[s] = 0
    BY <2>1, <2>2, <2>4, <2>5 DEF Smaller
  <2>7. ASSUME NEW s \in Subs
        PROVE  /\ pc'[s] = "idle" \/ Inline(s)' => tries'[s] = 0
               /\ s \in queue' => tries'[s] = attempt'[s] + (IF s = current' THEN 1 ELSE 0)
               /\ tries'[s] <= MaxAttempts
    BY <2>1, <2>2, <2>3, <2>5, LadderAssumption, SMTT(20)
  <2>8. QED
    BY <2>6, <2>7
<1>5. CASE WorkerRecord
  <2>1. /\ current \in Subs /\ current \in queue /\ current' = Nobody /\ Nobody \notin Subs
        /\ UNCHANGED <<handler, history>>
    BY <1>5, SubsAssumption DEF WorkerRecord
  <2>2. CASE DropRows({current})
    <3>1. queue' = queue \ {current} /\ \A s \in Subs \ {current} : attempt'[s] = attempt[s]
      BY <2>2 DEF DropRows
    <3>2. QED
      BY <2>1, <3>1
  <2>3. CASE result = "retryable" /\ UNCHANGED queue
             /\ attempt' = [attempt EXCEPT ![current] = attempt[current] + 1]
    BY <2>1, <2>3
  <2>4. QED
    BY <1>5, <2>1, <2>2, <2>3
    DEF WorkerRecord, MarkSent, DeadLetter, RecordRetryFailure
<1>6. QED
  BY <1>1, <1>2, <1>3, <1>4, <1>5 DEF Worker

LEMMA Counting == Spec => []CountInv
<1>1. Init => CountInv
  BY LadderAssumption DEF Init, CountInv, Counted, Inline
<1>2. ASSUME IInv, CountInv, [Next]_vars PROVE CountInv'
  <2> SUFFICES ASSUME crashes' = 0 PROVE proc' = "up" /\ (faults' = 0 => \A s \in Subs : Counted(s)')
    BY DEF CountInv
  <2>1. ASSUME NEW t \in Subs, Handler(t) PROVE CountInv'
    <3>1. UNCHANGED <<crashes, faults, proc>>
      BY <2>1 DEF Handler, Suppress, RecordSubmission, SkipRecord, InlineAccepted, InlineRefused,
           FinishSent, EnqueueRefused, FinishFailed, Reply, process, history, budget
    <3>2. QED
      BY <1>2, <2>1, <3>1, CountHandler DEF CountInv, IInv, AtRest
  <2>2. CASE Worker
    <3>1. UNCHANGED <<crashes, faults, proc>>
      BY <2>2 DEF Worker, SelectDue, Claim, ClaimFails, WorkerSend, WorkerRecord, process, history, budget
    <3>2. QED
      BY <1>2, <2>2, <3>1, CountWorker DEF CountInv, IInv, AtRest
  <2>3. CASE Probe \/ DiskFails \/ DiskRecovers \/ Tick \/ UNCHANGED vars
    BY <1>2, <2>3 DEF Probe, DiskFails, DiskRecovers, Tick, vars, database, handler, worker, process,
         history, budget, CountInv, Counted, Inline, IInv, TypeOK
  <2>4. CASE Prune
    BY <1>2, <2>4 DEF Prune, DropRows, handler, worker, process, history, budget,
         CountInv, Counted, Inline, IInv, TypeOK
  <2>5. CASE Crash
    BY <1>2, <2>5 DEF Crash, IInv, TypeOK
  <2>6. CASE RecoverInsert \/ RecoverUpdate
    BY <1>2, <2>6 DEF RecoverInsert, RecoverUpdate, CountInv, history, budget
  <2>7. QED
    BY <1>2, <2>1, <2>2, <2>3, <2>4, <2>5, <2>6 DEF Next, CountInv
<1>3. QED
  BY <1>1, <1>2, Inductive, PTL DEF Spec

\* Without crash, outage or lost answer the provider takes a message at most
\* once, and the worker tries it at most MaxAttempts times.
THEOREM CleanRunsSendOnce == Spec => []CleanRunSendsOnce
<1>1. CountInv => CleanRunSendsOnce
  BY DEF CountInv, Counted, CleanRunSendsOnce
<1>2. QED
  BY <1>1, Counting, PTL

-----------------------------------------------------------------------------
(* Steps over settled rows, and the refinement of SubmissionLog.  A step   *)
(* changes the row of one submission, as one of the moves below, or prunes *)
(* settled rows, or recovers the "sending" ones.                           *)

Fate(s)  == IF status[s] \in Pending THEN "pending" ELSE status[s]
Heard(s) == IF pc[s] = "done" THEN reply[s] ELSE "none"

\* What one step may do to one row.
Move(s) ==
  \/ status'[s] = status[s]
  \/ status[s] = "none" /\ pc[s] = "idle" /\ status'[s] \in {"sending", "suppressed"}
  \/ status[s] \in Pending /\ status'[s] \in Pending \cup {"sent", "failed"}

LEMMA HandlerMoves ==
  ASSUME IInv, NEW t \in Subs, Handler(t)
  PROVE  /\ Move(t)
         /\ \A s \in Subs \ {t} : status'[s] = status[s] /\ pc'[s] = pc[s] /\ reply'[s] = reply[s]
         /\ \/ Heard(t)' = Heard(t)
            \/ Heard(t) = "none" /\ status'[t] = status[t] /\ Heard(t)' = reply[t]
<1> USE DEF IInv, TypeOK, TablesAgree, Ownership, Inline, HasRow, Pending, Settled, Step, Answer,
            Move, Heard, handler, worker, process, history, budget
<1>1. CASE Suppress(t)
  BY <1>1 DEF Suppress
<1>2. CASE RecordSubmission(t)
  BY <1>2 DEF RecordSubmission
<1>3. CASE SkipRecord(t)
  BY <1>3 DEF SkipRecord, database
<1>4. CASE InlineAccepted(t)
  BY <1>4 DEF InlineAccepted, database
<1>5. ASSUME NEW class \in Classes, InlineRefused(t, class)
      PROVE  /\ Move(t)
             /\ \A s \in Subs \ {t} : status'[s] = status[s] /\ pc'[s] = pc[s] /\ reply'[s] = reply[s]
             /\ Heard(t)' = Heard(t)
  BY <1>5 DEF InlineRefused, database
<1>6. CASE FinishSent(t)
  BY <1>6 DEF FinishSent, MarkSent, SetStatus, database
<1>7. CASE EnqueueRefused(t)
  BY <1>7 DEF EnqueueRefused, Enqueue, SetStatus, database
<1>8. CASE FinishFailed(t)
  BY <1>8 DEF FinishFailed, MarkStatus, SetStatus, database
<1>9. CASE Reply(t)
  BY <1>9 DEF Reply, database
<1>10. QED
  BY <1>1, <1>2, <1>3, <1>4, <1>5, <1>6, <1>7, <1>8, <1>9 DEF Handler

LEMMA WorkerMoves ==
  ASSUME IInv, Worker
  PROVE  /\ UNCHANGED <<pc, reply>>
         /\ \/ \A s \in Subs : status'[s] = status[s]
            \/ \E t \in Subs : /\ Move(t)
                             /\ \A s \in Subs \ {t} : status'[s] = status[s]
<1> USE DEF IInv, TypeOK, TablesAgree, Ownership, WithWorker, HasRow, Pending, Move, handler
<1>1. CASE SelectDue
  BY <1>1 DEF SelectDue, database
<1>2. CASE ClaimFails
  BY <1>2 DEF ClaimFails, database
<1>3. ASSUME NEW t \in Subs, Claim(t)
      PROVE  /\ UNCHANGED <<pc, reply>> /\ Move(t)
             /\ \A s \in Subs \ {t} : status'[s] = status[s]
  BY <1>3 DEF Claim, MarkStatus, SetStatus
<1>4. ASSUME NEW t \in Subs, WorkerSend(t) PROVE UNCHANGED <<pc, reply, status>>
  BY <1>4 DEF WorkerSend, database
<1>5. CASE WorkerRecord
  <2>1. current \in Subs /\ current \in queue
    BY <1>5 DEF WorkerRecord
  <2>2. \/ status' = status
        \/ \E v \in {"sent", "failed", "queued"} : status' = [status EXCEPT ![current] = v]
    BY <1>5 DEF WorkerRecord, MarkSent, DeadLetter, RecordRetryFailure, SetStatus, database
  <2>3. QED
    BY <1>5, <2>1, <2>2 DEF WorkerRecord
<1>6. QED
  BY <1>1, <1>2, <1>3, <1>4, <1>5 DEF Worker

\* No step of the system puts a settled row back to work.
THEOREM SettledRowsStaySettled == Spec => SettledStaysSettled
<1>1. ASSUME IInv, [Next]_vars
      PROVE  \A s \in Subs : status[s] \in Settled => status'[s] \in {status[s], "pruned"}
  <2> USE DEF Settled, Pending, Move
  <2>1. ASSUME NEW t \in Subs, Handler(t)
        PROVE  \A s \in Subs : status[s] \in Settled => status'[s] \in {status[s], "pruned"}
    BY <1>1, <2>1, HandlerMoves
  <2>2. CASE Worker
    BY <1>1, <2>2, WorkerMoves
  <2>3. CASE Probe \/ DiskFails \/ DiskRecovers \/ Tick \/ Crash \/ UNCHANGED vars
    BY <2>3 DEF Probe, DiskFails, DiskRecovers, Tick, Crash, vars, database
  <2>4. CASE Prune
    BY <2>4 DEF Prune
  <2>5. CASE RecoverInsert \/ RecoverUpdate
    BY <2>5 DEF RecoverInsert, RecoverUpdate
  <2>6. QED
    BY <1>1, <2>1, <2>2, <2>3, <2>4, <2>5 DEF Next
<1>2. QED
  BY <1>1, Inductive, PTL DEF Spec, SettledStaysSettled

\* A function that differs from another at no argument, or at one.
LEMMA EqualEverywhere ==
  ASSUME NEW S, NEW F, NEW G, F = [s \in S |-> F[s]], G = [s \in S |-> G[s]],
         \A s \in S : G[s] = F[s]
  PROVE  G = F
OBVIOUS

LEMMA EqualElsewhere ==
  ASSUME NEW S, NEW F, NEW G, F = [s \in S |-> F[s]], G = [s \in S |-> G[s]],
         NEW t \in S, \A s \in S \ {t} : G[s] = F[s]
  PROVE  G = [F EXCEPT ![t] = G[t]]
OBVIOUS

\* The tables, the handlers and the worker together implement SubmissionLog.
THEOREM ImplementsLog == Spec => LogSpec
<1> DEFINE f == [s \in Subs |-> IF status[s] \in Pending THEN "pending" ELSE status[s]]
           h == [s \in Subs |-> IF pc[s] = "done" THEN reply[s] ELSE "none"]
<1>1. Init => Log!Init
  BY DEF Init, Log!Init, Pending
<1>2. ASSUME TypeOK, IInv, [Next]_vars PROVE [Log!Next]_<<f, h>>
  <2> USE DEF Pending
  <2>a. /\ f = [s \in Subs |-> f[s]] /\ f' = [s \in Subs |-> f'[s]]
        /\ h = [s \in Subs |-> h[s]] /\ h' = [s \in Subs |-> h'[s]]
    OBVIOUS
  <2>b. /\ (\A s \in Subs : status'[s] = status[s]) => f' = f
        /\ (\A s \in Subs : pc'[s] = pc[s] /\ reply'[s] = reply[s]) => h' = h
    OBVIOUS
  \* The two kinds of step that touch one submission's fate, or its answer.
  <2>c. ASSUME NEW t \in Subs, Move(t), h' = h,
               \A s \in Subs \ {t} : status'[s] = status[s]
        PROVE  [Log!Next]_<<f, h>>
    <3>1. \A s \in Subs \ {t} : f'[s] = f[s]
      BY <2>c
    <3>2. f' = [f EXCEPT ![t] = f'[t]]
      BY <2>a, <3>1, EqualElsewhere
    <3>3. CASE f'[t] = f[t]
      <4>1. f' = f
        BY <2>a, <3>1, <3>3, EqualEverywhere
      <4>2. QED
        BY <4>1, <2>c
    <3>4. CASE f[t] = "none" /\ h[t] = "none" /\ f'[t] \in {"pending", "suppressed"}
      <4>1. Log!Log(t)
        BY <3>2, <3>4, <2>c DEF Log!Log
      <4>2. QED
        BY <4>1 DEF Log!Next
    <3>5. CASE f[t] = "pending" /\ f'[t] \in {"sent", "failed"}
      <4>1. Log!Settle(t)
        BY <3>2, <3>5, <2>c DEF Log!Settle
      <4>2. QED
        BY <4>1 DEF Log!Next
    <3>6. CASE status'[t] = status[t]
      BY <3>3, <3>6
    <3>7. CASE status[t] = "none" /\ pc[t] = "idle" /\ status'[t] \in {"sending", "suppressed"}
      BY <3>4, <3>7
    <3>8. CASE status[t] \in Pending /\ status'[t] \in Pending \cup {"sent", "failed"}
      BY <3>3, <3>5, <3>8
    <3>9. QED
      BY <2>c, <3>6, <3>7, <3>8 DEF Move
  <2>d. ASSUME NEW t \in Subs, f' = f, h[t] = "none",
               \/ h'[t] \in {"none", "ok", "failed", "suppressed"}
               \/ h'[t] = "queued" /\ f[t] # "none",
               \A s \in Subs \ {t} : h'[s] = h[s]
        PROVE  [Log!Next]_<<f, h>>
    <3>0. \A s \in Subs \ {t} : h'[s] = h[s]
      BY <2>d
    <3>1. h' = [h EXCEPT ![t] = h'[t]]
      BY <2>a, <3>0, EqualElsewhere
    <3>2. CASE h'[t] = "none"
      <4>1. h' = h
        BY <2>a, <2>d, <3>2, EqualEverywhere
      <4>2. QED
        BY <4>1, <2>d
    <3>3. CASE h'[t] # "none"
      <4>1. Log!Tell(t)
        BY <2>d, <3>1, <3>3 DEF Log!Tell
      <4>2. QED
        BY <4>1 DEF Log!Next
    <3>4. QED
      BY <3>2, <3>3
  <2>1. ASSUME NEW t \in Subs, Handler(t) PROVE [Log!Next]_<<f, h>>
    <3>1. /\ Move(t)
          /\ \A s \in Subs \ {t} : status'[s] = status[s] /\ pc'[s] = pc[s] /\ reply'[s] = reply[s]
          /\ \/ Heard(t)' = Heard(t)
             \/ Heard(t) = "none" /\ status'[t] = status[t] /\ Heard(t)' = reply[t]
      BY <1>2, <2>1, HandlerMoves
    <3>2. /\ h'[t] = Heard(t)' /\ h[t] = Heard(t)
          /\ \A s \in Subs \ {t} : h'[s] = h[s]
      BY <3>1 DEF Heard
    <3>3. CASE Heard(t)' = Heard(t)
      <4>1. h' = h
        BY <2>a, <3>2, <3>3, EqualEverywhere
      <4>2. QED
        BY <2>c, <3>1, <4>1
    <3>4. CASE Heard(t) = "none" /\ status'[t] = status[t] /\ Heard(t)' = reply[t]
      <4>1. f' = f
        BY <2>b, <3>1, <3>4
      <4>2. reply[t] \in {"none", "ok", "failed", "suppressed"} \/ (reply[t] = "queued" /\ f[t] # "none")
        BY <1>2 DEF IInv, TypeOK, TablesAgree, WordKept, Replies
      <4>3. QED
        BY <2>d, <3>2, <3>4, <4>1, <4>2
    <3>5. QED
      BY <3>1, <3>3, <3>4
  <2>2. CASE Worker
    <3>1. h' = h
      BY <1>2, <2>2, <2>b, WorkerMoves
    <3>2. CASE \A s \in Subs : status'[s] = status[s]
      BY <2>b, <3>1, <3>2
    <3>3. QED
      BY <1>2, <2>2, <2>c, <3>1, <3>2, WorkerMoves
  <2>3. CASE Probe \/ DiskFails \/ DiskRecovers \/ Tick \/ RecoverInsert \/ UNCHANGED vars
    <3>1. UNCHANGED <<status, pc, reply>>
      BY <2>3 DEF Probe, DiskFails, DiskRecovers, Tick, RecoverInsert, vars, database, handler
    <3>2. QED
      BY <3>1
  <2>4. CASE RecoverUpdate
    <3>1. UNCHANGED <<pc, reply>> /\ \A s \in Subs : f'[s] = f[s]
      BY <1>2, <2>4 DEF RecoverUpdate, handler, TypeOK
    <3>2. QED
      BY <3>1
  <2>5. CASE Crash
    <3>1. UNCHANGED status /\ \A s \in Subs : h'[s] = h[s]
      BY <1>2, <2>5 DEF Crash, database, TypeOK
    <3>2. QED
      BY <3>1
  <2>6. CASE Prune
    <3>1. PICK S \in SUBSET {s \in Subs : status[s] \in Settled} :
            status' = [s \in Subs |-> IF s \in S THEN "pruned" ELSE status[s]]
      BY <2>6 DEF Prune
    <3>2. UNCHANGED <<pc, reply>>
      BY <2>6 DEF Prune, handler
    <3>3. S \in SUBSET {s \in Subs : f[s] \in {"sent", "failed", "suppressed"}}
      BY DEF Settled
    <3>4. f' = [s \in Subs |-> IF s \in S THEN "pruned" ELSE f[s]] /\ h' = h
      BY <3>1, <3>2
    <3>5. Log!Forget
      BY <3>3, <3>4 DEF Log!Forget, Log!Outcomes
    <3>6. QED
      BY <3>5 DEF Log!Next
  <2>7. QED
    BY <1>2, <2>1, <2>2, <2>3, <2>4, <2>5, <2>6 DEF Next
<1>3. QED
  BY <1>1, <1>2, TypeCorrect, Inductive, PTL DEF Spec, LogSpec, Log!Spec, Log!vars
=============================================================================
