--------------------------- MODULE LifecycleProofs ---------------------------
(***************************************************************************)
(* Proofs about Lifecycle, for every set of mails, posts and addresses,    *)
(* every ladder, batch size and number of edits, restarts and outages.     *)
(***************************************************************************)
EXTENDS Lifecycle, TLAPS

USE MailsAssumption, ForwardsAssumption

\* A row of the queue is a post that was counted as queued; what the worker
\* holds is claimed and still there, and what it found out is on record.
Ledger ==
  /\ batch \subseteq rows
  /\ current # Nobody => current \in rows \ batch
  /\ \A p \in Posts :
       /\ outcome[p] = "queued" => pc[p] = "done"
       /\ p \in rows => outcome[p] = "queued" /\ tries[p] >= attempt[p]
       /\ current = p => /\ result \in {"ok", "retryable", "terminal"}
                         /\ result = "ok" => got[p] > 0
                         /\ result = "terminal" => p \in refused
                         /\ tries[p] >= attempt[p] + 1

\* As long as nothing has failed, every try was counted, and a callback that
\* was received without a doubt is not tried again.
Once ==
  crashes = 0 /\ faults = 0 => \A p \in Posts :
    /\ pc[p] # "done" => tries[p] = 0 /\ (got[p] = 0 \/ p \in lostAck)
    /\ p \in rows => tries[p] = IF current = p THEN attempt[p] + 1 ELSE attempt[p]
    /\ p \in rows /\ ~(current = p /\ result = "ok") => got[p] = 0 \/ p \in lostAck
    /\ tries[p] <= MaxAttempts
    /\ got[p] = 2 => p \in lostAck

Calm == faults = 0 => healthy /\ diskOk

\* What was reported is on the list, and was on it when mail came in.
Listed == faults = 0 => \A a \in reported : \E r \in supp : r.email = a
Spared == faults = 0 => \A m \in Mails : to[m] \cap warned[m] = {}

IInv == TypeOK /\ DOMAIN event = Posts /\ Calm /\ Ledger /\ ForwardKept /\ Once /\ Listed /\ Spared

LEMMA InitIInv == Init => IInv
<1> SUFFICES ASSUME Init PROVE IInv
  OBVIOUS
<1>1. PICK c \in Cases : /\ mail = [m \in Mails |-> IF m \in c[1] THEN "idle" ELSE "pruned"]
                         /\ pc = [p \in Posts |-> IF p \in c[2] THEN "unused" ELSE "dead"]
                         /\ edits = c[3] /\ troubles = c[4]
  BY DEF Init
<1>2. edits \in Nat /\ troubles \in Nat
  BY <1>1
<1>3. TypeOK
  BY <1>1, <1>2 DEF Init, TypeOK, Fates, Stages, NoEvent
<1>4. Calm /\ Ledger /\ ForwardKept /\ Once /\ Listed /\ Spared /\ DOMAIN event = Posts
  BY <1>1 DEF Init, Calm, Ledger, ForwardKept, Once, Listed, Spared
<1>5. QED
  BY <1>3, <1>4 DEF IInv

-----------------------------------------------------------------------------
(* Types, one group of variables at a time: an action changes few groups. *)

MailTyped ==
  /\ mail \in [Mails -> Fates] /\ to \in [Mails -> SUBSET Addrs] /\ mid \in [Mails -> 0 .. MaxSends]
  /\ sends \in [Mails -> 0 .. MaxSends] /\ warned \in [Mails -> SUBSET Addrs]
ListTyped == supp \subseteq [email : Addrs, reason : Reasons] /\ reported \subseteq Addrs
EventTyped(e) == e.mail \in Mails \cup {Nobody} /\ e.mid \in 0 .. MaxSends /\ e.rcpt \in Addrs \cup {Nobody}
PostTyped ==
  /\ pc \in [Posts -> Stages] /\ DOMAIN event = Posts /\ \A p \in Posts : EventTyped(event[p])
  /\ outcome \in [Posts -> {"none", "ignored", "unhooked", "sent", "queued", "dropped"}]
QueueTyped == rows \subseteq Posts /\ attempt \in [Posts -> 0 .. MaxAttempts - 1] /\ due \in [Posts -> Int]
WorkerTyped ==
  /\ hooks \subseteq {EndpointOf[m] : m \in Mails}
  /\ batch \subseteq Posts /\ current \in Posts \cup {Nobody}
  /\ result \in {"none", "ok", "retryable", "terminal"}
ReceiptTyped ==
  /\ got \in [Posts -> 0 .. 2] /\ tries \in [Posts -> 0 .. MaxAttempts + 1]
  /\ lostAck \subseteq Posts /\ refused \subseteq Posts
DiskTyped ==
  /\ healthy \in BOOLEAN /\ diskOk \in BOOLEAN
  /\ crashes \in Nat /\ faults \in Nat /\ edits \in Nat /\ troubles \in Nat

Typed ==
  /\ MailTyped /\ ListTyped /\ PostTyped /\ QueueTyped
  /\ WorkerTyped /\ ReceiptTyped /\ DiskTyped

LEMMA TypedIs == Typed <=> TypeOK /\ DOMAIN event = Posts
  BY DEF Typed, TypeOK, MailTyped, ListTyped, PostTyped, EventTyped, QueueTyped,
         WorkerTyped, ReceiptTyped, DiskTyped

\* What an action leaves alone keeps its type.
LEMMA Frames ==
  ASSUME Typed
  PROVE  /\ UNCHANGED <<mail, to, mid, sends, warned>> => MailTyped'
         /\ UNCHANGED <<supp, reported>> => ListTyped'
         /\ UNCHANGED posts => PostTyped'
         /\ UNCHANGED queue => QueueTyped'
         /\ UNCHANGED <<hooks, worker>> => WorkerTyped'
         /\ UNCHANGED receipts => ReceiptTyped'
         /\ UNCHANGED <<disk, budget>> => DiskTyped'
<1> USE DEF Typed
<1>1. UNCHANGED <<mail, to, mid, sends, warned>> => MailTyped'
  BY DEF MailTyped
<1>2. UNCHANGED <<supp, reported>> => ListTyped'
  BY DEF ListTyped
<1>3. UNCHANGED posts => PostTyped'
  BY DEF PostTyped, EventTyped, posts
<1>4. UNCHANGED queue => QueueTyped'
  BY DEF QueueTyped, queue
<1>5. UNCHANGED <<hooks, worker>> => WorkerTyped'
  BY DEF WorkerTyped, worker
<1>6. UNCHANGED receipts => ReceiptTyped'
  BY DEF ReceiptTyped, receipts
<1>7. UNCHANGED <<disk, budget>> => DiskTyped'
  BY DEF DiskTyped, disk, budget
<1>8. QED
  BY <1>1, <1>2, <1>3, <1>4, <1>5, <1>6, <1>7

\* healthy, the only part of the disk and the budget that most actions change.
LEMMA Gate ==
  ASSUME Typed, healthy' \in BOOLEAN, UNCHANGED <<diskOk, budget>>
  PROVE  DiskTyped'
  BY DEF Typed, DiskTyped, budget

LEMMA ListKept ==
  ASSUME ListTyped, NEW x \in Addrs, NEW reason \in Reasons,
         AddSuppression(x, reason) \/ RemoveSuppression(x)
  PROVE  supp' \subseteq [email : Addrs, reason : Reasons]
<1>1. Norm[x] \in Addrs
  OBVIOUS
<1>2. QED
  BY <1>1 DEF ListTyped, AddSuppression, RemoveSuppression

LEMMA MailActionsTyped ==
  ASSUME Typed, NEW m \in Mails, ComeIn(m) \/ ProviderAccepts(m) \/ ProviderRefuses(m) \/ RecordSent(m)
  PROVE  Typed'
<1> USE DEF Typed
<1>1. CASE ComeIn(m)
  <2>1. PICK asked \in SUBSET RcptsOf[m] :
          /\ to' = [to EXCEPT ![m] = Sendable(m, asked)]
          /\ mail' = [mail EXCEPT ![m] = IF Sendable(m, asked) = {} THEN "suppressed" ELSE "sending"]
          /\ healthy' = (healthy /\ diskOk)
    BY <1>1 DEF ComeIn
  <2>2. Sendable(m, asked) \in SUBSET Addrs
    BY DEF Sendable
  <2>3. /\ UNCHANGED <<mid, supp, sends, reported, hooks, diskOk>>
        /\ UNCHANGED <<posts, queue, worker, receipts, budget>>
        /\ warned' = [warned EXCEPT ![m] = {x \in RcptsOf[m] : Norm[x] \in reported}]
    BY <1>1 DEF ComeIn
  <2>4. {x \in RcptsOf[m] : Norm[x] \in reported} \in SUBSET Addrs
    OBVIOUS
  <2>5. MailTyped'
    BY <2>1, <2>2, <2>3, <2>4 DEF MailTyped, Fates
  <2>6. healthy' \in BOOLEAN
    BY <2>1
  <2>7. DiskTyped'
    BY <2>3, <2>6, Gate
  <2>8. QED
    BY <2>3, <2>5, <2>7, Frames
<1>2. CASE ProviderAccepts(m)
  <2>1. MailTyped'
    BY <1>2 DEF ProviderAccepts, MailTyped, Fates
  <2>2. UNCHANGED <<supp, reported, posts, queue, hooks, worker, receipts, disk, budget>>
    BY <1>2 DEF ProviderAccepts
  <2>3. QED
    BY <2>1, <2>2, Frames
<1>3. CASE ProviderRefuses(m)
  <2>1. MailTyped'
    BY <1>3 DEF ProviderRefuses, MailTyped, Fates, traces
  <2>2. UNCHANGED <<supp, reported, posts, queue, hooks, worker, receipts, disk, budget>>
    BY <1>3 DEF ProviderRefuses, traces
  <2>3. QED
    BY <2>1, <2>2, Frames
<1>4. CASE RecordSent(m)
  <2>1. MailTyped'
    BY <1>4 DEF RecordSent, MailTyped, Fates, traces
  <2>2. UNCHANGED <<supp, reported, posts, queue, hooks, worker, receipts, disk, budget>>
    BY <1>4 DEF RecordSent, traces
  <2>3. QED
    BY <2>1, <2>2, Frames
<1>5. QED
  BY <1>1, <1>2, <1>3, <1>4

\* What is left of a finished post is the mail it was about.
LEMMA Leaves ==
  ASSUME Typed, NEW p \in Posts, NEW from, Finish(p, from, outcome'[p]),
         outcome'[p] \in {"ignored", "unhooked", "sent", "queued", "dropped"}
  PROVE  PostTyped'
<1> DEFINE e == [NoEvent EXCEPT !.mail = event[p].mail]
<1>1. /\ pc' = [pc EXCEPT ![p] = "done"] /\ outcome' = [outcome EXCEPT ![p] = outcome'[p]]
      /\ event' = [event EXCEPT ![p] = e]
  BY DEF Finish, Step
<1>2. EventTyped(event[p]) /\ DOMAIN event = Posts /\ \A q \in Posts : EventTyped(event[q])
  BY DEF Typed, PostTyped
<1>3. EventTyped(e)
  BY <1>2 DEF NoEvent, EventTyped
<1> HIDE DEF e
<1>4. DOMAIN event' = Posts /\ event'[p] = e /\ \A q \in Posts \ {p} : event'[q] = event[q]
  BY <1>1, <1>2
<1>5. \A q \in Posts : EventTyped(event'[q])
  BY <1>2, <1>3, <1>4
<1>6. /\ pc' \in [Posts -> Stages]
      /\ outcome' \in [Posts -> {"none", "ignored", "unhooked", "sent", "queued", "dropped"}]
  BY <1>1 DEF Typed, PostTyped, Stages
<1>7. QED
  BY <1>4, <1>5, <1>6 DEF PostTyped, EventTyped

LEMMA Moves ==
  ASSUME Typed, NEW p \in Posts, NEW from, NEW stage \in Stages, Step(p, from, stage),
         UNCHANGED <<event, outcome>>
  PROVE  PostTyped'
  BY DEF Typed, PostTyped, EventTyped, Step

LEMMA ReceivedTyped ==
  ASSUME Typed, NEW p \in Posts, Received(p)
  PROVE  got' \in [Posts -> 0 .. 2]
<1>1. got[p] \in 0 .. 2 /\ got \in [Posts -> 0 .. 2]
  BY DEF Typed, ReceiptTyped
<1>2. (IF got[p] < 2 THEN got[p] + 1 ELSE 2) \in 0 .. 2
  BY <1>1
<1>3. QED
  BY <1>1, <1>2 DEF Received

LEMMA AttemptTyped ==
  ASSUME Typed, NEW p \in Posts, NEW r, Attempt(p, r), tries' = tries
  PROVE  ReceiptTyped'
<1>1. CASE UNCHANGED got
  BY <1>1 DEF Typed, ReceiptTyped, Attempt
<1>2. CASE Received(p)
  <2>1. got' \in [Posts -> 0 .. 2]
    BY <1>2, ReceivedTyped
  <2>2. lostAck' \subseteq Posts /\ refused' \subseteq Posts
    BY DEF Typed, ReceiptTyped, Attempt
  <2>3. QED
    BY <2>1, <2>2 DEF Typed, ReceiptTyped
<1>3. QED
  BY <1>1, <1>2 DEF Attempt

LEMMA PostActionsTyped ==
  ASSUME Typed, NEW p \in Posts,
         Post(p) \/ Reject(p) \/ Correlate(p) \/ AutoSuppress(p) \/ Deliver(p) \/ EnqueueForward(p)
  PROVE  Typed'
<1>1. CASE Post(p)
  <2>1. /\ UNCHANGED <<mails, supp, queue, hooks, worker, disk, traces, receipts, budget>>
        /\ UNCHANGED outcome /\ pc' = [pc EXCEPT ![p] = "posted"]
    BY <1>1 DEF Post, Step
  <2>2. DOMAIN event = Posts /\ \A q \in Posts : EventTyped(event[q])
    BY DEF Typed, PostTyped
  <2>3. DOMAIN event' = Posts /\ \A q \in Posts : EventTyped(event'[q])
    <3>1. CASE UNCHANGED event
      BY <2>2, <3>1
    <3>2. ASSUME NEW raw \in Raws, NEW m \in Mails, NEW n \in 1 .. sends[m], NEW x \in to[m],
                 event' = [event EXCEPT ![p] = [raw |-> raw, mail |-> m, mid |-> n, rcpt |-> x]]
          PROVE  DOMAIN event' = Posts /\ \A q \in Posts : EventTyped(event'[q])
      <4>1. sends[m] \in 0 .. MaxSends /\ to[m] \subseteq Addrs
        BY DEF Typed, MailTyped
      <4>2. EventTyped([raw |-> raw, mail |-> m, mid |-> n, rcpt |-> x])
        BY <4>1 DEF EventTyped
      <4>3. QED
        BY <3>2, <4>2, <2>2
    <3>3. QED
      BY <1>1, <3>1, <3>2 DEF Post
  <2>4. PostTyped'
    BY <2>1, <2>3 DEF Typed, PostTyped, EventTyped, Stages
  <2>5. QED
    BY <2>1, <2>4, Frames DEF Typed, mails, traces
<1>2. CASE Reject(p)
  <2>1. /\ UNCHANGED <<mails, supp, queue, hooks, worker, disk, traces, receipts, budget>>
        /\ UNCHANGED outcome /\ pc' = [pc EXCEPT ![p] = "unused"] /\ event' = [event EXCEPT ![p] = NoEvent]
    BY <1>2 DEF Reject, Step
  <2>2. EventTyped(NoEvent)
    BY DEF EventTyped, NoEvent
  <2>3. PostTyped'
    BY <2>1, <2>2 DEF Typed, PostTyped, EventTyped, Stages
  <2>4. QED
    BY <2>1, <2>3, Frames DEF Typed, mails, traces
<1>3. CASE Correlate(p)
  <2>1. UNCHANGED <<mails, supp, queue, hooks, worker, diskOk, traces, receipts, budget>>
    BY <1>3 DEF Correlate
  <2>2. healthy' \in BOOLEAN
    BY <1>3 DEF Correlate, Typed, DiskTyped
  <2>3. PostTyped'
    <3>1. CASE Ignore(p)
      <4>1. outcome'[p] = "ignored"
        BY <3>1 DEF Ignore, Finish, Typed, PostTyped
      <4>2. Finish(p, "posted", outcome'[p])
        BY <3>1, <4>1 DEF Ignore
      <4>3. QED
        BY <4>1, <4>2, Leaves
    <3>2. CASE Step(p, "posted", "matched") /\ UNCHANGED <<event, outcome>>
      BY <3>2, Moves DEF Stages
    <3>3. QED
      BY <1>3, <3>1, <3>2 DEF Correlate
  <2>4. QED
    BY <2>1, <2>2, <2>3, Gate, Frames DEF Typed, mails, traces
<1>4. CASE AutoSuppress(p)
  <2>1. /\ UNCHANGED <<mails, queue, hooks, worker, diskOk, sends, warned, receipts, budget>>
        /\ Step(p, "matched", "forward") /\ UNCHANGED <<event, outcome>>
        /\ healthy' = (healthy /\ (Deadly(event[p]) => diskOk))
    BY <1>4 DEF AutoSuppress
  <2>2. healthy' \in BOOLEAN
    BY <2>1
  <2>3. PostTyped'
    BY <2>1, Moves DEF Stages
  <2>4. Deadly(event[p]) => event[p].rcpt \in Addrs /\ Kind(event[p].raw) \in Reasons
    BY DEF Typed, PostTyped, EventTyped, Deadly, Reasons
  <2>5. ListTyped'
    <3>1. CASE Deadly(event[p])
      <4>1. /\ AddSuppression(event[p].rcpt, Kind(event[p].raw)) \/ UNCHANGED supp
            /\ reported' = reported \cup {Norm[event[p].rcpt]}
        BY <1>4, <3>1 DEF AutoSuppress
      <4>2. supp' \subseteq [email : Addrs, reason : Reasons]
        BY <4>1, <2>4, <3>1, ListKept DEF Typed, ListTyped
      <4>3. Norm[event[p].rcpt] \in Addrs
        BY <2>4, <3>1
      <4>4. QED
        BY <4>1, <4>2, <4>3 DEF Typed, ListTyped
    <3>2. CASE ~Deadly(event[p])
      BY <1>4, <3>2, Frames DEF AutoSuppress, Typed, ListTyped
    <3>3. QED
      BY <3>1, <3>2
  <2>6. QED
    BY <2>1, <2>2, <2>3, <2>5, Gate, Frames DEF Typed, mails
<1>5. CASE Deliver(p)
  <2>1. UNCHANGED <<mails, supp, queue, hooks, worker, disk, traces, tries, budget>>
    BY <1>5 DEF Deliver
  <2>2. PostTyped'
    <3>1. CASE \E o \in {"unhooked", "sent", "dropped"} : Finish(p, "forward", o)
      <4>1. PICK o \in {"unhooked", "sent", "dropped"} : Finish(p, "forward", o)
        BY <3>1
      <4>2. outcome'[p] = o
        BY <4>1 DEF Finish, Typed, PostTyped
      <4>3. QED
        BY <4>1, <4>2, Leaves
    <3>2. CASE Step(p, "forward", "enqueue") /\ UNCHANGED <<event, outcome>>
      BY <3>2, Moves DEF Stages
    <3>3. QED
      BY <1>5, <3>1, <3>2 DEF Deliver
  <2>3. ReceiptTyped'
    <3>1. CASE \E r \in {"ok", "terminal", "retryable"} : Attempt(p, r)
      BY <3>1, <2>1, AttemptTyped
    <3>2. CASE UNCHANGED <<got, lostAck, refused>>
      BY <3>2, <2>1, Frames DEF receipts
    <3>3. QED
      BY <1>5, <3>1, <3>2 DEF Deliver
  <2>4. QED
    BY <2>1, <2>2, <2>3, Frames DEF Typed, mails, traces
<1>6. CASE EnqueueForward(p)
  <2>1. UNCHANGED <<mails, supp, hooks, worker, diskOk, traces, receipts, budget>>
    BY <1>6 DEF EnqueueForward
  <2>2. healthy' \in BOOLEAN
    BY <1>6 DEF EnqueueForward
  <2>3. PICK o \in {"queued", "dropped"} : Finish(p, "enqueue", o)
    BY <1>6 DEF EnqueueForward
  <2>4. outcome'[p] = o
    BY <2>3 DEF Finish, Typed, PostTyped
  <2>5. PostTyped'
    BY <2>3, <2>4, Leaves
  <2>6. QueueTyped'
    <3>1. CASE UNCHANGED queue
      BY <3>1, Frames
    <3>2. CASE /\ rows' = rows \cup {p} /\ attempt' = [attempt EXCEPT ![p] = 0]
               /\ due' = [due EXCEPT ![p] = Backoff[0]]
      <4>1. Backoff[0] \in Int
        OBVIOUS
      <4>2. QED
        BY <3>2, <4>1 DEF Typed, QueueTyped
    <3>3. QED
      BY <1>6, <3>1, <3>2 DEF EnqueueForward
  <2>7. QED
    BY <2>1, <2>2, <2>5, <2>6, Gate, Frames DEF Typed, mails, traces
<1>7. QED
  BY <1>1, <1>2, <1>3, <1>4, <1>5, <1>6

LEMMA DropTyped ==
  ASSUME Typed, NEW p \in Posts, DropRow(p)
  PROVE  QueueTyped'
  BY DEF Typed, QueueTyped, DropRow

LEMMA WorkerActionsTyped ==
  ASSUME Typed, Forwarding
  PROVE  Typed'
<1>1. CASE ClaimDueForwards
  <2>1. UNCHANGED <<mails, supp, posts, queue, hooks, current, result, disk, traces, receipts, budget>>
    BY <1>1 DEF ClaimDueForwards
  <2>2. batch' \subseteq rows
    BY <1>1 DEF ClaimDueForwards, Due
  <2>3. WorkerTyped'
    BY <2>1, <2>2 DEF Typed, WorkerTyped, QueueTyped
  <2>4. QED
    BY <2>1, <2>3, Frames DEF Typed, mails, traces
<1>2. CASE RecordForward
  <2>1. /\ UNCHANGED <<mails, supp, posts, hooks, batch, diskOk, traces, receipts, budget>>
        /\ current # Nobody /\ current' = Nobody /\ result' = "none"
        /\ healthy' = (healthy /\ (result # "ok" => diskOk))
    BY <1>2 DEF RecordForward
  <2>2. WorkerTyped' /\ current \in Posts
    BY <2>1 DEF Typed, WorkerTyped
  <2>3. QueueTyped'
    <3>1. CASE UNCHANGED queue
      BY <3>1, Frames
    <3>2. CASE DropRow(current)
      BY <3>2, <2>2, DropTyped
    <3>3. CASE /\ ~(attempt[current] + 1 >= MaxAttempts)
               /\ attempt' = [attempt EXCEPT ![current] = @ + 1]
               /\ due' = [due EXCEPT ![current] = Backoff[attempt[current] + 1]] /\ UNCHANGED rows
      <4>1. attempt[current] + 1 \in 0 .. MaxAttempts - 1
        BY <2>2, <3>3 DEF Typed, QueueTyped
      <4>2. Backoff[attempt[current] + 1] \in Int
        BY <4>1
      <4>3. QED
        BY <2>2, <3>3, <4>1, <4>2 DEF Typed, QueueTyped
    <3>4. QED
      BY <1>2, <3>1, <3>2, <3>3 DEF RecordForward, RecordForwardOutcome
  <2>4. healthy' \in BOOLEAN
    BY <2>1
  <2>5. QED
    BY <2>1, <2>2, <2>3, <2>4, Gate, Frames DEF Typed, mails, traces
<1>3. ASSUME NEW p \in Posts, DropUnhooked(p) PROVE Typed'
  <2>1. /\ UNCHANGED <<mails, supp, posts, hooks, current, result, disk, traces, got, tries, lostAck, budget>>
        /\ batch' = batch \ {p} /\ refused' = refused \cup {p}
        /\ DropRow(p) \/ UNCHANGED queue
    BY <1>3 DEF DropUnhooked
  <2>2. WorkerTyped' /\ ReceiptTyped'
    BY <2>1 DEF Typed, WorkerTyped, ReceiptTyped
  <2>3. QueueTyped'
    BY <2>1, DropTyped, Frames
  <2>4. QED
    BY <2>1, <2>2, <2>3, Frames DEF Typed, mails, traces
<1>4. ASSUME NEW p \in Posts, AttemptForward(p) PROVE Typed'
  <2>1. /\ UNCHANGED <<mails, supp, posts, queue, hooks, disk, traces, budget>>
        /\ batch' = batch \ {p} /\ current' = p
        /\ tries' = [tries EXCEPT ![p] = Smaller(@ + 1, MaxAttempts + 1)]
    BY <1>4 DEF AttemptForward
  <2>2. PICK r \in {"ok", "retryable", "terminal"} : result' = r /\ Attempt(p, r)
    BY <1>4 DEF AttemptForward
  <2>3. WorkerTyped'
    BY <2>1, <2>2 DEF Typed, WorkerTyped
  <2>4. tries' \in [Posts -> 0 .. MaxAttempts + 1]
    <3>1. tries[p] \in 0 .. MaxAttempts + 1
      BY DEF Typed, ReceiptTyped
    <3>2. Smaller(tries[p] + 1, MaxAttempts + 1) \in 0 .. MaxAttempts + 1
      BY <3>1 DEF Smaller
    <3>3. QED
      BY <2>1, <3>2 DEF Typed, ReceiptTyped
  <2>5. got' \in [Posts -> 0 .. 2] /\ lostAck' \subseteq Posts /\ refused' \subseteq Posts
    <3>1. lostAck' \subseteq Posts /\ refused' \subseteq Posts
      BY <2>2 DEF Typed, ReceiptTyped, Attempt
    <3>2. CASE UNCHANGED got
      BY <3>1, <3>2 DEF Typed, ReceiptTyped
    <3>3. CASE Received(p)
      BY <3>1, <3>3, ReceivedTyped
    <3>4. QED
      BY <2>2, <3>2, <3>3 DEF Attempt
  <2>6. ReceiptTyped'
    BY <2>4, <2>5 DEF ReceiptTyped
  <2>7. QED
    BY <2>1, <2>3, <2>6, Frames DEF Typed, mails, traces
<1>5. QED
  BY <1>1, <1>2, <1>3, <1>4 DEF Forwarding

LEMMA OtherActionsTyped ==
  ASSUME Typed, Prune \/ EditList \/ Restart \/ Probe \/ DiskFails \/ DiskRecovers \/ Tick
  PROVE  Typed'
<1>1. CASE Prune
  <2>1. MailTyped'
    BY <1>1 DEF Prune, Typed, MailTyped, Fates, traces
  <2>2. QED
    BY <1>1, <2>1, Frames DEF Prune, Typed, traces
<1>2. CASE EditList
  <2>1. PICK x \in Addrs : \/ AddSuppression(x, "manual") /\ UNCHANGED reported
                           \/ RemoveSuppression(x) /\ reported' = reported \ {Norm[x]}
    BY <1>2 DEF EditList
  <2>2. supp' \subseteq [email : Addrs, reason : Reasons]
    BY <2>1, ListKept DEF Typed, Reasons
  <2>3. ListTyped'
    BY <2>1, <2>2 DEF Typed, ListTyped
  <2>4. UNCHANGED <<mails, posts, queue, hooks, worker, disk, sends, warned, receipts>>
    BY <1>2 DEF EditList
  <2>5. DiskTyped'
    BY <1>2 DEF EditList, Typed, DiskTyped, disk
  <2>6. QED
    BY <2>3, <2>4, <2>5, Frames DEF Typed, mails
<1>3. CASE Restart
  <2>1. UNCHANGED <<to, mid, supp, event, outcome, queue, diskOk, traces, receipts, faults, edits>>
    BY <1>3 DEF Restart
  <2>2. MailTyped'
    BY <1>3, <2>1 DEF Restart, Typed, MailTyped, Fates, traces
  <2>3. PostTyped'
    BY <1>3, <2>1 DEF Restart, Typed, PostTyped, EventTyped, Stages
  <2>4. WorkerTyped'
    BY <1>3, <2>1 DEF Restart, Typed, WorkerTyped
  <2>5. DiskTyped'
    BY <1>3, <2>1 DEF Restart, Typed, DiskTyped
  <2>6. QED
    BY <2>1, <2>2, <2>3, <2>4, <2>5, Frames DEF Typed, traces
<1>4. CASE Probe
  <2>1. healthy' \in BOOLEAN
    BY <1>4 DEF Probe, Typed, DiskTyped
  <2>2. QED
    BY <1>4, <2>1, Gate, Frames DEF Probe, Typed, mails, traces
<1>5. CASE DiskFails
  <2>1. UNCHANGED <<healthy, crashes, edits>> /\ troubles > 0 /\ troubles' = troubles - 1 /\ faults' = faults + 1
    BY <1>5 DEF DiskFails
  <2>2. diskOk' \in BOOLEAN /\ healthy' \in BOOLEAN
    BY <1>5, <2>1 DEF DiskFails, Typed, DiskTyped
  <2>3. DiskTyped'
    BY <2>1, <2>2 DEF Typed, DiskTyped
  <2>4. QED
    BY <1>5, <2>3, Frames DEF DiskFails, Typed, mails, traces
<1>6. CASE DiskRecovers
  <2>1. DiskTyped'
    BY <1>6 DEF DiskRecovers, Typed, DiskTyped, budget
  <2>2. QED
    BY <1>6, <2>1, Frames DEF DiskRecovers, Typed, mails, traces
<1>7. CASE Tick
  <2>1. QueueTyped'
    BY <1>7 DEF Tick, Typed, QueueTyped
  <2>2. QED
    BY <1>7, <2>1, Frames DEF Tick, Typed, mails, traces
<1>8. QED
  BY <1>1, <1>2, <1>3, <1>4, <1>5, <1>6, <1>7

LEMMA TypedKept == Typed /\ [Next]_vars => Typed'
<1>1. CASE Typed /\ UNCHANGED vars
  BY <1>1, Frames DEF vars, Typed, mails, traces
<1>2. CASE Typed /\ Next
  BY <1>2, MailActionsTyped, PostActionsTyped, WorkerActionsTyped, OtherActionsTyped DEF Next
<1>3. QED
  BY <1>1, <1>2

-----------------------------------------------------------------------------
(* The disk and the suppression list. *)

LEMMA CalmKept ==
  ASSUME Typed, Calm, [Next]_vars
  PROVE  Calm'
<1> USE DEF Calm
<1>1. faults \in Nat /\ healthy \in BOOLEAN /\ diskOk \in BOOLEAN
  BY DEF Typed, DiskTyped
<1>2. CASE UNCHANGED <<disk, faults>>
  BY <1>2 DEF disk
<1>3. CASE UNCHANGED <<diskOk, faults>> /\ (healthy /\ diskOk => healthy')
  BY <1>3
<1>4. ASSUME NEW m \in Mails, ComeIn(m) \/ ProviderAccepts(m) \/ ProviderRefuses(m) \/ RecordSent(m)
      PROVE  Calm'
  BY <1>2, <1>3, <1>4 DEF ComeIn, ProviderAccepts, ProviderRefuses, RecordSent, budget
<1>5. ASSUME NEW p \in Posts, Post(p) \/ Reject(p) \/ Correlate(p) \/ AutoSuppress(p)
      PROVE  Calm'
  BY <1>2, <1>3, <1>5 DEF Post, Reject, Correlate, AutoSuppress, budget, disk
<1>6. ASSUME NEW p \in Posts, Deliver(p) \/ EnqueueForward(p) \/ DropUnhooked(p) \/ AttemptForward(p)
      PROVE  Calm'
  BY <1>2, <1>3, <1>6 DEF Deliver, EnqueueForward, DropUnhooked, AttemptForward, budget, disk
<1>7. CASE ClaimDueForwards \/ RecordForward \/ Prune \/ EditList \/ Probe \/ Tick
  BY <1>2, <1>3, <1>7 DEF ClaimDueForwards, RecordForward, Prune, EditList, Probe, Tick, budget, disk
<1>8. CASE Restart \/ DiskRecovers
  BY <1>1, <1>8 DEF Restart, DiskRecovers, budget
<1>9. CASE DiskFails
  BY <1>1, <1>9 DEF DiskFails
<1>10. CASE UNCHANGED vars
  BY <1>2, <1>10 DEF vars, budget
<1>11. QED
  BY <1>4, <1>5, <1>6, <1>7, <1>8, <1>9, <1>10 DEF Next, Forwarding

\* Nothing to do with the list: at most a fault is counted.
LEMMA ListFrame ==
  ASSUME Typed, Listed, Spared, UNCHANGED <<supp, reported, to, warned>>, faults' \in {faults, faults + 1}
  PROVE  Listed' /\ Spared'
<1>1. faults' = 0 => faults = 0
  BY DEF Typed, DiskTyped
<1>2. QED
  BY <1>1 DEF Listed, Spared

LEMMA ListKeptBySteps ==
  ASSUME Typed, Calm, Listed, Spared, [Next]_vars
  PROVE  Listed' /\ Spared'
<1>1. CASE UNCHANGED <<supp, reported, to, warned, faults>>
  BY <1>1, ListFrame
<1>2. ASSUME NEW m \in Mails, ComeIn(m) PROVE Listed' /\ Spared'
  <2>1. PICK asked \in IF diskOk THEN {RcptsOf[m]} ELSE SUBSET RcptsOf[m] :
          to' = [to EXCEPT ![m] = Sendable(m, asked)]
    BY <1>2 DEF ComeIn
  <2>2. /\ UNCHANGED <<supp, reported, faults>>
        /\ warned' = [warned EXCEPT ![m] = {x \in RcptsOf[m] : Norm[x] \in reported}]
    BY <1>2 DEF ComeIn, budget
  <2>3. ASSUME faults = 0 PROVE Sendable(m, asked) \cap {x \in RcptsOf[m] : Norm[x] \in reported} = {}
    <3>1. asked = RcptsOf[m] /\ healthy
      BY <2>1, <2>3 DEF Calm
    <3>2. \A x \in RcptsOf[m] : Norm[x] \in reported => Suppressed(x)
      BY <2>3 DEF Listed, Suppressed
    <3>3. QED
      BY <3>1, <3>2 DEF Sendable
  <2>4. Spared'
    BY <2>1, <2>2, <2>3 DEF Spared, Typed, MailTyped
  <2>5. QED
    BY <2>2, <2>4 DEF Listed
<1>3. ASSUME NEW p \in Posts, AutoSuppress(p) PROVE Listed' /\ Spared'
  <2> DEFINE e == event[p]
  <2>1. /\ UNCHANGED <<to, warned, faults>>
        /\ IF Deadly(e) /\ diskOk THEN AddSuppression(e.rcpt, Kind(e.raw)) ELSE UNCHANGED supp
        /\ reported' = IF Deadly(e) THEN reported \cup {Norm[e.rcpt]} ELSE reported
    BY <1>3 DEF AutoSuppress, mails, budget
  <2>2. Spared'
    BY <2>1 DEF Spared
  <2>3. CASE faults = 0 /\ Deadly(e)
    <3>1. supp' = supp \cup {[email |-> Norm[e.rcpt], reason |-> Kind(e.raw)]}
      BY <2>1, <2>3 DEF Calm, AddSuppression
    <3>2. reported' = reported \cup {Norm[e.rcpt]}
      BY <2>1, <2>3
    <3>3. \A a \in reported : \E r \in supp : r.email = a
      BY <2>3 DEF Listed
    <3> DEFINE n == [email |-> Norm[e.rcpt], reason |-> Kind(e.raw)]
    <3>4. n \in supp' /\ n.email = Norm[e.rcpt] /\ supp \subseteq supp'
      BY <3>1
    <3> HIDE DEF n, e
    <3>5. QED
      BY <3>2, <3>3, <3>4, <2>2 DEF Listed
  <2>4. CASE faults = 0 /\ ~Deadly(e)
    <3>1. UNCHANGED <<supp, reported>>
      BY <2>1, <2>4
    <3>2. QED
      BY <3>1, <2>1, <1>1
  <2>5. CASE faults # 0
    BY <2>1, <2>2, <2>5 DEF Listed
  <2>6. QED
    BY <2>3, <2>4, <2>5
<1>4. CASE EditList
  <2>1. UNCHANGED <<to, warned, faults>>
    BY <1>4 DEF EditList, mails
  <2>2. PICK x \in Addrs : \/ AddSuppression(x, "manual") /\ UNCHANGED reported
                           \/ RemoveSuppression(x) /\ reported' = reported \ {Norm[x]}
    BY <1>4 DEF EditList
  <2>3. CASE AddSuppression(x, "manual") /\ UNCHANGED reported
    BY <2>1, <2>3 DEF Listed, Spared, AddSuppression
  <2>4. CASE RemoveSuppression(x) /\ reported' = reported \ {Norm[x]}
    BY <2>1, <2>4 DEF Listed, Spared, RemoveSuppression
  <2>5. QED
    BY <2>2, <2>3, <2>4
<1>5. ASSUME NEW m \in Mails, ProviderAccepts(m) \/ ProviderRefuses(m) \/ RecordSent(m)
      PROVE  Listed' /\ Spared'
  BY <1>1, <1>5 DEF ProviderAccepts, ProviderRefuses, RecordSent, traces, budget
<1>6. ASSUME NEW p \in Posts, Post(p) \/ Reject(p) \/ Correlate(p) \/ Deliver(p) \/ EnqueueForward(p)
      PROVE  Listed' /\ Spared'
  BY <1>1, <1>6 DEF Post, Reject, Correlate, Deliver, EnqueueForward, mails, traces, budget
<1>7. CASE Forwarding
  BY <1>1, <1>7 DEF Forwarding, ClaimDueForwards, RecordForward, DropUnhooked, AttemptForward,
                    mails, traces, budget
<1>8. CASE Prune \/ Restart \/ Probe \/ DiskRecovers \/ Tick
  BY <1>1, <1>8 DEF Prune, Restart, Probe, DiskRecovers, Tick, mails, traces, budget
<1>9. CASE DiskFails
  BY <1>9, ListFrame DEF DiskFails, mails, traces
<1>10. CASE UNCHANGED vars
  BY <1>1, <1>10 DEF vars, mails, traces, budget
<1>11. QED
  BY <1>2, <1>3, <1>4, <1>5, <1>6, <1>7, <1>8, <1>9, <1>10 DEF Next

-----------------------------------------------------------------------------
(* The forward queue. *)

Forwards == Ledger /\ ForwardKept /\ Once

fwd == <<pc, outcome, rows, attempt, worker, receipts>>

\* The count of failures only grows.
LEMMA StillCalm ==
  ASSUME Typed, crashes' \in {crashes, crashes + 1}, faults' \in {faults, faults + 1}
  PROVE  crashes' = 0 /\ faults' = 0 => crashes = 0 /\ faults = 0
  BY DEF Typed, DiskTyped

LEMMA ForwardsFrame ==
  ASSUME Typed, Forwards, UNCHANGED <<fwd, crashes>>, faults' \in {faults, faults + 1}
  PROVE  Forwards'
<1>1. crashes' = 0 /\ faults' = 0 => crashes = 0 /\ faults = 0
  BY StillCalm
<1>2. UNCHANGED <<pc, outcome, rows, attempt, batch, current, result, got, tries, lostAck, refused>>
  BY DEF fwd, worker, receipts
<1>3. Ledger' /\ ForwardKept'
  BY <1>2 DEF Forwards, Ledger, ForwardKept
<1>4. Once'
  BY <1>1, <1>2 DEF Forwards, Once
<1>5. QED
  BY <1>3, <1>4 DEF Forwards

\* A post that has not been answered yet has nothing in the queue.
LEMMA Outside ==
  ASSUME Typed, Ledger, NEW p \in Posts, pc[p] # "done"
  PROVE  p \notin rows /\ p \notin batch /\ current # p /\ outcome[p] # "queued"
  BY DEF Typed, WorkerTyped, Ledger

\* A post moves on, and is not counted as queued.
LEMMA PostMoves ==
  ASSUME Typed, Forwards, NEW p \in Posts, pc[p] # "done",
         NEW s, pc' = [pc EXCEPT ![p] = s],
         NEW o, o # "queued", outcome' = outcome \/ outcome' = [outcome EXCEPT ![p] = o],
         UNCHANGED <<rows, attempt, worker, receipts, crashes, faults>>
  PROVE  Forwards'
<1>1. p \notin rows /\ p \notin batch /\ current # p /\ outcome[p] # "queued"
  BY Outside DEF Forwards
<1>2. /\ UNCHANGED <<rows, attempt, batch, current, result, got, tries, lostAck, refused, crashes, faults>>
      /\ pc \in [Posts -> Stages] /\ DOMAIN outcome = Posts
  BY DEF worker, receipts, Typed, PostTyped
<1>3. \A q \in Posts \ {p} : pc'[q] = pc[q] /\ outcome'[q] = outcome[q]
  BY <1>2
<1>4. outcome'[p] # "queued"
  BY <1>1, <1>2
<1>5. Ledger'
  BY <1>1, <1>2, <1>3, <1>4 DEF Forwards, Ledger
<1>6. ForwardKept'
  BY <1>1, <1>2, <1>3, <1>4 DEF Forwards, ForwardKept
<1>7. Once'
  BY <1>1, <1>2, <1>3 DEF Forwards, Once
<1>8. QED
  BY <1>5, <1>6, <1>7 DEF Forwards

LEMMA EarlyStepsKeep ==
  ASSUME Typed, Forwards, NEW p \in Posts, Post(p) \/ Reject(p) \/ Correlate(p) \/ AutoSuppress(p)
  PROVE  Forwards'
<1>1. UNCHANGED <<rows, attempt, worker, receipts, crashes, faults>>
  BY DEF Post, Reject, Correlate, AutoSuppress, queue, budget
<1>2. \E s : pc[p] # "done" /\ pc' = [pc EXCEPT ![p] = s]
  BY DEF Post, Reject, Correlate, AutoSuppress, Ignore, Finish, Step
<1>3. outcome' = outcome \/ outcome' = [outcome EXCEPT ![p] = "ignored"]
  BY DEF Post, Reject, Correlate, AutoSuppress, Ignore, Finish
<1>4. QED
  BY <1>1, <1>2, <1>3, PostMoves

\* One attempt touches one callback's receipts, and only ever adds to them.
LEMMA AttemptAdds ==
  ASSUME Typed, NEW p \in Posts, NEW r, Attempt(p, r)
  PROVE  /\ \A q \in Posts \ {p} : /\ got'[q] = got[q]
                                   /\ q \in lostAck' <=> q \in lostAck
                                   /\ q \in refused' <=> q \in refused
         /\ got'[p] \in Nat /\ got'[p] >= got[p]
         /\ p \in lostAck => p \in lostAck'
         /\ p \in refused => p \in refused'
         /\ r = "ok" => got'[p] > 0
         /\ r = "terminal" => p \in refused'
         /\ got[p] = 0 \/ p \in lostAck => /\ got'[p] = 2 => p \in lostAck'
                                           /\ r # "ok" => got'[p] = 0 \/ p \in lostAck'
<1>1. got \in [Posts -> 0 .. 2] /\ got[p] \in 0 .. 2
  BY DEF Typed, ReceiptTyped
<1>2. CASE UNCHANGED got /\ r # "ok"
  BY <1>1, <1>2 DEF Attempt
<1>3. CASE Received(p)
  <2>1. /\ got'[p] = IF got[p] < 2 THEN got[p] + 1 ELSE 2
        /\ \A q \in Posts \ {p} : got'[q] = got[q]
    BY <1>1, <1>3 DEF Received
  <2>2. got'[p] \in Nat /\ got'[p] >= got[p] /\ got'[p] > 0 /\ (got[p] = 0 => got'[p] = 1)
    BY <1>1, <2>1
  <2>3. CASE r = "ok" /\ UNCHANGED <<lostAck, refused>>
    BY <2>1, <2>2, <2>3
  <2>4. CASE r = "retryable" /\ lostAck' = lostAck \cup {p} /\ UNCHANGED refused
    BY <2>1, <2>2, <2>4
  <2>5. CASE UNCHANGED got /\ r # "ok"
    BY <1>2, <2>5
  <2>6. QED
    BY <2>3, <2>4, <2>5 DEF Attempt
<1>4. QED
  BY <1>2, <1>3 DEF Attempt

LEMMA DeliverKeeps ==
  ASSUME Typed, Forwards, NEW p \in Posts, Deliver(p)
  PROVE  Forwards'
<1>1. UNCHANGED <<rows, attempt, worker, tries, crashes, faults>>
  BY DEF Deliver, queue, budget
<1>2. /\ pc[p] = "forward" /\ pc \in [Posts -> Stages] /\ DOMAIN outcome = Posts
      /\ \A q \in Posts : got[q] \in Nat
  <2>1. pc[p] = "forward"
    BY DEF Deliver, Finish, Step
  <2>2. pc \in [Posts -> Stages] /\ DOMAIN outcome = Posts
    BY DEF Typed, PostTyped
  <2>3. ASSUME NEW q \in Posts PROVE got[q] \in Nat
    BY DEF Typed, ReceiptTyped
  <2>4. QED
    BY <2>1, <2>2, <2>3
<1>3. p \notin rows /\ p \notin batch /\ current # p /\ outcome[p] # "queued"
  BY <1>2, Outside DEF Forwards
<1>4. UNCHANGED <<batch, current, result>>
  BY <1>1 DEF worker
<1>5. /\ \A q \in Posts \ {p} : pc'[q] = pc[q] /\ outcome'[q] = outcome[q]
      /\ outcome'[p] # "queued"
  BY <1>2, <1>3 DEF Deliver, Finish, Step
<1>6. /\ \A q \in Posts \ {p} : /\ got'[q] = got[q]
                                /\ q \in lostAck' <=> q \in lostAck
                                /\ q \in refused' <=> q \in refused
      /\ got[p] = 0 \/ p \in lostAck => /\ got'[p] = 2 => p \in lostAck'
                                        /\ pc'[p] # "done" => got'[p] = 0 \/ p \in lostAck'
  <2>1. CASE Finish(p, "forward", "unhooked") /\ UNCHANGED <<got, lostAck, refused>>
    BY <2>1, <1>2
  <2>2. CASE \E r \in {"ok", "terminal"}, o \in {"sent", "dropped"} : Finish(p, "forward", o) /\ Attempt(p, r)
    <3>1. PICK r \in {"ok", "terminal"} : Attempt(p, r)
      BY <2>2
    <3>2. pc'[p] = "done"
      BY <2>2, <1>2 DEF Finish, Step
    <3>3. QED
      BY <3>1, <3>2, AttemptAdds
  <2>3. CASE Attempt(p, "retryable")
    BY <2>3, AttemptAdds
  <2>4. QED
    BY <2>1, <2>2, <2>3 DEF Deliver
<1>7. Ledger'
  BY <1>1, <1>3, <1>4, <1>5, <1>6 DEF Forwards, Ledger
<1>8. ForwardKept'
  BY <1>1, <1>3, <1>5, <1>6 DEF Forwards, ForwardKept
<1>9. Once'
  BY <1>1, <1>2, <1>3, <1>4, <1>5, <1>6 DEF Forwards, Once
<1>10. QED
  BY <1>7, <1>8, <1>9 DEF Forwards

LEMMA EnqueueKeeps ==
  ASSUME Typed, Forwards, NEW p \in Posts, EnqueueForward(p)
  PROVE  Forwards'
<1>1. UNCHANGED <<worker, receipts, crashes, faults>>
  BY DEF EnqueueForward, budget
<1>2. /\ pc[p] = "enqueue" /\ pc \in [Posts -> Stages] /\ DOMAIN outcome = Posts
      /\ pc' = [pc EXCEPT ![p] = "done"]
  BY DEF EnqueueForward, Finish, Step, Typed, PostTyped
<1>3. CASE Finish(p, "enqueue", "dropped") /\ UNCHANGED queue
  BY <1>1, <1>2, <1>3, PostMoves DEF Finish, queue
<1>4. CASE /\ Finish(p, "enqueue", "queued") /\ rows' = rows \cup {p}
           /\ attempt' = [attempt EXCEPT ![p] = 0]
  <2>1. p \notin rows /\ p \notin batch /\ current # p
    BY <1>2, Outside DEF Forwards
  <2>2. UNCHANGED <<batch, current, result, got, tries, lostAck, refused, crashes, faults>>
    BY <1>1 DEF worker, receipts
  <2>3. /\ \A q \in Posts \ {p} : /\ pc'[q] = pc[q] /\ outcome'[q] = outcome[q]
                                  /\ attempt'[q] = attempt[q]
        /\ pc'[p] = "done" /\ outcome'[p] = "queued" /\ attempt'[p] = 0
        /\ tries[p] \in Nat
    BY <1>2, <1>4 DEF Finish, Typed, QueueTyped, ReceiptTyped
  <2>4. Ledger'
    <3>1. batch' \subseteq rows' /\ (current' # Nobody => current' \in rows' \ batch')
      BY <1>4, <2>2 DEF Forwards, Ledger
    <3>2. \A q \in Posts \ {p} : /\ outcome'[q] = "queued" => pc'[q] = "done"
                                 /\ q \in rows' => outcome'[q] = "queued" /\ tries'[q] >= attempt'[q]
                                 /\ current' = q => /\ result' \in {"ok", "retryable", "terminal"}
                                                    /\ result' = "ok" => got'[q] > 0
                                                    /\ result' = "terminal" => q \in refused'
                                                    /\ tries'[q] >= attempt'[q] + 1
      BY <1>4, <2>2, <2>3 DEF Forwards, Ledger
    <3>3. pc'[p] = "done" /\ outcome'[p] = "queued" /\ tries'[p] >= attempt'[p] /\ current' # p
      BY <2>1, <2>2, <2>3
    <3>4. QED
      BY <3>1, <3>2, <3>3 DEF Ledger
  <2>5. ForwardKept'
    BY <1>4, <2>2, <2>3 DEF Forwards, ForwardKept
  <2>6. Once'
    BY <1>2, <1>4, <2>1, <2>2, <2>3 DEF Forwards, Once
  <2>7. QED
    BY <2>4, <2>5, <2>6 DEF Forwards
<1>5. QED
  BY <1>3, <1>4 DEF EnqueueForward

-----------------------------------------------------------------------------
(* The worker, restarts, and the rest. *)

LEMMA ClaimKeeps ==
  ASSUME Typed, Forwards, ClaimDueForwards
  PROVE  Forwards'
<1>1. UNCHANGED <<pc, outcome, rows, attempt, current, result, receipts, crashes, faults>>
  BY DEF ClaimDueForwards, posts, queue, budget
<1>2. batch' \subseteq rows /\ current = Nobody
  BY DEF ClaimDueForwards, Due
<1>3. UNCHANGED <<got, tries, lostAck, refused>>
  BY <1>1 DEF receipts
<1>4. Ledger'
  BY <1>1, <1>2, <1>3 DEF Forwards, Ledger
<1>5. ForwardKept' /\ Once'
  BY <1>1, <1>3 DEF Forwards, ForwardKept, Once
<1>6. QED
  BY <1>4, <1>5 DEF Forwards

LEMMA DropUnhookedKeeps ==
  ASSUME Typed, Forwards, NEW p \in Posts, DropUnhooked(p)
  PROVE  Forwards'
<1>1. UNCHANGED <<pc, outcome, current, result, got, tries, lostAck, crashes, faults>>
  BY DEF DropUnhooked, posts, budget
<1>2. /\ current = Nobody /\ p \in batch /\ batch' = batch \ {p} /\ refused' = refused \cup {p}
      /\ \/ rows' = rows \ {p} /\ attempt' = [attempt EXCEPT ![p] = 0]
         \/ rows' = rows /\ attempt' = attempt
  BY DEF DropUnhooked, DropRow, queue
<1>3. rows' \subseteq rows /\ rows \ {p} \subseteq rows'
  BY <1>2
<1>4. \A q \in Posts : q \in rows' => attempt'[q] = attempt[q]
  BY <1>2 DEF Typed, QueueTyped
<1>5. Ledger'
  BY <1>1, <1>2, <1>3, <1>4 DEF Forwards, Ledger
<1>6. ForwardKept'
  BY <1>1, <1>2, <1>3 DEF Forwards, ForwardKept
<1>7. Once'
  BY <1>1, <1>2, <1>3, <1>4 DEF Forwards, Once
<1>8. QED
  BY <1>5, <1>6, <1>7 DEF Forwards

LEMMA AttemptForwardKeeps ==
  ASSUME Typed, Forwards, NEW p \in Posts, AttemptForward(p)
  PROVE  Forwards'
<1>1. UNCHANGED <<pc, outcome, rows, attempt, crashes, faults>>
  BY DEF AttemptForward, posts, queue, budget
<1>2. /\ current = Nobody /\ p \in batch /\ batch' = batch \ {p} /\ current' = p
      /\ tries' = [tries EXCEPT ![p] = Smaller(@ + 1, MaxAttempts + 1)]
  BY DEF AttemptForward
<1>3. PICK r \in {"ok", "retryable", "terminal"} : result' = r /\ Attempt(p, r)
  BY DEF AttemptForward
<1>4. p \in rows /\ p # Nobody /\ outcome[p] = "queued" /\ pc[p] = "done"
  BY <1>2 DEF Forwards, Ledger
<1>5. /\ attempt[p] \in 0 .. MaxAttempts - 1 /\ tries \in [Posts -> 0 .. MaxAttempts + 1]
      /\ tries[p] \in 0 .. MaxAttempts + 1 /\ tries[p] >= attempt[p]
  BY <1>4 DEF Typed, QueueTyped, ReceiptTyped, Forwards, Ledger
<1>6. /\ tries'[p] >= attempt[p] + 1 /\ \A q \in Posts \ {p} : tries'[q] = tries[q]
      /\ tries[p] = attempt[p] => tries'[p] = attempt[p] + 1
  BY <1>2, <1>5 DEF Smaller
<1>7. /\ \A q \in Posts \ {p} : /\ got'[q] = got[q]
                                /\ q \in lostAck' <=> q \in lostAck
                                /\ q \in refused' <=> q \in refused
      /\ r = "ok" => got'[p] > 0
      /\ r = "terminal" => p \in refused'
      /\ got[p] = 0 \/ p \in lostAck => /\ got'[p] = 2 => p \in lostAck'
                                        /\ r # "ok" => got'[p] = 0 \/ p \in lostAck'
  BY <1>3, AttemptAdds
<1>8. Ledger'
  <2>1. batch' \subseteq rows' /\ current' \in rows' \ batch'
    BY <1>1, <1>2, <1>4 DEF Forwards, Ledger
  <2>2. \A q \in Posts : /\ outcome'[q] = "queued" => pc'[q] = "done"
                         /\ q \in rows' => outcome'[q] = "queued" /\ tries'[q] >= attempt'[q]
    <3>1. tries'[p] >= attempt[p]
      BY <1>2, <1>5 DEF Smaller
    <3>2. QED
      BY <1>1, <1>6, <3>1 DEF Forwards, Ledger
  <2>3. /\ result' \in {"ok", "retryable", "terminal"}
        /\ result' = "ok" => got'[p] > 0
        /\ result' = "terminal" => p \in refused'
        /\ tries'[p] >= attempt'[p] + 1
    BY <1>1, <1>3, <1>6, <1>7
  <2>4. QED
    BY <1>2, <2>1, <2>2, <2>3 DEF Ledger
<1>9. ForwardKept'
  BY <1>1, <1>4, <1>6, <1>7 DEF Forwards, ForwardKept
<1>10. Once'
  <2>1. SUFFICES ASSUME crashes = 0, faults = 0, NEW q \in Posts
                 PROVE  /\ pc'[q] # "done" => tries'[q] = 0 /\ (got'[q] = 0 \/ q \in lostAck')
                        /\ q \in rows' => tries'[q] = IF current' = q THEN attempt'[q] + 1 ELSE attempt'[q]
                        /\ q \in rows' /\ ~(current' = q /\ result' = "ok") => got'[q] = 0 \/ q \in lostAck'
                        /\ tries'[q] <= MaxAttempts
                        /\ got'[q] = 2 => q \in lostAck'
    BY <1>1 DEF Once
  <2>2. CASE q # p
    BY <1>1, <1>2, <1>4, <1>6, <1>7, <2>1, <2>2 DEF Forwards, Once, Typed, WorkerTyped
  <2>3. CASE q = p
    <3>1. tries[p] = attempt[p] /\ (got[p] = 0 \/ p \in lostAck)
      BY <1>2, <1>4, <2>1 DEF Forwards, Once
    <3>2. tries'[p] = attempt[p] + 1 /\ tries'[p] <= MaxAttempts
      BY <3>1, <1>5, <1>6
    <3>3. QED
      BY <1>1, <1>2, <1>3, <1>4, <1>7, <2>3, <3>1, <3>2
  <2>4. QED
    BY <2>2, <2>3
<1>11. QED
  BY <1>8, <1>9, <1>10 DEF Forwards

LEMMA RecordForwardKeeps ==
  ASSUME Typed, Calm, Forwards, RecordForward
  PROVE  Forwards'
<1>1. UNCHANGED <<pc, outcome, batch, got, tries, lostAck, refused, crashes, faults>>
  BY DEF RecordForward, posts, receipts, budget
<1>2. current # Nobody /\ current' = Nobody
  BY DEF RecordForward
<1> DEFINE p == current
<1>3. /\ p \in Posts /\ p \in rows /\ p \notin batch /\ outcome[p] = "queued" /\ pc[p] = "done"
      /\ tries[p] >= attempt[p] + 1 /\ result \in {"ok", "retryable", "terminal"}
      /\ result = "ok" => got[p] > 0
      /\ result = "terminal" => p \in refused
  BY <1>2 DEF Typed, WorkerTyped, Forwards, Ledger
<1>4. attempt \in [Posts -> 0 .. MaxAttempts - 1] /\ attempt[p] \in 0 .. MaxAttempts - 1 /\ tries[p] \in Nat
  BY <1>3 DEF Typed, QueueTyped, ReceiptTyped
<1>5. CASE rows' = rows \ {p} /\ attempt' = [attempt EXCEPT ![p] = 0]
           /\ (result # "retryable" \/ attempt[p] + 1 >= MaxAttempts)
  <2>1. \A q \in Posts \ {p} : attempt'[q] = attempt[q]
    BY <1>4, <1>5
  <2>2. got[p] > 0 \/ p \in refused \/ tries[p] >= MaxAttempts
    BY <1>3, <1>4, <1>5
  <2>3. Ledger'
    BY <1>1, <1>2, <1>3, <1>5, <2>1 DEF Forwards, Ledger, Typed, WorkerTyped
  <2>4. ForwardKept'
    BY <1>1, <1>5, <2>2 DEF Forwards, ForwardKept
  <2>5. Once'
    BY <1>1, <1>2, <1>3, <1>5, <2>1 DEF Forwards, Once
  <2>6. QED
    BY <2>3, <2>4, <2>5 DEF Forwards
<1>6. CASE rows' = rows /\ attempt' = [attempt EXCEPT ![p] = @ + 1] /\ result = "retryable"
  <2>1. attempt'[p] = attempt[p] + 1 /\ \A q \in Posts \ {p} : attempt'[q] = attempt[q]
    BY <1>3, <1>4, <1>6
  <2>2. Ledger'
    BY <1>1, <1>2, <1>3, <1>4, <1>6, <2>1 DEF Forwards, Ledger, Typed, WorkerTyped
  <2>3. ForwardKept'
    BY <1>1, <1>6 DEF Forwards, ForwardKept
  <2>4. Once'
    BY <1>1, <1>2, <1>3, <1>6, <2>1 DEF Forwards, Once
  <2>5. QED
    BY <2>2, <2>3, <2>4 DEF Forwards
<1>7. CASE UNCHANGED queue /\ ~diskOk
  \* The write has failed: the row stays, with a try that nobody counted.
  <2>1. UNCHANGED <<rows, attempt>>
    BY <1>7 DEF queue
  <2>2. Ledger'
    BY <1>1, <1>2, <2>1 DEF Forwards, Ledger, Typed, WorkerTyped
  <2>3. ForwardKept' /\ Once'
    BY <1>1, <1>7, <2>1 DEF Forwards, ForwardKept, Once, Calm
  <2>4. QED
    BY <2>2, <2>3 DEF Forwards
<1>8. QED
  BY <1>5, <1>6, <1>7 DEF RecordForward, RecordForwardOutcome, DropRow

LEMMA RestartKeeps ==
  ASSUME Typed, Forwards, Restart
  PROVE  Forwards'
<1>1. /\ UNCHANGED <<outcome, rows, attempt, got, tries, lostAck, refused>>
      /\ batch' = {} /\ current' = Nobody /\ crashes' = crashes + 1
  BY DEF Restart, queue, receipts
<1>2. \A p \in Posts : pc[p] = "done" => pc'[p] = "done"
  BY DEF Restart
<1>3. Ledger'
  BY <1>1, <1>2 DEF Forwards, Ledger
<1>4. ForwardKept'
  BY <1>1 DEF Forwards, ForwardKept
<1>5. Once'
  BY <1>1 DEF Once, Typed, DiskTyped
<1>6. QED
  BY <1>3, <1>4, <1>5 DEF Forwards

LEMMA ForwardsKeptBySteps ==
  ASSUME Typed, Calm, Forwards, [Next]_vars
  PROVE  Forwards'
<1>1. CASE UNCHANGED <<fwd, crashes>> /\ faults' \in {faults, faults + 1}
  BY <1>1, ForwardsFrame
<1>2. ASSUME NEW m \in Mails, ComeIn(m) \/ ProviderAccepts(m) \/ ProviderRefuses(m) \/ RecordSent(m)
      PROVE  Forwards'
  BY <1>1, <1>2 DEF ComeIn, ProviderAccepts, ProviderRefuses, RecordSent, fwd, posts, queue, budget
<1>3. ASSUME NEW p \in Posts, Post(p) \/ Reject(p) \/ Correlate(p) \/ AutoSuppress(p)
      PROVE  Forwards'
  BY <1>3, EarlyStepsKeep
<1>4. ASSUME NEW p \in Posts, Deliver(p) \/ EnqueueForward(p)
      PROVE  Forwards'
  BY <1>4, DeliverKeeps, EnqueueKeeps
<1>5. CASE Forwarding
  BY <1>5, ClaimKeeps, RecordForwardKeeps, DropUnhookedKeeps, AttemptForwardKeeps DEF Forwarding
<1>6. CASE Restart
  BY <1>6, RestartKeeps
<1>7. CASE Prune \/ EditList \/ Probe \/ DiskFails \/ DiskRecovers \/ Tick
  BY <1>1, <1>7 DEF Prune, EditList, Probe, DiskFails, DiskRecovers, Tick, fwd, posts, queue, budget
<1>8. CASE UNCHANGED vars
  BY <1>1, <1>8 DEF vars, fwd, posts, queue, budget
<1>9. QED
  BY <1>2, <1>3, <1>4, <1>5, <1>6, <1>7, <1>8 DEF Next

-----------------------------------------------------------------------------
(* The theorems. *)

\* The disk, the list and the queue move together: every step of every actor
\* keeps all of what is known about them.
THEOREM Inductive == Spec => []IInv
<1>1. IInv /\ [Next]_vars => IInv'
  <2>1. SUFFICES ASSUME IInv, [Next]_vars PROVE IInv'
    OBVIOUS
  <2>2. Typed /\ Calm /\ Forwards /\ Listed /\ Spared
    BY <2>1, TypedIs DEF IInv, Forwards
  <2>3. Typed' /\ Calm' /\ Forwards' /\ Listed' /\ Spared'
    BY <2>1, <2>2, TypedKept, CalmKept, ForwardsKeptBySteps, ListKeptBySteps
  <2>4. TypeOK' /\ DOMAIN event' = Posts
    BY <2>3 DEF Typed, TypeOK, MailTyped, ListTyped, PostTyped, EventTyped, QueueTyped,
                WorkerTyped, ReceiptTyped, DiskTyped
  <2>5. QED
    BY <2>3, <2>4 DEF IInv, Forwards
<1>2. QED
  BY <1>1, InitIInv, PTL DEF Spec

\* The variables keep their types.
THEOREM TypeCorrect == Spec => []TypeOK
<1>1. IInv => TypeOK
  BY DEF IInv
<1>2. QED
  BY <1>1, Inductive, PTL

\* Mail that comes in after an address was reported dead never goes to it,
\* however it is spelled, unless the disk has failed (AddSuppression and
\* filterSuppressed).
THEOREM DeadAddressesSpared == Spec => []DeadAddressSpared
<1>1. IInv => DeadAddressSpared
  BY DEF IInv, Spared, DeadAddressSpared
<1>2. QED
  BY <1>1, Inductive, PTL

\* A callback counted as queued leaves the queue only for one of the reasons
\* the code gives, through restarts and outages (RecordForwardOutcome and
\* ProcessDue).
THEOREM ForwardsKept == Spec => []ForwardKept
<1>1. IInv => ForwardKept
  BY DEF IInv
<1>2. QED
  BY <1>1, Inductive, PTL

\* Without a failure a callback is delivered once and tried no more often than
\* the ladder has rungs (ClaimDueForwards, attempt and RecordForwardOutcome).
THEOREM ForwardsOnce == Spec => []ForwardedOnce
<1>1. IInv => ForwardedOnce
  BY DEF IInv, Once, ForwardedOnce
<1>2. QED
  BY <1>1, Inductive, PTL
=============================================================================
