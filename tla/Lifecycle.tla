------------------------------ MODULE Lifecycle ------------------------------
(***************************************************************************)
(* What happens after a send: the provider posts events about a message,   *)
(* which are matched to the submission by message id, put dead addresses   *)
(* on the suppression list, and are forwarded to the endpoint's webhook,   *)
(* at once or through lifecycle_queue.  The suppression list is what the   *)
(* next submission is checked against, and what `posthorn suppressions`    *)
(* edits from outside.                                                     *)
(*                                                                         *)
(* A submission is reduced to its fate and its recorded message id (module *)
(* MailQueue has the rest).  A post is one HTTP request of the provider;   *)
(* the provider may post the same event again as another one.  The id of a *)
(* lifecycle_queue row is the post that queued it.                         *)
(***************************************************************************)
EXTENDS Integers, FiniteSets

CONSTANTS
  Mails, Posts,
  Addrs,        \* addresses as they are written
  Norm,         \* Norm[a]: trimmed and in lower case (normalizeEmail)
  RcptsOf,      \* RcptsOf[m]: the recipients asked for
  EndpointOf,   \* EndpointOf[m]: the endpoint a mail came in through
  Raws,         \* [record, type] pairs the provider posts
  Cases,        \* bound: <<mails, posts, edits of the list, restarts and
                \* outages>> that a behaviour may still see
  Nobody,       \* no mail, no post, no address
  MaxAttempts, Backoff,   \* the retry ladder, shared with mail
  BatchSize,    \* rows one poll may claim
  Lag, MaxSends   \* bounds

ASSUME MailsAssumption ==
  /\ Norm \in [Addrs -> Addrs] /\ \A a \in Addrs : Norm[Norm[a]] = Norm[a]
  /\ RcptsOf \in [Mails -> SUBSET Addrs]
  /\ DOMAIN EndpointOf = Mails
  /\ Nobody \notin Mails \cup Posts \cup Addrs
  /\ Cases \subseteq (SUBSET Mails) \X (SUBSET Posts) \X Nat \X Nat
ASSUME ForwardsAssumption ==
  /\ MaxAttempts \in Nat \ {0} /\ Backoff \in [0 .. MaxAttempts - 1 -> Nat]
  /\ BatchSize \in Nat \ {0} /\ Lag \in Nat
  /\ MaxSends \in Nat

VARIABLES
  \* the submission: its fate, whom it goes to, its recorded message id
  mail, to, mid,
  supp,                      \* suppressions: [email, reason] rows
  pc, event, outcome,        \* each post: its handler, its event, the metric counted
  rows, attempt, due,        \* lifecycle_queue
  hooks,                     \* endpoints with a webhook in the current config
  batch, current, result,    \* RunQueue: rows claimed, the one being sent
  healthy, diskOk,
  \* history: message ids given out, addresses reported dead and not taken off
  \* the list since, those of them each mail asked for when it came in, callbacks
  \* received, background tries, receptions taken for failures, rows given up for
  \* a reason of the receiver's
  sends, reported, warned, got, tries, lostAck, refused,
  crashes, faults, edits, troubles

mails    == <<mail, to, mid>>
posts    == <<pc, event, outcome>>
queue    == <<rows, attempt, due>>
worker   == <<batch, current, result>>
disk     == <<healthy, diskOk>>
traces   == <<sends, reported, warned>>
receipts == <<got, tries, lostAck, refused>>
budget   == <<crashes, faults, edits, troubles>>
vars     == <<mails, supp, posts, queue, hooks, worker, disk, traces, receipts, budget>>

Fates   == {"idle", "sending", "queued", "accepted", "sent", "failed", "suppressed", "pruned"}
Reasons == {"hard_bounce", "spam_complaint", "manual"}
Stages  == {"unused", "posted", "matched", "forward", "enqueue", "done", "dead"}
NoEvent == [raw |-> [record |-> "none", type |-> "none"], mail |-> Nobody, mid |-> 0, rcpt |-> Nobody]

Init ==
  /\ \E c \in Cases : /\ mail = [m \in Mails |-> IF m \in c[1] THEN "idle" ELSE "pruned"]
                      /\ pc = [p \in Posts |-> IF p \in c[2] THEN "unused" ELSE "dead"]
                      /\ edits = c[3] /\ troubles = c[4]
  /\ to = [m \in Mails |-> {}] /\ mid = [m \in Mails |-> 0]
  /\ supp = {}
  /\ event = [p \in Posts |-> NoEvent]
  /\ outcome = [p \in Posts |-> "none"]
  /\ rows = {} /\ attempt = [p \in Posts |-> 0] /\ due = [p \in Posts |-> 0]
  /\ hooks = {EndpointOf[m] : m \in Mails}
  /\ batch = {} /\ current = Nobody /\ result = "none"
  /\ healthy = TRUE /\ diskOk = TRUE
  /\ sends = [m \in Mails |-> 0] /\ warned = [m \in Mails |-> {}] /\ reported = {}
  /\ got = [p \in Posts |-> 0] /\ tries = [p \in Posts |-> 0] /\ lostAck = {} /\ refused = {}
  /\ crashes = 0 /\ faults = 0

-----------------------------------------------------------------------------
(* Events, normalised. *)

HardTypes == {"HardBounce", "BadEmailAddress", "ManuallyDeactivated"}

Kind(raw) ==
  CASE raw.record = "Delivery" -> "delivered"
    [] raw.record = "Bounce" -> IF raw.type \in HardTypes THEN "hard_bounce" ELSE "soft_bounce"
    [] raw.record = "SpamComplaint" -> "spam_complaint"
    [] raw.record = "Open" -> "opened"
    [] raw.record = "Click" -> "clicked"
    [] OTHER -> "other"

Malformed(raw) == raw.record = "none"

Deadly(e) == Kind(e.raw) \in {"hard_bounce", "spam_complaint"} /\ e.rcpt # Nobody

-----------------------------------------------------------------------------
(* The suppression list. *)

\* Mutant: the address is kept as the provider spells it.
AddSuppression_Verbatim(a, reason) == supp' = supp \cup {[email |-> a, reason |-> reason]}

AddSuppression(a, reason) == supp' = supp \cup {[email |-> Norm[a], reason |-> reason]}
RemoveSuppression(a)      == supp' = {r \in supp : r.email # Norm[a]}
Suppressed(a)             == \E r \in supp : r.email = Norm[a]

\* filterSuppressed, which asks address by address: one whose lookup fails is
\* sent to, and degrades the gate.
Sendable(m, asked) == {a \in RcptsOf[m] : ~(healthy /\ a \in asked /\ Suppressed(a))}

ComeIn(m) ==
  /\ mail[m] = "idle" /\ warned' = [warned EXCEPT ![m] = {a \in RcptsOf[m] : Norm[a] \in reported}]
  /\ \E asked \in IF diskOk THEN {RcptsOf[m]} ELSE SUBSET RcptsOf[m] :
       /\ to' = [to EXCEPT ![m] = Sendable(m, asked)]
       /\ mail' = [mail EXCEPT ![m] = IF Sendable(m, asked) = {} THEN "suppressed" ELSE "sending"]
       /\ healthy' = (healthy /\ diskOk)
  /\ UNCHANGED <<mid, supp, posts, queue, hooks, worker, diskOk, sends, reported, receipts, budget>>

-----------------------------------------------------------------------------
(* The submission, sent inline by its handler or from the queue by the     *)
(* worker, which replays the recorded recipients.                          *)

Outbound(m) == mail[m] \in {"sending", "queued"}

ProviderAccepts(m) ==
  /\ Outbound(m) /\ sends[m] < MaxSends
  /\ mail' = [mail EXCEPT ![m] = "accepted"] /\ sends' = [sends EXCEPT ![m] = @ + 1]
  /\ UNCHANGED <<to, mid, supp, posts, queue, hooks, worker, disk, reported, warned, receipts, budget>>

ProviderRefuses(m) ==
  /\ \/ mail[m] = "sending" /\ \E f \in {"queued", "failed"} : mail' = [mail EXCEPT ![m] = f]
     \/ mail[m] = "queued" /\ mail' = [mail EXCEPT ![m] = "failed"]
  /\ UNCHANGED <<to, mid, supp, posts, queue, hooks, worker, disk, traces, receipts, budget>>

\* MarkSent records the id the provider gave.  When it fails, the row is left
\* to the worker or to the next start, and the mail goes out under a new id.
RecordSent(m) ==
  /\ mail[m] = "accepted"
  /\ IF diskOk
     THEN mail' = [mail EXCEPT ![m] = "sent"] /\ mid' = [mid EXCEPT ![m] = sends[m]]
     ELSE mail' = [mail EXCEPT ![m] = "queued"] /\ UNCHANGED mid
  /\ UNCHANGED <<to, supp, posts, queue, hooks, worker, disk, traces, receipts, budget>>

\* Retention forgets the mail and its id; suppressions are exempt.
Prune ==
  /\ healthy /\ diskOk
  /\ \E m \in Mails : /\ mail[m] \in {"sent", "failed", "suppressed"}
                      /\ mail' = [mail EXCEPT ![m] = "pruned"] /\ mid' = [mid EXCEPT ![m] = 0]
  /\ UNCHANGED <<to, supp, posts, queue, hooks, worker, disk, traces, receipts, budget>>

-----------------------------------------------------------------------------
(* One post.  The answer is written first but leaves the server's buffer   *)
(* when the handler returns.                                               *)

Step(p, from, stage) == pc[p] = from /\ pc' = [pc EXCEPT ![p] = stage]

\* All that is left of a post is the endpoint it was for.
Finish(p, from, o) ==
  /\ Step(p, from, "done") /\ outcome' = [outcome EXCEPT ![p] = o]
  /\ event' = [event EXCEPT ![p] = [NoEvent EXCEPT !.mail = event[p].mail]]

\* The body is no event at all, or an event about a message the provider took;
\* the submission may have been pruned since, or never have learnt its id.
Post(p) ==
  /\ Step(p, "unused", "posted")
  /\ \/ UNCHANGED event
     \/ \E raw \in Raws, m \in Mails : \E n \in 1 .. sends[m], a \in to[m] :
          event' = [event EXCEPT ![p] = [raw |-> raw, mail |-> m, mid |-> n, rcpt |-> a]]
  /\ UNCHANGED <<mails, supp, outcome, queue, hooks, worker, disk, traces, receipts, budget>>

\* 405, 429, 401 and 413: nothing is kept of the post, which may be made again.
Reject(p) ==
  /\ Step(p, "posted", "unused") /\ event' = [event EXCEPT ![p] = NoEvent]
  /\ UNCHANGED <<mails, supp, outcome, queue, hooks, worker, disk, traces, receipts, budget>>

Found(e) == e.mail # Nobody /\ mid[e.mail] = e.mid

Ignore(p) == Finish(p, "posted", "ignored")

Correlate(p) ==
  LET e == event[p] IN
  /\ \/ Ignore(p) /\ (Malformed(e.raw) \/ ~healthy \/ ~Found(e)) /\ UNCHANGED healthy
     \/ Ignore(p) /\ ~Malformed(e.raw) /\ healthy /\ ~diskOk /\ healthy' = FALSE
     \/ /\ Step(p, "posted", "matched") /\ ~Malformed(e.raw) /\ healthy /\ Found(e)
        /\ UNCHANGED <<event, outcome, healthy>>
  /\ UNCHANGED <<mails, supp, queue, hooks, worker, diskOk, traces, receipts, budget>>

AutoSuppress(p) ==
  LET e == event[p] IN
  /\ Step(p, "matched", "forward")
  /\ IF Deadly(e) /\ diskOk THEN AddSuppression(e.rcpt, Kind(e.raw)) ELSE UNCHANGED supp
  /\ healthy' = (healthy /\ (Deadly(e) => diskOk))
  /\ reported' = IF Deadly(e) THEN reported \cup {Norm[e.rcpt]} ELSE reported
  /\ UNCHANGED <<mails, event, outcome, queue, hooks, worker, diskOk, sends, warned, receipts, budget>>

Hooked(p)   == EndpointOf[event[p].mail] \in hooks
Received(p) == got' = [got EXCEPT ![p] = IF @ < 2 THEN @ + 1 ELSE 2]

\* One attempt, and how it may end: 2xx; 429, 5xx or no answer in time, though
\* the receiver may have got it; anything else.
Attempt(p, r) ==
  \/ r = "ok" /\ Received(p) /\ UNCHANGED <<lostAck, refused>>
  \/ r = "retryable" /\ \/ UNCHANGED <<got, lostAck, refused>>
                        \/ Received(p) /\ lostAck' = lostAck \cup {p} /\ UNCHANGED refused
  \/ r = "terminal" /\ refused' = refused \cup {p} /\ UNCHANGED <<got, lostAck>>

Deliver(p) ==
  /\ \/ Finish(p, "forward", "unhooked") /\ ~Hooked(p) /\ UNCHANGED <<got, lostAck, refused>>
     \/ Finish(p, "forward", "sent") /\ Hooked(p) /\ Attempt(p, "ok")
     \/ Finish(p, "forward", "dropped") /\ Hooked(p) /\ Attempt(p, "terminal")
     \/ Step(p, "forward", "enqueue") /\ Hooked(p) /\ Attempt(p, "retryable") /\ UNCHANGED <<event, outcome>>
  /\ UNCHANGED <<mails, supp, queue, hooks, worker, disk, traces, tries, budget>>

EnqueueForward(p) ==
  /\ IF healthy /\ diskOk
     THEN /\ Finish(p, "enqueue", "queued") /\ rows' = rows \cup {p}
          /\ attempt' = [attempt EXCEPT ![p] = 0] /\ due' = [due EXCEPT ![p] = Backoff[0]]
     ELSE Finish(p, "enqueue", "dropped") /\ UNCHANGED queue
  /\ healthy' = (healthy /\ diskOk)
  /\ UNCHANGED <<mails, supp, hooks, worker, diskOk, traces, receipts, budget>>

-----------------------------------------------------------------------------
(* RunQueue: one goroutine that polls, attempts and records.               *)

Smaller(a, b) == IF a < b THEN a ELSE b
Due == {p \in rows : due[p] <= 0}

ClaimDueForwards ==
  /\ healthy /\ batch = {} /\ current = Nobody
  /\ \E S \in SUBSET Due :
       /\ S # {} /\ Cardinality(S) = Smaller(BatchSize, Cardinality(Due))
       /\ \A p \in S, q \in Due \ S : due[p] <= due[q]
       /\ batch' = S
  /\ UNCHANGED <<mails, supp, posts, queue, hooks, current, result, disk, traces, receipts, budget>>

DropRow(p) ==
  /\ rows' = rows \ {p} /\ attempt' = [attempt EXCEPT ![p] = 0] /\ due' = [due EXCEPT ![p] = 0]

\* The webhook has gone from the config: the row goes too.
DropUnhooked(p) ==
  /\ current = Nobody /\ p \in batch /\ ~Hooked(p) /\ batch' = batch \ {p}
  /\ IF diskOk THEN DropRow(p) ELSE UNCHANGED queue
  /\ refused' = refused \cup {p}
  /\ UNCHANGED <<mails, supp, posts, hooks, current, result, disk, traces, got, tries, lostAck, budget>>

AttemptForward(p) ==
  /\ current = Nobody /\ p \in batch /\ Hooked(p)
  /\ batch' = batch \ {p} /\ current' = p
  /\ tries' = [tries EXCEPT ![p] = Smaller(@ + 1, MaxAttempts + 1)]
  /\ \E r \in {"ok", "retryable", "terminal"} : result' = r /\ Attempt(p, r)
  /\ UNCHANGED <<mails, supp, posts, queue, hooks, disk, traces, budget>>

\* Mutant: the row is deleted whatever became of it.
RecordForwardOutcome_Delete(p, retryable) == DropRow(p)
\* Mutant: a failed try is rescheduled but not counted.
RecordForwardOutcome_Uncounted(p, retryable) ==
  IF ~retryable THEN DropRow(p)
  ELSE due' = [due EXCEPT ![p] = Backoff[attempt[p]]] /\ UNCHANGED <<rows, attempt>>
\* Mutant: success reschedules like failure.
RecordForwardOutcome_Keeps(p, retryable) ==
  IF attempt[p] + 1 >= MaxAttempts THEN DropRow(p)
  ELSE /\ attempt' = [attempt EXCEPT ![p] = @ + 1]
       /\ due' = [due EXCEPT ![p] = Backoff[attempt[p] + 1]] /\ UNCHANGED rows

RecordForwardOutcome(p, retryable) ==
  IF ~retryable \/ attempt[p] + 1 >= MaxAttempts THEN DropRow(p)
  ELSE /\ attempt' = [attempt EXCEPT ![p] = @ + 1]
       /\ due' = [due EXCEPT ![p] = Backoff[attempt[p] + 1]] /\ UNCHANGED rows

\* A write that fails leaves the row as it was, due again at once; after a
\* delivery that is not even reported to the gate.
RecordForward ==
  /\ current # Nobody /\ current' = Nobody /\ result' = "none"
  /\ IF diskOk THEN RecordForwardOutcome(current, result = "retryable") ELSE UNCHANGED queue
  /\ healthy' = (healthy /\ (result # "ok" => diskOk))
  /\ UNCHANGED <<mails, supp, posts, hooks, batch, diskOk, traces, receipts, budget>>

Forwarding ==
  \/ ClaimDueForwards \/ RecordForward
  \/ \E p \in Posts : DropUnhooked(p) \/ AttemptForward(p)

-----------------------------------------------------------------------------
(* The command line, the process, its disk and the clock. *)

EditList ==
  /\ edits > 0 /\ edits' = edits - 1 /\ diskOk
  /\ \E a \in Addrs : \/ AddSuppression(a, "manual") /\ UNCHANGED reported
                      \/ RemoveSuppression(a) /\ reported' = reported \ {Norm[a]}
  /\ UNCHANGED <<mails, posts, queue, hooks, worker, disk, sends, warned, receipts, crashes, faults, troubles>>

\* The process dies and is started again, perhaps with webhooks taken out of
\* its config; mail that was being sent is queued by recoverInFlight.
Restart ==
  /\ diskOk /\ troubles > 0 /\ troubles' = troubles - 1 /\ crashes' = crashes + 1
  /\ mail' = [m \in Mails |-> IF mail[m] \in {"sending", "accepted"} THEN "queued" ELSE mail[m]]
  /\ pc' = [p \in Posts |-> IF pc[p] \in {"unused", "done"} THEN pc[p] ELSE "dead"]
  /\ batch' = {} /\ current' = Nobody /\ result' = "none" /\ healthy' = TRUE
  /\ hooks' \in SUBSET hooks
  /\ UNCHANGED <<to, mid, supp, event, outcome, queue, diskOk, traces, receipts, faults, edits>>

Probe ==
  /\ healthy' = diskOk
  /\ UNCHANGED <<mails, supp, posts, queue, hooks, worker, diskOk, traces, receipts, budget>>

DiskFails ==
  /\ diskOk /\ troubles > 0 /\ troubles' = troubles - 1 /\ diskOk' = FALSE /\ faults' = faults + 1
  /\ UNCHANGED <<mails, supp, posts, queue, hooks, worker, healthy, traces, receipts, crashes, edits>>

DiskRecovers ==
  /\ ~diskOk /\ diskOk' = TRUE
  /\ UNCHANGED <<mails, supp, posts, queue, hooks, worker, healthy, traces, receipts, budget>>

Tick ==
  /\ \E p \in rows : due[p] > -Lag
  /\ due' = [p \in Posts |-> IF p \in rows /\ due[p] > -Lag THEN due[p] - 1 ELSE due[p]]
  /\ UNCHANGED <<mails, supp, posts, rows, attempt, hooks, worker, disk, traces, receipts, budget>>

Next ==
  \/ \E m \in Mails : ComeIn(m) \/ ProviderAccepts(m) \/ ProviderRefuses(m) \/ RecordSent(m)
  \/ \E p \in Posts : \/ Post(p) \/ Reject(p) \/ Correlate(p) \/ AutoSuppress(p)
                      \/ Deliver(p) \/ EnqueueForward(p)
  \/ Forwarding \/ Prune \/ EditList
  \/ Restart \/ Probe \/ DiskFails \/ DiskRecovers \/ Tick

Spec == Init /\ [][Next]_vars

\* RunQueue polls for ever, the probe runs, time passes and outages end.
Fairness == WF_vars(Forwarding) /\ WF_vars(Tick) /\ WF_vars(Probe) /\ WF_vars(DiskRecovers)
FairSpec == Spec /\ Fairness
-----------------------------------------------------------------------------
(* Correctness. *)

\* Types of the variables.
TypeOK ==
  /\ mail \in [Mails -> Fates] /\ to \in [Mails -> SUBSET Addrs] /\ mid \in [Mails -> 0 .. MaxSends]
  /\ supp \subseteq [email : Addrs, reason : Reasons]
  /\ pc \in [Posts -> Stages]
  /\ \A p \in Posts : /\ event[p].mail \in Mails \cup {Nobody} /\ event[p].mid \in 0 .. MaxSends
                      /\ event[p].rcpt \in Addrs \cup {Nobody}
  /\ outcome \in [Posts -> {"none", "ignored", "unhooked", "sent", "queued", "dropped"}]
  /\ rows \subseteq Posts /\ attempt \in [Posts -> 0 .. MaxAttempts - 1] /\ due \in [Posts -> Int]
  /\ hooks \subseteq {EndpointOf[m] : m \in Mails}
  /\ batch \subseteq Posts /\ current \in Posts \cup {Nobody}
  /\ result \in {"none", "ok", "retryable", "terminal"}
  /\ healthy \in BOOLEAN /\ diskOk \in BOOLEAN
  /\ sends \in [Mails -> 0 .. MaxSends] /\ warned \in [Mails -> SUBSET Addrs]
  /\ reported \subseteq Addrs
  /\ got \in [Posts -> 0 .. 2] /\ tries \in [Posts -> 0 .. MaxAttempts + 1]
  /\ lostAck \subseteq Posts /\ refused \subseteq Posts
  /\ crashes \in Nat /\ faults \in Nat /\ edits \in Nat /\ troubles \in Nat

\* Mail that comes in after a hard bounce or a complaint about one of its
\* recipients was handled is never sent to that address, however either is
\* spelled, whatever was pruned or restarted since (FR85, FR86), unless the
\* address was taken off the list or the disk has failed.
DeadAddressSpared ==
  faults = 0 => \A m \in Mails : sends[m] > 0 => to[m] \cap warned[m] = {}

\* A callback counted as queued stays in the queue until the receiver has it
\* or refuses it, its webhook is gone, or every try of the ladder was made,
\* through restarts and outages (FR84).
ForwardKept ==
  \A p \in Posts : outcome[p] = "queued" /\ p \notin rows =>
    got[p] > 0 \/ p \in refused \/ tries[p] >= MaxAttempts

\* With a working disk and no restart a callback is delivered once, unless the
\* receiver's own answer was lost, and tried in the background no more often
\* than the ladder has rungs.
ForwardedOnce ==
  crashes = 0 /\ faults = 0 => \A p \in Posts : /\ got[p] = 2 => p \in lostAck
                                                /\ tries[p] <= MaxAttempts

\* A queued callback leaves the queue in the end: the tries that restarts and
\* failed writes leave uncounted are finitely many.
ForwardsSettle == \A p \in Posts : p \in rows ~> p \notin rows
=============================================================================
