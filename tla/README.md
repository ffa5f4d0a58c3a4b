# TLA+ models of Posthorn

Posthorn is a mail gateway in one Go process: HTTP forms, JSON API calls and SMTP
sessions come in, a message is built, and a provider (Postmark, SES, an SMTP relay,
...) is asked to deliver it. With a `[storage]` block it also keeps a SQLite log of
submissions, retries mail in the background, survives restarts, remembers answers by
Idempotency-Key and keeps a suppression list. This directory models that program,
component by component, and states and checks what makes it correct. Paths below are
relative to the repository; `core/` is the Go module.

## Inventory

| Component | State it keeps | Operations | What is hard, what makes it correct |
|---|---|---|---|
| Submission store and retry queue (`core/storage/storage.go`, `queue.go`) | tables `submissions`, `retry_queue` | RecordSubmission, MarkSent, MarkStatus, DeadLetter, Enqueue, ClaimDue, RecordRetryFailure, Prune, recoverInFlight at Open | every statement or transaction can fail or be the last before a crash; the two tables must agree, acknowledged mail must not be lost, settled mail must stay settled |
| Retry worker (`storage/worker.go`) | the batch it has claimed | Run, ProcessDue, attempt | runs beside the handlers, selects by queue row only; must not send what a handler sends, must climb the whole ladder, must get to every row |
| Degrade gate, maintenance loop (`storage/gate.go`) | one atomic flag | ReportError, the canary probe, hourly pruning | a flag read before a send and used after it; pruning beside everybody |
| HTTP gateway (`gateway/handler.go`) | per-request locals; limiters, caches shared by all requests of an endpoint | one long handler: authentication, idempotency, rate limit, parsing, spam checks, validation, rendering, suppression, send, record, answer | requests interleave at every shared structure; a check configured and not applied; the order of send, record and answer, each of which may fail |
| Idempotency (`idempotency/cache.go`, `durable.go`, `storage/idem.go`) | keys in flight; answers in an LRU or in a table | Lookup, ClaimInFlight, Store, Abandon | requests racing for one key; eviction, expiry, restart |
| SMTP session and listener (`smtp/`) | session state, connection counters, the socket | EHLO, STARTTLS, AUTH, MAIL, RCPT, DATA, RSET; Start, Stop | command sequences, limits, stop racing accept; the end of DATA is the gateway's send path again |
| Inline retry (`transport/retry.go`) and transports (`transport/`) | the connection to a relay | Send, SendWithRetry | errors are classified, an acceptance may be lost on the way back, a relay may stall or refuse encryption at any point |
| Suppressions (`storage/suppression.go`, `cmd/posthorn/suppressions.go`) | table `suppressions` | lookup before a send, list/add/remove from a second process | opening the store of a live server |
| Lifecycle events (`lifecycle/`, `storage/forwardqueue.go`) | table `lifecycle_queue` | normalise an event, suppress, forward, retry | events overtaking the row they belong to; at-least-once forwarding |
| Rate limiter (`ratelimit/`) | token buckets in an LRU | Allow, ClientIP | refill arithmetic, eviction, time read outside the lock |
| Process (`cmd/posthorn/main.go`, `ingress/`) | ingresses, worker context | start, signal, drain, stop | one ingress failing, a worker cut off in a send |
| Spam checks (`spam/`, `reputation/`, `captcha/`, `csrf/`) | a cache of reputations | verdicts in a fixed order, two of them from a provider that may not answer | defaults that differ from check to check, opinions and tokens that grow old |
| Configuration (`config/config.go`), validation, templates, metrics, logging | none to speak of | | what is accepted must be buildable and applied; otherwise text processing and output |

Interaction: both ingresses call the same steps in the same order: ask the suppression
list, record the row, send, then MarkSent, Enqueue or MarkStatus, then answer. The
worker shares nothing with them but the database; the gate is shared by all. The
database has one connection (`SetMaxOpenConns(1)`), which makes every statement and
every transaction atomic; between them everything interleaves. Sends happen outside
transactions. The provider answers later with events that are matched by message id.

`PROJECT.json` lists each hazard at its line, with the properties that watch it.

## Modules

| Module | What it is |
|---|---|
| `MailQueue` | the life of a submission: handlers, tables, gate, worker, pruning, crash and recovery, disk outages |
| `SubmissionLog` | what storage promises of a submission, with none of that in sight |
| `MailQueueCli` | `MailQueue` with the suppressions command run beside it |
| `IdemRequests` | a request with an Idempotency-Key, whichever backend it meets |
| `IdemCache`, `IdemDurable` | the two backends, extending it |
| `IdemContract` | what either promises |
| `Lifecycle` | provider events, the suppression list, the forward queue, against submissions reduced to their fate |
| `SmtpSession` | the commands of SMTP sessions, and the configuration of their listener |
| `Serve` | extends it by the listener (accept loop, slots, Stop), the HTTP server, the signal and the drain |
| `Transports` | one message through one transport: settings, headers, the conversation or the request, retry |
| `SendContract` | what the queue relies on when it hands a message to a transport |
| `RateLimiter` | token buckets in an LRU, as operators |
| `Endpoints` | the configuration of an endpoint and what is built from it, as operators |
| `Gateway` | extends both: the requests of one endpoint up to the send |
| `MailQueueProofs`, `IdemCacheProofs`, `IdemDurableProofs`, `TransportProofs`, `ServeProofs`, `LifecycleProofs`, `GatewayProofs` | the proofs about the module of the name |
| `ListLemmas` | what removing from a list, appending to it and taking its head do to the set of its elements; used by `IdemCacheProofs` and `GatewayProofs` |
| `MC...` | values for TLC |

How they compose. `Serve` runs the sessions of `SmtpSession`, `Gateway` calls `RateLimiter`
and reads `Endpoints`, the backends extend `IdemRequests`. Where two components meet in one
call only, the caller has the call's outcomes and another module shows that there are no
others: `InlineAccepted`, `InlineRefused` and `WorkerSend` of `MailQueue` choose from the
outcomes of `SendContract`, which `Transports` implements; `Deliver` of `Gateway` and the
stage "sending" of a session stand for the handler of `MailQueue`; `Keyed` of `Gateway` for
the claim of `IdemCache`.

### MailQueue

A submission is one request: its id is a fresh UUID, so nothing else ever uses it.

*State.* `status`, `lastErr` are columns of `submissions` (`"none"` before the row
exists, `"pruned"` after retention deleted it); `queue`, `attempt`, `due` are
`retry_queue`. `due` counts ticks from now and stops at `-Lag`: how long a row is
overdue matters only for the order in which rows are claimed. `pc`, `persisted`, `err`,
`reply` are the locals of the handler, one per submission; `selected`, `claimed`,
`current`, `result` those of the worker. `proc`, `healthy`, `diskOk` are the process, the
gate, and whether a write would succeed now. `accepted`, `tries`, `lostAck` record what
has happened, for the properties only.

*Actions.* `Suppress`, `RecordSubmission` / `SkipRecord`, `InlineAccepted` /
`InlineRefused` (SendWithRetry, once or twice), `FinishSent`, `EnqueueRefused`,
`FinishFailed`, `Reply` are ServeHTTP from the suppression check on; `handleDATA` of the SMTP
session has the same steps (250 for 200 and 202, 451 for 502). `SelectDue`, `Claim`,
`ClaimFails`, `WorkerSend`, `WorkerRecord` are the worker: ClaimDue's SELECT, each of its
marks, the send and the record of its result are steps of their own because they are
statements of their own. `Probe` and `Prune` are the maintenance loop, `RecoverInsert`
and `RecoverUpdate` the two statements of recoverInFlight. `Crash`, `DiskFails`,
`DiskRecovers` and `Tick` are the environment.

*Abstractions.* The content of a message is absent. The suppression list is a
nondeterministic verdict. Errors have two classes, retryable or not, which is all any
code path asks of them. A refusal may hide an acceptance (`Refusal`): the transports call
a broken connection transient. While the disk fails writes fail; reads may or may not,
which differs in nothing but extra stutters here. Asking `Healthy` and writing are one
step where no send lies between them: what can come in between (a probe, another
handler's failed write) commutes with the question. Where a send does lie between, the two are
apart, as in the code. Selected and claimed rows are taken in any order, which allows more than the
code. A shutdown is a crash: it ends the same goroutines at the same places, only later. A
transaction that commits and reports an error is not modelled. `Prune` may delete any
settled rows at any time, which stands for any retention and any clock.

### IdemRequests, IdemCache, IdemDurable

A key stands for a pair of endpoint and Idempotency-Key: the in-memory cache exists once
per endpoint, and the table has the endpoint in its primary key. An answer is
represented by the request it was given to, so that a replay says whose answer it hands
out. Everything a handler does between the claim and the deferred finalizeIdempotent is
`Process`, which yields one of four classes of answer.

In `IdemCache` each method is one step, because it holds the mutex throughout; `order` is
the LRU list. In `IdemDurable` the mutex covers the in-flight set only: `LookupInFlight`
and `LookupRow`, `ClaimStored` and `ClaimLocked`, `StoreRow` and `ReleaseClaim` are the
halves of Lookup, ClaimInFlight and Store, and the gate can turn the half that touches
the table into a miss.

### Lifecycle

*State.* `mail`, `to`, `mid` are a submission: its fate, the recipients kept after
filterSuppressed, and the message id MarkSent recorded. `supp` is the table of suppressions.
A post is one HTTP request of the provider: `pc`, `event` are the locals of its handler,
`outcome` the metric it ends in. `rows`, `attempt`, `due` are `lifecycle_queue`; `batch`,
`current`, `result` the locals of RunQueue; `hooks` the endpoints that have a webhook.

*Actions.* `ComeIn` asks the list for every recipient, and a lookup that fails lets the address pass.
`ProviderAccepts`, `ProviderRefuses`, `RecordSent` and `Prune` are what `MailQueue` has in
full. `Post`, `Reject`, `Correlate`, `AutoSuppress`, `Deliver` and `EnqueueForward` are
the handler; each statement or request of it is a step, because a restart or another post
may come in between. `ClaimDueForwards`, `DropUnhooked`, `AttemptForward` and
`RecordForward` are RunQueue. `EditList` is the suppressions command. After `Restart` webhooks may be missing
from the configuration.

*Abstractions.* An event is its record and type as the provider spells them. The payload
of a callback is the post it came from. A receiver's answer is one of three classes, and a
retryable one may hide a reception. The handler writes its 200 first, but net/http keeps it in
a buffer until the handler returns, so a provider that meets a restart posts again.

### SmtpSession and Serve

*State.* `session` is the session struct (TLS, user, certificate, envelope), `stage` what the goroutine of a
connection is doing, `tokens` the bucket of failed AUTHs of an address. `active`, `perIP`
are the slots, `wg` the WaitGroup, `loop` and `held` the accept loop and the connection that Accept
has returned; `http`, `req` the HTTP server and its requests; `smtpStop`, `httpStop`,
`main`, `exit` the two Stops, runIngressesUntilSignal and the exit code. `view` is the
transaction as the client knows it from the replies, `handed` the message passed on.

*Actions.* One per command that changes anything; `RejectBody`, `HandOver`, `Answer` are
the ways out of DATA. `Accept` and `Register` are apart because `wg.Add` comes after
`Accept` has returned; `acquireConnSlot` and `handleConnectionEnds` are the ends of
handleConnection. `Signal`, `ForceExit`, `IngressFails`, `SmtpStop`, `HttpStop`, `Exit`,
`Tick` are the process.

*Abstractions.* A command that is only answered or refused changes nothing and is left
out, so is the greeting. A failed TLS handshake leaves the session as it was. Time passes only while the process
drains, and only against two limits, the 15 s of the drain and the 10 s of a send; a read
deadline may pass at any time once the client has gone silent. Of an HTTP request only its life is
modelled. Replies are written without a write deadline; a client that stops reading is not modelled.

### Transports

*State.* `listener`, `mail`, `caller`, `relay` are chosen at the start: a block of the configuration, a
message, who sends it (a handler with SendWithRetry, or the worker with one Send), and what
the relay is. `stage` says what the client is waiting for, `wire` what the connection is,
`envelope` the recipients accepted on it, `limit` the deadline of the try.

*Actions.* `Load`, `Construct`, `Receive`: the configuration's check, the transport's constructor, the headers
the ingress passes on. Each step of the SMTP conversation is an action, and `SmtpFails` may strike at every
one of them; `Posts` and `PostFails` are the request to a provider, with the statuses each
transport takes for success. `Retry`, `GivesUp` and the classes of `Fails` are SendWithRetry.

*Abstractions.* A setting is "ok" or one of the ways it may be wrong. A reply is one of its classes.
MIME, signatures and JSON bodies are left out; a header value is clean or not. It is assumed
that a provider which answers with a status its transport counts as success has taken the message, that it may
have taken it behind a status of 500 or more or without an answer, and that it has not behind one below.

### RateLimiter, Endpoints, Gateway

*State.* `ep` is an endpoint whose configuration Validate and New accept, `ask` what each
request says, `req` where its handler is. `limiter`, `authFailLimiter` are sequences of
buckets in LRU order, `idem` the keys, `cache` the reputations, `listed` what the provider
thinks at present.

*Actions.* `Challenge`, `NotAllowed`, `ApiRequest`, `FormRequest` are a request's way to the limiter.
`Blame` and `Admit` are apart from them because the clock is read before the mutex
is taken. `ReadBody`, then one action per check in the order of buildFormChecks;
`ProviderLooks` and `LookupReturns` are apart because the cache is not locked during a
lookup. `Submit` and `Deliver` are validation and the rest.

*Abstractions.* Tokens are counted in fractions of 1/interval, so that refill is exact; the rounding of float64 is
left out. Lookup and ClaimInFlight are one step (`IdemCache` has the gap between them). A browser that is redirected
gets the same verdict. The LRU of the reputation cache evicts nothing. A random
proof-of-browser secret, lost at a restart, is not modelled. Sizes are small numbers: the defaults (`DefaultMaxBody`, `DefaultMaxCount`,
`DefaultMaxTotal`) are constants; fields are "ok" or one of the ways in which the validator refuses them. A behaviour has one endpoint; endpoints share nothing
on this stretch.

## Runs

| Run | Bounds | Shows |
|---|---|---|
| `queue_safety` | 2 submissions (one metadata-only), ladder of 2, batch 2, 1 crash, 1 outage | `SingleSender`, `TablesAgree`, `AcknowledgedKept`, `FullLadder`, `CleanRunSendsOnce`, `RefusalIsFinal`, `SettledStaysSettled`, and that `MailQueue` implements `SubmissionLog` |
| `queue_liveness` | 2 submissions, ladder of 2, one row per poll, 1 crash | mail promised with 202 is settled in the end, and no row is starved by the batch limit (`LogFairSpec`, `QueuedSettles`) |
| `idem_cache` | 3 requests for one key, 1 for another, capacity 1, TTL 2, 1 restart | one request at a time per key, faithful replays, one send, and the contract of `IdemContract` |
| `idem_durable` | 3 requests for one key, TTL 2, 1 restart, 1 outage | a retry of an answered request is replayed, across restarts |
| `lifecycle_events` | 2 mails and 1 event, or 1 mail and 2 events; 1 restart, outage or edit; one address in two spellings; ladder of 2 | dead addresses are spared, callbacks kept, delivered once when nothing fails, and settled in the end |
| `serve_drain` | 1 session on listeners of every mode; 2 sessions of one address trying passwords, budget 1; 3 connections for 1 or 2 slots; 2 connections drained; 1 connection and 1 request under 2 signals and 1 failure | slots, envelopes, gates and guesses; the drain outlasts sends, ends, and tells the truth |
| `transport_send` | every transport, right and wrong settings, lists and lines of headers, 2 recipients, deadline 4 against timeouts of 2 and 3 | `SendContract`, whole delivery, nothing in the clear, in time, no surprise after startup |
| `gateway_checks` | 16 endpoints and 14 configurations that are refused, up to 4 requests at once, 2 buckets, requests up to clock 7 (a second is 2 ticks), limits on bodies and files set, unset and off | limits exact both ways, nothing unchecked, tokens and opinions in time, every request answered |
| the others | the smallest instance that shows it | a statement of the documentation the code does not keep, see below |

Why the bounds are enough. Submissions meet only in the worker's batch, in pruning and
in the gate, so two of them show every pairwise interleaving; a ladder of two has a first and a
last rung. One crash can fall at every step, including in recovery. One
outage can begin and end at every step. Three requests are needed on one key: two racing
ones and one that comes after. An event meets later mail (two mails, one event) or another callback
in the queue (one mail, two events). Sessions meet only in slots and in the bucket of their
address: three connections from two addresses fill one cap while the other has room, in either
order, and two from one address draw on its bucket. The limiter needs two callers and a third that evicts; a reputation needs two concurrent lookups and a change
of mind between them. What the bounds leave out the proofs cover, for the modules that have them.

With `CHECK_DEADLOCK FALSE` in the idempotency, lifecycle and serve runs the system stops
when all requests, posts or connections are done and the process has nothing left to do.

Fairness is what the code schedules, and nothing is assumed of clients, providers, receivers
and relays, which may refuse or fall silent for ever.

- `MailQueue`: the worker loop polls for ever (`Worker.Run`), time passes, a handler that
  started runs to its end (it has a hard timeout), a supervisor restarts a dead process, and
  a broken disk is repaired. Crashes and outages are finite in number, by the bounds.
- `Lifecycle`: RunQueue polls for ever, the probe runs, time passes, an outage ends.
- `Serve`: the goroutine of a session runs on when it does not wait for its client, and its read deadline
  passes when it does; a send ends (it has a timeout); the drain goes on and its clock with it.
- `Gateway`: some handler that can go on does, and time passes; an http.Client gives up at its timeout.

### Statements the code does not keep

Each is a run of its own that ends in a violation.

- *Duplicates without a crash* (`cli_duplicates`). `storage.mdx` bounds
  duplicates to crashes. The suppressions command, which runs recoverInFlight on the live
  file, queues what handlers are sending.
- *Two sends for one key* (`idem_durable_race`): the durable backend checks the table before
  it takes the lock.
- *202 is not replayed* (`idem_queued`), though FR81 says it is.
- *Tokens come of age early* (`gateway_min_age`): `config.go:398` and `reference.mdx:182` say that a proof-of-browser
  token is rejected if it is submitted sooner than `min_age` after it was issued. Its timestamp is cut to whole seconds, so one
  handed out late in a second is taken up to a second sooner. `TokenTimely` states what the stamp does allow to be kept.

### Met while modelling

Not runs of their own; the models do what the code does.

- A failed MarkSent after an accepted send leaves the row due, and the worker sends it again at
  every poll while writes fail. If both writes after a refused send fail the client hears 502,
  the row stays "sending", and the next start queues it. `CleanRunSendsOnce` and
  `RefusalIsFinal` are stated for a working disk.
- `smtpout.go:206` calls network errors and timeouts transient; those that fall into the TLS handshake or
  STARTTLS end terminal. `smtpout.go:210` and `:285` call a failed AUTH terminal; one refused with
  4xx, or by net/smtp itself on a plaintext connection, is retried.
- A webhook or provider that answers 301, 302 or 303 is asked again with a GET, and the status of
  that page counts: `diverted` in `SendContract`.
- The suppression list is asked when mail comes in; queued mail replays its recorded recipients.
- Once Stop has found no session, one connection that was accepted before the socket was
  closed can still be counted: `ExitHonest` allows exactly that one. An SMTP session that sits idle keeps the
  drain waiting until its deadline, and the exit code is 1.
- Recovery queues metadata-only rows too (`storage.go:255`), which have nothing to send, though FR77 and the comment at
  `storage.go:272` say they are not eligible. `RecoverInsert` does so, with the metadata-only submission of `queue_safety`.
- A try that ends the process is not counted (`worker.go:136`): mail that makes it crash is claimed again after each restart.
- A captcha is spent before the fields are validated: who corrects a form answered with 422 needs a new one,
  and is dropped with a 200 without it.
- `max_body_size`, `trusted_proxies` and the syntax of templates are checked by New, not by Validate.
- MaxRecipientsPerSession is counted per transaction.

## Proofs

The proofs rest on the named assumptions of the modules: naturals for bounds and limits, finitely
many connections, `SendMax < Deadline` in `Serve` (10 s and 15 s in the code), a ladder
with at least one rung. `MailAssumption` of `Transports` and `CasesAssumption` of `Gateway` say of what shape a
message and an endpoint are (`Numbers`: the numbers of a configuration are integers, right or wrong), and that
a client is not one of the trusted proxies and comes directly or through those; `KeysAssumption` that an
Idempotency-Key is not the empty string, which stands for none. Nothing else is fixed: not the number of
submissions, requests, connections or messages, not the configuration, not what is forged.

### MailQueueProofs

`TypeCorrect`; `Inductive` (the invariant `IInv`); from it `OneSender`,
`TablesAlwaysAgree`, `QueuedMailKept`, `LadderClimbed`, `RefusalsFinal`;
`CleanRunsSendOnce`, from `IInv` and `CountInv`; the action property
`SettledRowsStaySettled`; `ImplementsLog`: `MailQueue` implements `SubmissionLog`.

`SingleSender` is not inductive: that no queue row exists while a handler runs says nothing
of the row it is about to insert, or of a worker that already holds the id. `IInv` adds
who owns a submission at each stage of its handler and what its row says then
(`Ownership`), the order in which the worker passes its entries along (`WorkerTurns`),
what backs an answer from the moment it is decided, before the client has it
(`WordKept`), the accounting of tries, with the one that is under way (`TriesCounted`), and that a
process that is down runs nothing, and has queued every "sending" row between the two
statements of recovery (`AtRest`). `CountInv` is relative to it: while nothing has failed,
tries are failures counted plus the one under way, and a message not known as sent has
not been taken. The refinement rests on two lemmas, `HandlerMoves` and `WorkerMoves`, which say that a step
touches the fate or the answer of one submission, and how.

### IdemCacheProofs, IdemDurableProofs

In memory: `TypeCorrect`, `ClaimsHeldByHandlers`, `ReplaysFaithful`, `KeysSendOnce`, `ImplementsContract`. The invariant adds to
`ClaimsMatchHandlers` how far a request can be when it knows what (`Progress`), that whatever
is cached was an answer of its key and nothing valid is cached for a key in flight
(`Kept`), and that a key whose mail was sent is answered from the cache until its answer
is forgotten (`Remembered`). None of that depends on the order of the LRU list. `TypeCorrect` is about the list:
list and map hold the same keys, each once, and no more than fit, so what Store evicts is always there.

On disk: `ClaimsHeldByHandlers`, `ReplaysFaithful`, `RetriesReplayed`. `RetryReplayed` needs that an answer is in the table before its
claim is given up (`Committed`), and that a retry past the table saw no row there
(`LookedFirst`). `SentOnce` is not among them: the code does not keep it.

### TransportProofs

`NeverDowngraded`, `SendsReturn`, `ImplementsContract`, `Delivered`, `NoSurprise`. The invariant counts tries and copies by
stage (`Counted`), keeps the clock under the try's limit and that under the caller's
(`InTime`), and says at which stages a connection is encrypted under each setting
(`Private`). For the contract, only a loss of the connection after the body, never a
verdict, may hide an acceptance.

`Delivered` and `NoSurprise` have an invariant of their own (`InductiveWhole`): the recipients accepted on the
connection are the first ones of the message, in order, and all of them once DATA begins; from the start of a send
to its end the header lines are those the listener took from the message, each free of line breaks, which is why
the second check lets them through.

### ServeProofs

`SlotsAlwaysExact`, `RelaysAuthorised`, `EnvelopesKept`, `GuessesCounted`,
`DrainsOutlastSends`, `ExitsHonest`. Of a session the invariant says (`Sane`) that its
transaction is the one its client was told of, that whom it takes the client for was
proved on this very layer, and that a transaction once open was entitled to. Of the process, that a connection
accepted and not yet counted is the one the loop holds (`Doorway`), that slots and WaitGroup
are the sizes of the sets of sessions at those stages (`Counts`), what a Stop that has returned had seen
(`Clocked`, `HttpDone`, `SmtpDone`), that the wrong passwords tried from an address, by whichever of its sessions, and the
tokens left in its bucket are together the budget and its refills (`Accounted`), and that the time left to an early send and the clock of the drain
add up to no more than a send may take (`EarlySends`). `ExitHonest` follows because all latecomers are the
one connection that was at the door.

### LifecycleProofs

`DeadAddressesSpared`, `ForwardsKept`, `ForwardsOnce`, for every set of mails, posts and addresses, every ladder,
batch size and number of restarts, outages and edits. The invariant says that a row of the queue is a post
that was counted as queued and what the worker holds of it is on record (`Ledger`), that without a failure
every try was counted and a callback received beyond doubt is not tried again (`Once`), and
that whatever was reported is on the list in normal form (`Listed`). `ForwardedOnce` alone is not inductive: the
second reception is excluded by what happened at the first. A write that fails leaves a try uncounted, so
`Once` needs that only a counted fault makes the disk fail (`Calm`).

### GatewayProofs

`Inductive` (the invariant `CInv`) and from it `Unchecked`, `Tokens`, `Opinions`; `Accounts` (the invariant
`LInv`, relative to `CInv`) and from both `Limited`, `Owed`, `TypeCorrect`.

`NothingUnchecked`, `TokenTimely` and `OpinionFresh` speak of a request that is handed on, when the
checks are long over. `CInv` carries them through: once a request is past the limiter its caller was entitled
to ask (`Entered`), and once its body is read every configured check is either still on its list or one it
has `Passed`, with what the check saw (`Stands`). `Waits` says that a check under way is the first on the list, and
bounds its call by its timeout. `Stamped` has of every token what its stamp lost, `Cached` of every opinion that it
expires no later than a ttl and one call after it was formed. That opinions may be cached out of order needs no
more: a late answer is bounded by its own call.

`NothingUnchecked` speaks of limits as the documentation has them, with a default for what is not set, the code of what New has
made of them: `LimitsAre` and `BodiesAllowed` show that for every accepted configuration they agree. A CSRF token is judged
by the time at which it was looked at (`signed`), which `Stands` keeps.

For the limiters each caller has a history of requests, with the time each read before it took the lock. `RateHeld`
looks at any stretch of it, so it is not inductive. `Account` relates a bucket to all stretches
that end now: what was let in and the tokens left are together at most a full bucket and the refill since the
stretch began; and exactly that for some stretch that began with a request let in on a full bucket. The first half
is what a new request needs to keep the limit, the second to be refused only when the tokens
are gone (`Owed`). A time that is older than the last one, as two handlers may bring it, gains nothing and sets
nothing back. `Roster` says that a caller has one bucket and the list never more than fit. `RosterKeeps` and
`LedgerKeeps` show this of one call of the limiter, whoever is evicted. `ChainIs` and `FromIs` show that ClientIP finds the
client behind any number of trusted proxies, whatever it wrote into X-Forwarded-For itself. The statements
are about tokens in fractions of 1/interval, as the model is: rounding is outside the proofs too.

### Only model-checked

All liveness (`LogFairSpec`, `QueuedSettles`, `ForwardsSettle`, `DrainEnds`, `SlotsComeBack`,
`Answered`), since fairness and ENABLED are out of the prover's reach. Every invariant and every action property of a
passing run has a theorem. `MailQueueCli` has none: its run shows what the command breaks.

## Plan

1. *Done.* Mail queue, idempotency, lifecycle events and forwards, SMTP sessions, listener, process,
   transports, rate limiter, gateway, each with its runs; abstract specifications of the log, the
   idempotent request and the send.
2. *Done.* Proofs of `MailQueue`, both idempotency backends, `Transports`, `Serve`, `Lifecycle` and `Gateway`.
3. *Left.* Contracts of the listener and of the forward queue, as abstract specifications that `Serve` and
   `Lifecycle` implement; which properties of `MailQueue` survive the command of `MailQueueCli`.

## Not modelled

- Schema migration, the page limit of the database, read-only listings: no behaviour the properties could be about.
- Startup before the ingresses run, and `checkUnnamedListenerQueue`: one pass, no concurrency.
- TOML parsing, environment variables, the blocks of the configuration other than endpoints, listeners and transports.
- Templates, HTML to text, response texts, message parsing, MIME, wire formats and signatures of providers: text.
- Metrics and logging: output only. The provider test battery: run by hand.
