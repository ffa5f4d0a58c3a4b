------------------------------ MODULE Gateway ------------------------------
(***************************************************************************)
(* What one endpoint's handler does with its requests before a message is  *)
(* handed to storage and transport: who may ask, how often, and which      *)
(* checks a form has to pass.  Requests run concurrently and share the     *)
(* rate limiters, the idempotency cache and the reputation cache.          *)
(*                                                                         *)
(* The idempotency cache is the one of module IdemCache with its two calls *)
(* taken together, and the send is one step (modules MailQueue and         *)
(* Transports have it).  An answer is its status; that a browser is        *)
(* redirected instead is left out, and so is what makes a cached           *)
(* reputation be dropped before its time.                                  *)
(***************************************************************************)
EXTENDS RateLimiter, Endpoints

CONSTANTS
  Ids,          \* numbers of the requests, 1 .. their number
  Cases,        \* bound: [endpoint, traffic, horizon, doubtful]: an endpoint,
                \* for each number the requests that may come, the last tick
                \* one may come in, and the identities the reputation provider
                \* may change its mind about
  Callers,      \* addresses of clients, of proxies, and API keys
  Keys,         \* Idempotency-Keys
  Second,       \* ticks to a second, the grain of a token's timestamp
  AuthBudget, AuthInterval    \* defaultAuthFailureBudget, ...Interval

ASSUME GatewayAssumption ==
  /\ Ids \subseteq Nat /\ IsFiniteSet(Ids) /\ Second \in Nat \ {0}
  /\ AuthBudget \in Nat \ {0} /\ AuthInterval \in Nat \ {0}

ASSUME KeysAssumption == "" \notin Keys

\* A client is not one of the proxies the operator trusts, and its requests
\* come to the gateway directly or through those.
Reaches(a, e) ==
  /\ a.client \in Callers \ (e.proxies \cup {""})
  /\ a.via \in Seq(e.proxies) /\ a.forged \in Seq(ToSet(a.forged))

ASSUME CasesAssumption ==
  \A c \in Cases :
    /\ Numbers(c.endpoint) /\ c.endpoint.keys \subseteq Callers
    /\ \A i \in DOMAIN c.traffic : \A a \in c.traffic[i] : Reaches(a, c.endpoint)

VARIABLES
  ep, ask,      \* the endpoint, and what each request asks; chosen at
  bound,        \* the start with the case's [horizon, doubtful]
  clock,
  req,          \* where the handler of each request is
  limiter, authFailLimiter,
  idem,         \* Idempotency-Key -> free, claimed, or the status kept
  cache,        \* the reputation cache
  listed,       \* identities the reputation provider warns of
  \* history: proof-of-browser tokens handed out; the requests that met a
  \* caller's bucket since that bucket is there, per limiter and caller
  issued, met

setup == <<ep, ask, bound>>
vars  == <<setup, clock, req, limiter, authFailLimiter, idem, cache, listed, issued, met>>

Limiters == {"rate", "auth"}
AuthRate == [count |-> AuthBudget, interval |-> AuthInterval]
RateOf(w) == IF w = "auth" THEN AuthRate ELSE ep.rate

Stages  == {"idle", "blame", "limit", "body", "checks", "captcha", "lookup", "looked", "sending", "done"}
Waiting == {"captcha", "lookup", "looked"}
NoToken == [at |-> -1, stamp |-> -1]
Unasked == [reply |-> "none", at |-> 0, used |-> 0]
Free    == 0
Claimed == 1

Unread ==
  [stage |-> "idle", at |-> 0, claim |-> FALSE, token |-> NoToken, todo |-> <<>>,
   until |-> 0, human |-> "none", signed |-> 0, proved |-> 0, opinion |-> Unasked, answer |-> 0]

\* An endpoint that is not valid, or that New cannot build, is refused at startup.
Init ==
  /\ \E c \in Cases :
       /\ Valid(c.endpoint) /\ Builds(c.endpoint) /\ ep = c.endpoint
       /\ bound = [horizon |-> c.horizon, doubtful |-> c.doubtful]
       /\ ask \in {f \in [DOMAIN c.traffic -> UNION ToSet(c.traffic)] : \A i \in DOMAIN f : f[i] \in c.traffic[i]}
       /\ req = [i \in Ids |-> IF i \in DOMAIN c.traffic THEN Unread ELSE [Unread EXCEPT !.stage = "done"]]
  /\ clock = 0
  /\ limiter = <<>> /\ authFailLimiter = <<>>
  /\ idem = [k \in Keys |-> Free]
  /\ cache = {} /\ listed = {} /\ issued = {}
  /\ met = [w \in Limiters |-> [c \in Callers |-> <<>>]]

-----------------------------------------------------------------------------
(* How a handler goes on, and how it ends.                                 *)

\* 200 and 422 are kept for the next request with the key; anything else
\* gives the key back.
finalizeIdempotent(status) == IF status \in {200, 422} THEN status ELSE Free

Goes(i, r) == req' = [req EXCEPT ![i] = r] /\ UNCHANGED idem
Answers(i, r, status) ==
  /\ req' = [req EXCEPT ![i] = [Unread EXCEPT !.stage = "done", !.answer = status]]
  /\ idem' = IF r.claim THEN [idem EXCEPT ![ask[i].idem] = finalizeIdempotent(status)] ELSE idem

\* A verdict is the status that ends the request, 0 to let it pass.
Passes == 0
Judged(i, r, verdict) ==
  IF verdict = Passes THEN Goes(i, [r EXCEPT !.stage = "checks", !.todo = Tail(@), !.until = 0])
                      ELSE Answers(i, r, verdict)

In(i, stage) == req[i].stage = stage

-----------------------------------------------------------------------------
(* A request comes in: method, caller, Idempotency-Key, content type.      *)

Arrives(i) == In(i, "idle") /\ clock <= bound.horizon /\ (i > 1 => ~In(i - 1, "idle"))

Peer(a)      == IF a.via = <<>> THEN a.client ELSE a.via[Len(a.via)]
Forwarded(a) == IF a.via = <<>> THEN a.forged ELSE a.forged \o <<a.client>> \o SubSeq(a.via, 1, Len(a.via) - 1)

\* Mutant: a proxy is taken for the client.
From_Peer(a) == Peer(a)

From(a) == ClientIP(ep, Peer(a), Forwarded(a))

ForeignOrigin(a) == There(ep.origins) /\ a.origin \notin ep.origins
Admits(r) == IF There(ep.rate) THEN [r EXCEPT !.stage = "limit", !.at = clock] ELSE [r EXCEPT !.stage = "body"]

\* serveChallenge: a request without an Origin is answered as well.
Challenge(i) ==
  LET a == ask[i] IN
  /\ Arrives(i) /\ a.method = "GET" /\ There(ep.pob)
  /\ IF a.origin # "" /\ ForeignOrigin(a)
       THEN Answers(i, req[i], 403) /\ UNCHANGED issued
       ELSE /\ Answers(i, req[i], 200)
            /\ issued' = issued \cup {[at |-> clock, stamp |-> clock - (clock % Second)]}
  /\ UNCHANGED <<setup, clock, limiter, authFailLimiter, cache, listed, met>>

NotAllowed(i) ==
  /\ Arrives(i) /\ ask[i].method # "POST" /\ ~(ask[i].method = "GET" /\ There(ep.pob))
  /\ Answers(i, req[i], 405)
  /\ UNCHANGED <<setup, clock, limiter, authFailLimiter, cache, listed, issued, met>>

\* Every later request with the key, while the first is worked on or after
\* its answer was kept, is answered without a token being taken.
Keyed(i, r, k) ==
  \/ k = "" /\ Goes(i, Admits(r))
  \/ k \notin Keys \cup {""} /\ Answers(i, r, 400)
  \/ /\ k \in Keys /\ idem[k] = Free
     /\ idem' = [idem EXCEPT ![k] = Claimed]
     /\ req' = [req EXCEPT ![i] = [Admits(r) EXCEPT !.claim = TRUE]]
  \/ k \in Keys /\ idem[k] = Claimed /\ Answers(i, r, 409)
  \/ k \in Keys /\ idem[k] \notin {Free, Claimed} /\ Answers(i, r, idem[k])

ApiRequest(i) ==
  /\ Arrives(i) /\ ask[i].method = "POST" /\ api(ep)
  /\ IF ask[i].credential \in ep.keys
       THEN Keyed(i, req[i], ask[i].idem)
       ELSE Goes(i, [req[i] EXCEPT !.stage = "blame", !.at = clock])
  /\ UNCHANGED <<setup, clock, limiter, authFailLimiter, cache, listed, issued, met>>

\* A form may carry any token that was handed out by now.
FormRequest(i) ==
  LET a == ask[i]
      Tokens == IF a.token = "fetched" /\ issued # {} THEN issued ELSE {NoToken}
  IN
  /\ Arrives(i) /\ a.method = "POST" /\ ~api(ep)
  /\ IF a.type \notin {"form", "multipart"} THEN Answers(i, req[i], 400)
     ELSE IF ForeignOrigin(a) THEN Answers(i, req[i], 403)
     ELSE \E t \in Tokens : Goes(i, [Admits(req[i]) EXCEPT !.token = t])
  /\ UNCHANGED <<setup, clock, limiter, authFailLimiter, cache, listed, issued, met>>

-----------------------------------------------------------------------------
(* The two limiters.  The clock was read before the lock was taken.        *)

\* A limiter's decision enters the history under the caller's own name; the
\* time that counts there is the latest one yet.
Enter(w, caller, at, decision, evicted) ==
  LET s == met[w][caller]
      now == IF s # <<>> /\ s[Len(s)].at > at THEN s[Len(s)].at ELSE at
  IN met' = [met EXCEPT ![w] = [c \in Callers |->
               IF c = caller THEN Append(s, [at |-> now, ok |-> decision])
               ELSE IF c \in evicted THEN <<>> ELSE met[w][c]]]

Blame(i) ==
  LET r == req[i]  k == From(ask[i])  d == allowAt(authFailLimiter, k, AuthRate, r.at) IN
  /\ In(i, "blame")
  /\ authFailLimiter' = d.limiter
  /\ Answers(i, r, IF d.ok THEN 401 ELSE 429)
  /\ Enter("auth", ask[i].client, r.at, d.ok, Evicted(authFailLimiter, k))
  /\ UNCHANGED <<setup, clock, limiter, cache, listed, issued>>

RateKey(a) == IF api(ep) THEN a.credential ELSE From(a)
Admit(i) ==
  LET r == req[i]  k == RateKey(ask[i])  d == allowAt(limiter, k, ep.rate, r.at) IN
  /\ In(i, "limit")
  /\ limiter' = d.limiter
  /\ IF d.ok THEN Goes(i, [r EXCEPT !.stage = "body", !.at = 0]) ELSE Answers(i, r, 429)
  /\ Enter("rate", IF api(ep) THEN ask[i].credential ELSE ask[i].client, r.at, d.ok, Evicted(limiter, k))
  /\ UNCHANGED <<setup, clock, authFailLimiter, cache, listed, issued>>

-----------------------------------------------------------------------------
(* The body. *)

TotalSize(files) == FoldSeq(LAMBDA f, n : f.size + n, 0, files)
vet(p, files) ==
  /\ Len(files) <= EffectiveMaxCount(p)
  /\ \A f \in ToSet(files) : f.type \in p.types
  /\ TotalSize(files) <= EffectiveMaxTotalSize(p)

FilesVerdict(a) ==
  CASE a.files = <<>> -> Passes
    [] a.files # <<>> /\ ~There(ep.attachments) -> IF api(ep) THEN 422 ELSE Passes
    [] a.files # <<>> /\ There(ep.attachments) ->
         IF ~api(ep) /\ a.type # "multipart" THEN Passes
         ELSE IF \E f \in ToSet(a.files) : f.type = "unreadable" THEN 400
         ELSE IF vet(ep.attachments, a.files) THEN Passes ELSE 422

BodyVerdict(a) ==
  IF api(ep) /\ a.type # "json" THEN 415
  ELSE IF maxBodySize(ep) > 0 /\ a.size > maxBodySize(ep) THEN 413
  ELSE IF a.malformed THEN 400
  ELSE FilesVerdict(a)

ReadBody(i) ==
  /\ In(i, "body")
  /\ IF BodyVerdict(ask[i]) = Passes
       THEN Goes(i, [req[i] EXCEPT !.stage = "checks", !.todo = formChecks(ep)])
       ELSE Answers(i, req[i], BodyVerdict(ask[i]))
  /\ UNCHANGED <<setup, clock, limiter, authFailLimiter, cache, listed, issued, met>>

-----------------------------------------------------------------------------
(* The checks of a form.  A bot that a silent one catches sees a success.  *)

Upcoming(i, check) == In(i, "checks") /\ req[i].todo # <<>> /\ Head(req[i].todo) = check

honeypot(i) ==
  /\ Upcoming(i, "honeypot")
  /\ Judged(i, req[i], IF ask[i].trap THEN 200 ELSE Passes)
  /\ UNCHANGED <<setup, clock, limiter, authFailLimiter, cache, listed, issued, met>>

\* A stamp is -1 for a token that is not there, malformed or forged; one of
\* the future is taken.
csrfVerify(stamp, ttl, now) == stamp # -1 /\ now - stamp <= ttl

csrf(i) ==
  /\ Upcoming(i, "csrf")
  /\ Judged(i, [req[i] EXCEPT !.signed = clock], IF csrfVerify(ask[i].csrf, csrfTTL(ep), clock) THEN Passes ELSE 403)
  /\ UNCHANGED <<setup, clock, limiter, authFailLimiter, cache, listed, issued, met>>

\* Mutant: a token is good as long as it is signed.
pobVerify_Ageless(p, stamp, now) == stamp # -1

pobVerify(p, stamp, now) ==
  /\ csrfVerify(stamp, pobTTL(p), now)
  /\ p.minAge > 0 => now - stamp >= p.minAge

proofOfBrowser(i) ==
  /\ Upcoming(i, "proof_of_browser")
  /\ Judged(i, [req[i] EXCEPT !.proved = clock],
            IF pobVerify(ep.pob, req[i].token.stamp, clock) THEN Passes ELSE 403)
  /\ UNCHANGED <<setup, clock, limiter, authFailLimiter, cache, listed, issued, met>>

\* An empty token fails without the provider being asked.
captcha(i) ==
  /\ Upcoming(i, "captcha")
  /\ IF ask[i].widget
       THEN Goes(i, [req[i] EXCEPT !.stage = "captcha", !.until = clock + captchaTimeout(ep.captcha)])
       ELSE Answers(i, req[i], 200)
  /\ UNCHANGED <<setup, clock, limiter, authFailLimiter, cache, listed, issued, met>>

captchaVerdict(reply) ==
  IF reply = "accepted" \/ (reply = "error" /\ captchaFailsOpen(ep.captcha)) THEN Passes ELSE 200

CaptchaReply(i) ==
  /\ In(i, "captcha")
  /\ \E reply \in {"accepted", "rejected"} : Judged(i, [req[i] EXCEPT !.human = reply], captchaVerdict(reply))
  /\ UNCHANGED <<setup, clock, limiter, authFailLimiter, cache, listed, issued, met>>

-----------------------------------------------------------------------------
(* Reputation: the last check, through a cache that a lookup is not        *)
(* serialised with.                                                        *)

Identity(a) == <<a.email, From(a)>>
Asked(a) == (IF "email" \in ep.reputation.check /\ a.email # "" THEN {a.email} ELSE {})
              \cup (IF "ip" \in ep.reputation.check THEN {From(a)} ELSE {})

\* Mutant: what is in the cache is good for ever.
Hit_Old(i) == {c \in cache : c.who = Identity(ask[i])}

Hit(i) == {c \in cache : c.who = Identity(ask[i]) /\ clock < c.expires}

reputationVerdict(reply) ==
  IF reply = "clean" \/ (reply = "error" /\ reputationFailsOpen(ep.reputation)) THEN Passes ELSE 403

reputation(i) ==
  /\ Upcoming(i, "reputation")
  /\ IF Hit(i) = {}
       THEN Goes(i, [req[i] EXCEPT !.stage = "lookup", !.until = clock + lookupTimeout(ep.reputation)])
       ELSE \E c \in Hit(i) :
              Judged(i, [req[i] EXCEPT !.opinion = [reply |-> c.reply, at |-> c.at, used |-> clock]],
                     reputationVerdict(c.reply))
  /\ UNCHANGED <<setup, clock, limiter, authFailLimiter, cache, listed, issued, met>>

ProviderLooks(i) ==
  /\ In(i, "lookup")
  /\ Goes(i, [req[i] EXCEPT !.stage = "looked",
        !.opinion = [reply |-> IF Asked(ask[i]) \cap listed = {} THEN "clean" ELSE "blocked",
                     at |-> clock, used |-> 0]])
  /\ UNCHANGED <<setup, clock, limiter, authFailLimiter, cache, listed, issued, met>>

LookupReturns(i) ==
  LET r == req[i]  who == Identity(ask[i]) IN
  /\ In(i, "looked")
  /\ cache' = {c \in cache : c.who # who}
                \cup {[who |-> who, reply |-> r.opinion.reply, at |-> r.opinion.at,
                       expires |-> clock + cacheTTL(ep.reputation)]}
  /\ Judged(i, [r EXCEPT !.opinion.used = clock], reputationVerdict(r.opinion.reply))
  /\ UNCHANGED <<setup, clock, limiter, authFailLimiter, listed, issued, met>>

\* Mutant: the lookup has no timeout.
CheckErrs_Captcha(i) ==
  /\ In(i, "captcha")
  /\ Judged(i, [req[i] EXCEPT !.human = "error"], captchaVerdict("error"))
  /\ UNCHANGED <<setup, clock, limiter, authFailLimiter, cache, listed, issued, met>>

\* No answer in time, or one that cannot be used; nothing is cached.
CheckErrs(i) ==
  /\ req[i].stage \in Waiting
  /\ IF In(i, "captcha")
       THEN Judged(i, [req[i] EXCEPT !.human = "error"], captchaVerdict("error"))
       ELSE Judged(i, [req[i] EXCEPT !.opinion = [reply |-> "error", at |-> clock, used |-> clock]],
                   reputationVerdict("error"))
  /\ UNCHANGED <<setup, clock, limiter, authFailLimiter, cache, listed, issued, met>>

-----------------------------------------------------------------------------
(* Validation, rendering, recipients; then storage and transport.          *)

Submission(a) ==
  IF a.fields \in {"missing", "no_address"} THEN 422
  ELSE IF a.fields = "unrenderable" THEN 500
  ELSE IF api(ep) /\ a.override \in {"empty", "no_address"} THEN 422
  ELSE IF ep.dryRun THEN 200
  ELSE Passes

Submit(i) ==
  /\ In(i, "checks") /\ req[i].todo = <<>>
  /\ IF Submission(ask[i]) = Passes
       THEN Goes(i, [req[i] EXCEPT !.stage = "sending"])
       ELSE Answers(i, req[i], Submission(ask[i]))
  /\ UNCHANGED <<setup, clock, limiter, authFailLimiter, cache, listed, issued, met>>

\* Sent or suppressed, queued, failed.
Deliver(i) ==
  /\ In(i, "sending")
  /\ \E status \in {200, 502} \cup (IF api(ep) THEN {202} ELSE {}) : Answers(i, req[i], status)
  /\ UNCHANGED <<setup, clock, limiter, authFailLimiter, cache, listed, issued, met>>

-----------------------------------------------------------------------------
\* The provider changes its mind about somebody.
Relist ==
  /\ clock <= bound.horizon
  /\ \E who \in bound.doubtful : listed' = IF who \in listed THEN listed \ {who} ELSE listed \cup {who}
  /\ UNCHANGED <<setup, clock, req, limiter, authFailLimiter, idem, cache, issued, met>>

\* http.Client ends a call at its timeout.
Tick ==
  /\ clock < bound.horizon \/ \E i \in Ids : req[i].stage \in Waiting
  /\ \A i \in Ids : req[i].stage \in Waiting => clock < req[i].until
  /\ clock' = clock + 1
  /\ UNCHANGED <<setup, req, limiter, authFailLimiter, idem, cache, listed, issued, met>>

Handle(i) ==
  \/ Blame(i) \/ Admit(i) \/ ReadBody(i)
  \/ honeypot(i) \/ csrf(i) \/ proofOfBrowser(i) \/ captcha(i) \/ reputation(i)
  \/ LookupReturns(i) \/ Submit(i) \/ Deliver(i)

Request(i) == Challenge(i) \/ NotAllowed(i) \/ ApiRequest(i) \/ FormRequest(i)

\* Nothing is left to come.
Over == (\A i \in Ids : In(i, "done") \/ (In(i, "idle") /\ clock > bound.horizon)) /\ UNCHANGED vars

Next ==
  \/ \E i \in Ids : Request(i) \/ Handle(i) \/ CaptchaReply(i) \/ ProviderLooks(i) \/ CheckErrs(i)
  \/ Relist \/ Tick \/ Over

\* Some handler runs on while one can, and time passes; clients and providers
\* do what they like, but a call that is not answered ends at its timeout.
Works(i) == Handle(i) \/ (clock = req[i].until /\ CheckErrs(i))
Fairness == WF_vars(\E i \in Ids : Works(i)) /\ WF_vars(Tick)

Spec     == Init /\ [][Next]_vars
FairSpec == Spec /\ Fairness

-----------------------------------------------------------------------------
TypeOK ==
  /\ clock \in Nat
  /\ \A i \in Ids :
       /\ req[i].stage \in Stages /\ req[i].claim \in BOOLEAN
       /\ req[i].token \in issued \cup {NoToken}
       /\ ToSet(req[i].todo) \subseteq Configured(ep)
       /\ req[i].answer \in {0, 200, 202, 400, 401, 403, 405, 409, 413, 415, 422, 429, 500, 502}
       /\ (req[i].answer # 0) => In(i, "done")
  /\ \A k \in Keys : idem[k] \in {Free, Claimed, 200, 422}
  /\ \A l \in {limiter, authFailLimiter} : Len(l) <= MaxKeys
  /\ \A b \in ToSet(limiter) : b.tokens \in 0 .. Full(ep.rate)
  /\ \A b \in ToSet(authFailLimiter) : b.tokens \in 0 .. Full(AuthRate)
  /\ \A c, d \in cache : c.who = d.who => c = d

-----------------------------------------------------------------------------
(* Limits. *)

Let_in(s, a, b) == Cardinality({n \in a .. b : s[n].ok})
Worth(s, a, b, rate) == Full(rate) + (s[b].at - s[a].at) * rate.count

\* However requests interleave between reading the clock and taking the lock,
\* and whatever a client writes into X-Forwarded-For, a caller is let in, from
\* any of its requests to any later one, no more often than a full bucket and
\* the refill of the time between them allow (allowAt, ClientIP).  A caller
\* whose bucket was evicted starts anew.
RateHeld ==
  \A w \in Limiters : \A c \in Callers : LET s == met[w][c] IN
    \A a, b \in 1 .. Len(s) : a <= b /\ s[a].ok /\ s[b].ok =>
      Let_in(s, a, b) * RateOf(w).interval <= Worth(s, a, b, RateOf(w))

\* And it is turned away only when one request more would have been too many:
\* what is answered before the limiter (a replay, a foreign origin, a call with
\* a good key as far as failed ones are limited) has cost it nothing
\* (ServeHTTP, allowAt).
NeverOvercharged ==
  \A w \in Limiters : \A c \in Callers : LET s == met[w][c] IN
    \A b \in 1 .. Len(s) : ~s[b].ok => \E a \in 1 .. b - 1 :
      s[a].ok /\ (Let_in(s, a, b) + 1) * RateOf(w).interval > Worth(s, a, b, RateOf(w))

-----------------------------------------------------------------------------
(* Checks. *)

\* A number that is not set is 0.
OrDefault(limit, default) == IF limit = 0 THEN default ELSE limit

\* No limit at all is a max_body_size of 0.
TooLarge(a) ==
  IF There(ep.maxBody)
    THEN ep.maxBody # 0 /\ a.size > ep.maxBody
    ELSE a.size > DefaultMaxBody + (IF There(ep.attachments) THEN EffectiveMaxTotalSize(ep.attachments) ELSE 0)

\* Of a form to an endpoint without [attachments] no file is handed on.
FilesAllowed(a) ==
  IF There(ep.attachments)
    THEN a.type # "form" /\ a.files # <<>> =>
           /\ Len(a.files) <= OrDefault(ep.attachments.maxCount, DefaultMaxCount)
           /\ \A f \in ToSet(a.files) : f.type \in ep.attachments.types
           /\ TotalSize(a.files) <= EffectiveMaxTotalSize(ep.attachments)
    ELSE api(ep) => a.files = <<>>

BodyAllowed(a) ==
  /\ ~a.malformed /\ ~TooLarge(a) /\ FilesAllowed(a)
  /\ a.fields \notin {"missing", "no_address", "unrenderable"}

\* Nothing is handed on that any check set in the endpoint's configuration
\* should have stopped, by what the client really sent, when it was looked at,
\* and what the providers really said: the key or the origin, the type of the
\* request, the size of its body, its files, its fields and the recipients it
\* asks for, the honeypot, the signature and age of a CSRF token, the origin of
\* a proof of browser (its age is TokenTimely's), captcha and reputation.  A
\* provider that did not answer counts against the submission unless the
\* operator said otherwise (New, buildFormChecks, Validate, ServeHTTP).
NothingUnchecked ==
  \A i \in Ids : In(i, "sending") => LET r == req[i]  a == ask[i] IN
    /\ a.method = "POST" /\ ~ep.dryRun
    /\ IF api(ep)
         THEN a.credential \in ep.keys /\ a.type = "json" /\ a.override \notin {"empty", "no_address"}
         ELSE a.type \in {"form", "multipart"}
    /\ There(ep.origins) => a.origin \in ep.origins
    /\ BodyAllowed(a)
    /\ ep.honeypot => ~a.trap
    /\ ep.csrf # "" => a.csrf # -1 /\ r.signed - a.csrf <= OrDefault(ep.csrfTTL, DefaultCsrfTTL)
    /\ There(ep.pob) => r.token \in issued
    /\ There(ep.captcha) => r.human \in {"accepted"} \cup (IF ep.captcha.onError = "open" THEN {"error"} ELSE {})
    /\ There(ep.reputation) => r.opinion.reply \in {"clean"} \cup (IF ep.reputation.failOpen \in {Absent, TRUE} THEN {"error"} ELSE {})

\* A submission that had to prove a browser carries a token that was handed
\* out no longer ago than the ttl, and not before min_age has gone by since
\* the second began in which it was handed out, which is all that its
\* timestamp tells of its age (pobGate.issue, pobGate.verify).
TokenTimely ==
  \A i \in Ids : In(i, "sending") /\ There(ep.pob) =>
    LET r == req[i]  began == r.token.at - (r.token.at % Second) IN
    /\ r.proved - r.token.at <= pobTTL(ep.pob)
    /\ r.proved - began >= ep.pob.minAge

\* What is said of min_age: a token is not taken sooner than that after it was
\* handed out (ProofOfBrowserConfig.MinAge, config.go).
MinAgeKept ==
  \A i \in Ids : In(i, "sending") /\ There(ep.pob) =>
    req[i].proved - req[i].token.at >= ep.pob.minAge

\* A reputation that lets a submission through is what the provider said of
\* this sender no longer ago than the cache's ttl and the one call it may have
\* been under way, whichever of several concurrent lookups was cached last
\* (Checker.Check).
OpinionFresh ==
  \A i \in Ids : In(i, "sending") /\ There(ep.reputation) =>
    req[i].opinion.used - req[i].opinion.at <= cacheTTL(ep.reputation) + lookupTimeout(ep.reputation)

\* Every request is answered in the end, though a provider that is asked on
\* its way may never be heard of (captcha.Verify, Checker.lookup).
Answered == \A i \in Ids : (req[i].stage \notin {"idle", "done"}) ~> In(i, "done")
=============================================================================
