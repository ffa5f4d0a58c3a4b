---------------------------- MODULE GatewayProofs ----------------------------
(***************************************************************************)
(* Proofs about Gateway, for every endpoint and traffic, every number of   *)
(* requests, and every size of the limiters: first what a submission has   *)
(* passed when it is handed on, then what the two limiters let in.         *)
(***************************************************************************)
EXTENDS Gateway, ListLemmas

USE DefaultsAssumption, LimiterAssumption, GatewayAssumption

Checks  == {"honeypot", "csrf", "proof_of_browser", "captcha", "reputation"}
Replies == {"none", "clean", "blocked", "error"}

\* Where a handler has let a request in, and where it has read its body.
Formed   == {"checks", "captcha", "lookup", "looked", "sending"}
Admitted == {"limit", "body"} \cup Formed
Looking  == {"lookup", "looked"}

Token    == [at : Int, stamp : Int]
Handlers ==
  [stage : Stages, at : Nat, claim : BOOLEAN, token : Token, todo : Seq(Checks), until : Int,
   human : {"none", "accepted", "rejected", "error"}, signed : Int, proved : Int,
   opinion : [reply : Replies, at : Int, used : Int], answer : Int]

-----------------------------------------------------------------------------
(* What a submission was let past by, check by check.                      *)

\* The caller, by what the handler looks at before it takes a token.
Entered(a) ==
  /\ a.method = "POST"
  /\ IF api(ep) THEN a.credential \in ep.keys
                ELSE a.type \in {"form", "multipart"} /\ ~ForeignOrigin(a)

Timely(r) ==
  /\ r.token \in issued
  /\ r.proved - r.token.at <= pobTTL(ep.pob)
  /\ r.proved - (r.token.at - (r.token.at % Second)) >= ep.pob.minAge

Fresh(o) == o.used - o.at <= cacheTTL(ep.reputation) + lookupTimeout(ep.reputation)

Cleared(o) == o.reply = "clean" \/ (o.reply = "error" /\ ep.reputation.failOpen \in {Absent, TRUE})

Passed(r, a, check) ==
  /\ check = "honeypot"         => ~a.trap
  /\ check = "csrf"             => a.csrf # -1 /\ r.signed - a.csrf <= csrfTTL(ep)
  /\ check = "proof_of_browser" => Timely(r)
  /\ check = "captcha"          => r.human = "accepted" \/ (r.human = "error" /\ ep.captcha.onError = "open")
  /\ check = "reputation"       => Fresh(r.opinion) /\ Cleared(r.opinion)

-----------------------------------------------------------------------------
(* The invariant. *)

Stands(r, a) ==
  /\ r.token \in issued \cup {NoToken}
  /\ r.stage \in Admitted => Entered(a)
  /\ r.stage \in Formed =>
       /\ BodyVerdict(a) = Passes
       /\ \A check \in Configured(ep) : check \in ToSet(r.todo) \/ Passed(r, a, check)
  /\ r.stage = "sending" => Submission(a) = Passes

\* A check under way is the next one to do, and is not waited for too long.
Waits(r) ==
  /\ ToSet(r.todo) \subseteq Configured(ep)
  /\ r.stage = "captcha" => r.todo # <<>> /\ Head(r.todo) = "captcha"
  /\ r.stage \in Looking => /\ r.todo # <<>> /\ Head(r.todo) = "reputation"
                            /\ r.until - lookupTimeout(ep.reputation) <= clock
  /\ r.stage \in Waiting => clock <= r.until
  /\ r.stage = "looked"  => /\ r.until - lookupTimeout(ep.reputation) <= r.opinion.at /\ r.opinion.at <= clock
                            /\ r.opinion.reply \in {"clean", "blocked"}
  /\ r.stage = "sending" => r.todo = <<>>

Handled == /\ req \in [Ids -> Handlers]
           /\ \A i \in Ids : Stands(req[i], ask[i]) /\ Waits(req[i])

Stamped ==
  issued \subseteq Token /\ \A t \in issued : t.at \in 0 .. clock /\ t.stamp = t.at - (t.at % Second)

\* No answer is kept for longer than the ttl after the call that brought it.
Cached ==
  \A c \in cache :
    /\ There(ep.reputation) /\ c.at \in Int /\ c.expires \in Int /\ c.at <= clock /\ c.reply \in {"clean", "blocked"}
    /\ c.expires <= c.at + lookupTimeout(ep.reputation) + cacheTTL(ep.reputation)

Loaded     == Valid(ep) /\ Builds(ep) /\ Numbers(ep) /\ clock \in Nat
Remembered == idem \in [Keys -> {Free, Claimed, 200, 422}]

CInv == Loaded /\ Handled /\ Stamped /\ Cached /\ Remembered

-----------------------------------------------------------------------------
(* What a step leaves alone. *)

LEMMA Unaltered ==
  ASSUME UNCHANGED <<ep, clock>>, issued \subseteq issued'
  PROVE  /\ \A r, a : Stands(r, a) => Stands(r, a)'
         /\ \A r : Waits(r)' <=> Waits(r)
<1>1. \A a : (Entered(a)' <=> Entered(a)) /\ BodyVerdict(a)' = BodyVerdict(a) /\ Submission(a)' = Submission(a)
  BY DEF Entered, ForeignOrigin, BodyVerdict, FilesVerdict, Submission
<1>2. \A r, a, check : Passed(r, a, check) => Passed(r, a, check)'
  <2>1. \A r : Timely(r) => Timely(r)'
    BY DEF Timely
  <2>2. \A o : Fresh(o)' <=> Fresh(o)
    BY DEF Fresh
  <2>3. \A o : Cleared(o)' <=> Cleared(o)
    BY DEF Cleared
  <2>4. QED
    BY <2>1, <2>2, <2>3 DEF Passed
<1>3. \A r, a : Stands(r, a) => Stands(r, a)'
  BY <1>1, <1>2 DEF Stands
<1>4. \A r : Waits(r)' <=> Waits(r)
  BY DEF Waits
<1>5. QED
  BY <1>3, <1>4

\* One handler moves on: it is enough to look at what it moves to.
LEMMA OneMoves ==
  ASSUME Handled, UNCHANGED <<ep, ask, clock>>, issued \subseteq issued', NEW i \in Ids,
         NEW x \in Handlers, req' = [req EXCEPT ![i] = x], Stands(x, ask[i]), Waits(x)
  PROVE  Handled'
<1>1. req' \in [Ids -> Handlers] /\ \A j \in Ids : req'[j] = IF j = i THEN x ELSE req[j]
  BY DEF Handled
<1>2. \A j \in Ids : Stands(req'[j], ask[j]) /\ Waits(req'[j])
  BY <1>1 DEF Handled
<1>3. \A j \in Ids : Stands(req[j], ask[j])' /\ Waits(req[j])'
  BY <1>2, Unaltered
<1>4. QED
  BY <1>1, <1>3 DEF Handled

-----------------------------------------------------------------------------
(* What New builds of the configuration. *)

LEMMA WhenIs ==
  ASSUME NEW set, NEW check \in Checks
  PROVE  /\ When(set, check) \in Seq(Checks)
         /\ set => ToSet(When(set, check)) = {check}
         /\ ~set => ToSet(When(set, check)) = {}
<1>1. <<check>> \in Seq(Checks) /\ ToSet(<<check>>) = {check}
  BY ShortSets
<1>2. <<>> \in Seq(Checks) /\ ToSet(<<>>) = {}
  BY ShortSets
<1>3. CASE set
  BY <1>1, <1>3 DEF When
<1>4. CASE ~set
  BY <1>2, <1>4 DEF When
<1>5. QED
  BY <1>3, <1>4

LEMMA FiveLists ==
  ASSUME NEW S, NEW h \in Seq(S), NEW c \in Seq(S), NEW p \in Seq(S), NEW t \in Seq(S), NEW r \in Seq(S)
  PROVE  /\ h \o c \o p \o t \o r \in Seq(S)
         /\ ToSet(h \o c \o p \o t \o r) = ToSet(h) \cup ToSet(c) \cup ToSet(p) \cup ToSet(t) \cup ToSet(r)
<1>1. ASSUME NEW x \in Seq(S), NEW y \in Seq(S)
      PROVE  x \o y \in Seq(S) /\ ToSet(x \o y) = ToSet(x) \cup ToSet(y)
  BY ConcatSet
<1> DEFINE hc == h \o c
           hcp == hc \o p
           hcpt == hcp \o t
<1>2. hc \in Seq(S) /\ ToSet(hc) = ToSet(h) \cup ToSet(c)
  BY <1>1
<1> HIDE DEF hc
<1>3. hcp \in Seq(S) /\ ToSet(hcp) = ToSet(hc) \cup ToSet(p)
  BY <1>1, <1>2
<1> HIDE DEF hcp
<1>4. hcpt \in Seq(S) /\ ToSet(hcpt) = ToSet(hcp) \cup ToSet(t)
  BY <1>1, <1>3
<1> HIDE DEF hcpt
<1>5. hcpt \o r \in Seq(S) /\ ToSet(hcpt \o r) = ToSet(hcpt) \cup ToSet(r)
  BY <1>1, <1>4
<1>6. hcpt \o r = h \o c \o p \o t \o r
  BY DEF hc, hcp, hcpt
<1>7. QED
  BY <1>2, <1>3, <1>4, <1>5, <1>6

\* A form has to pass every check that is configured; an API endpoint has none.
LEMMA FormChecksAre ==
  ASSUME Valid(ep)
  PROVE  formChecks(ep) \in Seq(Checks) /\ ToSet(formChecks(ep)) = Configured(ep)
<1>1. CASE api(ep)
  <2>1. formChecks(ep) = <<>> /\ Configured(ep) = {}
    BY <1>1 DEF formChecks, Valid, validAuth, Configured
  <2>2. <<>> \in Seq(Checks)
    OBVIOUS
  <2>3. QED
    BY <2>1, <2>2, ShortSets
<1>2. CASE ~api(ep)
  <2> DEFINE h == When(ep.honeypot, "honeypot")
             c == When(ep.csrf # "", "csrf")
             p == When(There(ep.pob), "proof_of_browser")
             t == When(There(ep.captcha), "captcha")
             r == When(There(ep.reputation), "reputation")
  <2>1. /\ h \in Seq(Checks) /\ c \in Seq(Checks) /\ p \in Seq(Checks) /\ t \in Seq(Checks) /\ r \in Seq(Checks)
        /\ ToSet(h) = IF ep.honeypot THEN {"honeypot"} ELSE {}
        /\ ToSet(c) = IF ep.csrf # "" THEN {"csrf"} ELSE {}
        /\ ToSet(p) = IF There(ep.pob) THEN {"proof_of_browser"} ELSE {}
        /\ ToSet(t) = IF There(ep.captcha) THEN {"captcha"} ELSE {}
        /\ ToSet(r) = IF There(ep.reputation) THEN {"reputation"} ELSE {}
    BY WhenIs, Zenon DEF Checks
  <2>2. formChecks(ep) = h \o c \o p \o t \o r
    BY <1>2 DEF formChecks
  <2> HIDE DEF h, c, p, t, r
  <2>3. h \in Seq(Checks) /\ c \in Seq(Checks) /\ p \in Seq(Checks) /\ t \in Seq(Checks) /\ r \in Seq(Checks)
    BY <2>1
  <2>4. /\ h \o c \o p \o t \o r \in Seq(Checks)
        /\ ToSet(h \o c \o p \o t \o r) = ToSet(h) \cup ToSet(c) \cup ToSet(p) \cup ToSet(t) \cup ToSet(r)
    BY <2>3, FiveLists
  <2>5. QED
    BY <2>1, <2>2, <2>4, Zenon DEF Configured
<1>3. QED
  BY <1>1, <1>2

\* The numbers a check works with.
LEMMA Settings ==
  ASSUME Loaded
  PROVE  /\ There(ep.reputation) => /\ lookupTimeout(ep.reputation) \in Nat /\ cacheTTL(ep.reputation) \in Nat
                                    /\ reputationFailsOpen(ep.reputation) => ep.reputation.failOpen \in {Absent, TRUE}
         /\ There(ep.captcha) => captchaTimeout(ep.captcha) \in Nat
         /\ There(ep.pob) => pobTTL(ep.pob) \in Int /\ ep.pob.minAge \in Int
<1>1. There(ep.reputation) => lookupTimeout(ep.reputation) \in Nat /\ cacheTTL(ep.reputation) \in Nat
  BY DEF Loaded, Numbers, lookupTimeout, cacheTTL
<1>2. There(ep.captcha) => captchaTimeout(ep.captcha) \in Nat
  BY DEF Loaded, Numbers, captchaTimeout
<1>3. There(ep.pob) => pobTTL(ep.pob) \in Int /\ ep.pob.minAge \in Int
  BY DEF Loaded, Numbers, pobTTL
<1>4. ASSUME There(ep.reputation), reputationFailsOpen(ep.reputation)
      PROVE  ep.reputation.failOpen \in {Absent, TRUE}
  <2>1. ep.reputation.failOpen \in BOOLEAN \cup {Absent}
    BY <1>4 DEF Loaded, Numbers
  <2>2. ep.reputation.failOpen # Absent => ep.reputation.failOpen
    BY <1>4 DEF reputationFailsOpen, There
  <2>3. QED
    BY <2>1, <2>2, Zenon
<1>5. QED
  BY <1>1, <1>2, <1>3, <1>4

-----------------------------------------------------------------------------
(* A handler answers, or goes on to the next check. *)

Still == UNCHANGED <<ep, ask, clock, issued>>

LEMMA AnswersKeep ==
  ASSUME Handled, UNCHANGED <<ep, ask, clock>>, issued \subseteq issued', NEW i \in Ids, NEW r, NEW status \in Int,
         Answers(i, r, status)
  PROVE  Handled'
<1> DEFINE x == [Unread EXCEPT !.stage = "done", !.answer = status]
<1>1. x \in Handlers
  <2>1. <<>> \in Seq(Checks) /\ NoToken \in Token /\ "done" \in Stages
    BY DEF NoToken, Token, Stages
  <2>2. Unasked \in [reply : Replies, at : Int, used : Int]
    BY DEF Unasked, Replies
  <2>3. Unread \in Handlers
    BY <2>1, <2>2 DEF Unread, Handlers, Stages
  <2> HIDE DEF Unread
  <2>4. QED
    BY <2>1, <2>3 DEF Handlers
<1>2. /\ x.stage = "done" /\ x.token = NoToken /\ x.todo = <<>>
  BY DEF Unread
<1>3. req' = [req EXCEPT ![i] = x]
  BY DEF Answers
<1> HIDE DEF x
<1>4. Stands(x, ask[i]) /\ Waits(x)
  BY <1>2, ShortSets DEF Stands, Waits, Admitted, Formed, Looking, Waiting
<1>5. QED
  BY <1>1, <1>3, <1>4, OneMoves

\* A verdict on the first check of the list: what is left to do gets shorter.
LEMMA JudgedKeeps ==
  ASSUME Handled, Still, NEW i \in Ids, NEW r \in Handlers, NEW verdict \in Int,
         r.token \in issued \cup {NoToken}, Entered(ask[i]), BodyVerdict(ask[i]) = Passes,
         ToSet(r.todo) \subseteq Configured(ep), r.todo # <<>>,
         \A check \in Configured(ep) : check \in ToSet(r.todo) \/ Passed(r, ask[i], check),
         verdict = Passes => Passed(r, ask[i], Head(r.todo)),
         Judged(i, r, verdict)
  PROVE  Handled'
<1>1. CASE verdict # Passes
  BY <1>1, AnswersKeep DEF Judged, Still
<1>2. CASE verdict = Passes
  <2> DEFINE x == [r EXCEPT !.stage = "checks", !.todo = Tail(@), !.until = 0]
  <2>1. req' = [req EXCEPT ![i] = x]
    BY <1>2 DEF Judged, Goes
  <2>2. r.todo \in Seq(Checks)
    BY DEF Handlers
  <2>3. Tail(r.todo) \in Seq(Checks) /\ ToSet(r.todo) = {Head(r.todo)} \cup ToSet(Tail(r.todo))
    BY <2>2, HeadOrTail
  <2>4. x \in Handlers
    <3>1. "checks" \in Stages /\ 0 \in Int
      BY DEF Stages
    <3>2. QED
      BY <2>3, <3>1 DEF Handlers
  <2>5. /\ x.stage = "checks" /\ x.todo = Tail(r.todo) /\ x.token = r.token /\ x.human = r.human
        /\ x.signed = r.signed /\ x.proved = r.proved /\ x.opinion = r.opinion
    BY DEF Handlers
  <2> HIDE DEF x
  <2>6. \A check : Passed(r, ask[i], check) => Passed(x, ask[i], check)
    BY <2>5 DEF Passed, Timely
  <2>7. Stands(x, ask[i])
    BY <1>2, <2>3, <2>5, <2>6 DEF Stands
  <2>8. Waits(x)
    BY <2>3, <2>5 DEF Waits, Looking, Waiting
  <2>9. QED
    BY <2>1, <2>4, <2>7, <2>8, OneMoves DEF Still
<1>3. QED
  BY <1>1, <1>2

\* What is known of a request whose next check is due.
LEMMA Due ==
  ASSUME Handled, NEW i \in Ids, req[i].stage \in Formed
  PROVE  /\ req[i] \in Handlers /\ req[i].token \in issued \cup {NoToken}
         /\ Entered(ask[i]) /\ BodyVerdict(ask[i]) = Passes /\ ToSet(req[i].todo) \subseteq Configured(ep)
         /\ \A check \in Configured(ep) : check \in ToSet(req[i].todo) \/ Passed(req[i], ask[i], check)
         /\ req[i].todo # <<>> => Head(req[i].todo) \in ToSet(req[i].todo) /\ Head(req[i].todo) \in Configured(ep)
<1>1. req[i] \in Handlers /\ Stands(req[i], ask[i]) /\ Waits(req[i])
  BY DEF Handled
<1>2. req[i].todo \in Seq(Checks)
  BY <1>1 DEF Handlers
<1>3. ToSet(req[i].todo) \subseteq Configured(ep)
  BY <1>1 DEF Waits
<1>4. req[i].todo # <<>> => Head(req[i].todo) \in ToSet(req[i].todo)
  BY <1>2, HeadOrTail
<1>5. QED
  BY <1>1, <1>3, <1>4 DEF Stands, Admitted

LEMMA ConfiguredIs ==
  /\ "honeypot" \in Configured(ep) <=> ep.honeypot
  /\ "csrf" \in Configured(ep) <=> ep.csrf # ""
  /\ "proof_of_browser" \in Configured(ep) <=> There(ep.pob)
  /\ "captcha" \in Configured(ep) <=> There(ep.captcha)
  /\ "reputation" \in Configured(ep) <=> There(ep.reputation)
BY DEF Configured

\* A verdict on the check that is due, which may have changed what that check
\* looks at and nothing else.
LEMMA VerdictKeeps ==
  ASSUME Handled, Still, NEW i \in Ids, req[i].stage \in Formed, req[i].todo # <<>>,
         NEW r \in Handlers, r.token = req[i].token, r.todo = req[i].todo,
         \A check : check # Head(req[i].todo) /\ Passed(req[i], ask[i], check) => Passed(r, ask[i], check),
         NEW verdict \in Int, verdict = Passes => Passed(r, ask[i], Head(req[i].todo)),
         Judged(i, r, verdict)
  PROVE  Handled'
<1>1. /\ r.token \in issued \cup {NoToken}
      /\ Entered(ask[i]) /\ BodyVerdict(ask[i]) = Passes /\ ToSet(r.todo) \subseteq Configured(ep)
      /\ \A check \in Configured(ep) : check \in ToSet(r.todo) \/ Passed(req[i], ask[i], check)
      /\ Head(r.todo) \in ToSet(r.todo)
  BY Due
<1>2. \A check \in Configured(ep) : check \in ToSet(r.todo) \/ Passed(r, ask[i], check)
  BY <1>1
<1>3. QED
  BY <1>1, <1>2, JudgedKeeps

\* A check goes on elsewhere.
LEMMA GoesOn ==
  ASSUME Handled, Still, NEW i \in Ids, req[i].stage \in Formed, req[i].todo # <<>>,
         NEW x \in Handlers, x.stage \in Formed \ {"sending"}, x.token = req[i].token, x.todo = req[i].todo,
         \A check : check # Head(req[i].todo) /\ Passed(req[i], ask[i], check) => Passed(x, ask[i], check),
         Waits(x), Goes(i, x)
  PROVE  Handled'
<1>1. /\ req[i].token \in issued \cup {NoToken}
      /\ Entered(ask[i]) /\ BodyVerdict(ask[i]) = Passes
      /\ \A check \in Configured(ep) : check \in ToSet(req[i].todo) \/ Passed(req[i], ask[i], check)
      /\ Head(req[i].todo) \in ToSet(req[i].todo)
  BY Due
<1>2. \A check \in Configured(ep) : check \in ToSet(x.todo) \/ Passed(x, ask[i], check)
  BY <1>1
<1>3. Stands(x, ask[i])
  BY <1>1, <1>2 DEF Stands
<1>4. QED
  BY <1>3, OneMoves DEF Still, Goes

\* The idempotency cache keeps its form.
LEMMA RemembersAll ==
  ASSUME Remembered, NEW i, NEW r, NEW status, Goes(i, r) \/ Answers(i, r, status) \/ Judged(i, r, status)
  PROVE  Remembered'
<1>1. CASE UNCHANGED idem
  BY <1>1 DEF Remembered
<1>2. CASE idem' = [idem EXCEPT ![ask[i].idem] = finalizeIdempotent(status)]
  <2>1. finalizeIdempotent(status) \in {Free, Claimed, 200, 422}
    BY DEF finalizeIdempotent
  <2>2. QED
    BY <1>2, <2>1, Zenon DEF Remembered
<1>3. QED
  BY <1>1, <1>2 DEF Goes, Answers, Judged

LEMMA Framed ==
  ASSUME CInv, Still, UNCHANGED cache, Handled', Remembered'
  PROVE  CInv'
BY DEF CInv, Still, Loaded, Stamped, Cached

-----------------------------------------------------------------------------
(* Step by step: a request comes in. *)

\* A handler that has let its caller in goes to the limiter or to the body.
LEMMA AdmitsKeeps ==
  ASSUME Loaded, Handled, Still, NEW i \in Ids, In(i, "idle"), Entered(ask[i]),
         NEW t \in issued \cup {NoToken}, t \in Token, NEW claim \in BOOLEAN,
         req' = [req EXCEPT ![i] = [Admits(req[i]) EXCEPT !.token = t, !.claim = claim]]
  PROVE  Handled'
<1> DEFINE y == Admits(req[i])
           x == [y EXCEPT !.token = t, !.claim = claim]
<1>1. req[i] \in Handlers /\ ToSet(req[i].todo) \subseteq Configured(ep)
  BY DEF Handled, Waits
<1>2. y \in Handlers /\ y.stage \in {"limit", "body"} /\ y.todo = req[i].todo
  <2>1. clock \in Nat /\ "limit" \in Stages /\ "body" \in Stages
    BY DEF Loaded, Stages
  <2>2. CASE There(ep.rate)
    BY <1>1, <2>1, <2>2 DEF Admits, Handlers
  <2>3. CASE ~There(ep.rate)
    BY <1>1, <2>1, <2>3 DEF Admits, Handlers
  <2>4. QED
    BY <2>2, <2>3
<1> HIDE DEF y
<1>3. x \in Handlers /\ x.stage \in {"limit", "body"} /\ x.todo = req[i].todo /\ x.token = t
  BY <1>2 DEF Handlers
<1>4. req' = [req EXCEPT ![i] = x]
  BY DEF y
<1> HIDE DEF x
<1>5. Stands(x, ask[i])
  BY <1>3 DEF Stands, Admitted, Formed
<1>6. Waits(x)
  BY <1>1, <1>3 DEF Waits, Looking, Waiting
<1>7. QED
  BY <1>3, <1>4, <1>5, <1>6, OneMoves DEF Still

LEMMA KeyedKeeps ==
  ASSUME CInv, Still, NEW i \in Ids, In(i, "idle"), Entered(ask[i]), NEW k, Keyed(i, req[i], k)
  PROVE  Handled' /\ Remembered'
<1>1. req[i] \in Handlers /\ Stands(req[i], ask[i])
  BY DEF CInv, Handled
<1>2. req[i].token \in issued \cup {NoToken} /\ req[i].token \in Token
  BY <1>1 DEF Stands, Handlers
<1>3. ASSUME Goes(i, Admits(req[i])) PROVE Handled' /\ Remembered'
  <2>1. Admits(req[i]) = [Admits(req[i]) EXCEPT !.token = req[i].token, !.claim = req[i].claim]
    BY <1>1 DEF Admits, Handlers
  <2>2. req[i].claim \in BOOLEAN
    BY <1>1 DEF Handlers
  <2>3. req' = [req EXCEPT ![i] = [Admits(req[i]) EXCEPT !.token = req[i].token, !.claim = req[i].claim]]
    BY <1>3, <2>1 DEF Goes
  <2>4. Handled'
    BY <1>2, <2>2, <2>3, AdmitsKeeps DEF CInv
  <2>5. QED
    BY <1>3, <2>4, RemembersAll DEF CInv
<1>4. ASSUME NEW status \in Int, Answers(i, req[i], status) PROVE Handled' /\ Remembered'
  BY <1>4, AnswersKeep, RemembersAll DEF CInv, Still
<1>5. ASSUME k \in Keys, idem' = [idem EXCEPT ![k] = Claimed],
             req' = [req EXCEPT ![i] = [Admits(req[i]) EXCEPT !.claim = TRUE]]
      PROVE  Handled' /\ Remembered'
  <2>1. [Admits(req[i]) EXCEPT !.claim = TRUE] = [Admits(req[i]) EXCEPT !.token = req[i].token, !.claim = TRUE]
    BY <1>1 DEF Admits, Handlers
  <2>2. Handled'
    BY <1>2, <1>5, <2>1, AdmitsKeeps DEF CInv
  <2>3. Remembered'
    BY <1>5 DEF CInv, Remembered, Claimed
  <2>4. QED
    BY <2>2, <2>3
<1>6. ASSUME k \in Keys PROVE idem[k] \in Int
  <2>1. idem[k] \in {Free, Claimed, 200, 422}
    BY <1>6 DEF CInv, Remembered
  <2>2. QED
    BY <2>1 DEF Free, Claimed
<1>7. \/ Goes(i, Admits(req[i])) \/ Answers(i, req[i], 400) \/ Answers(i, req[i], 409)
      \/ /\ k \in Keys /\ idem' = [idem EXCEPT ![k] = Claimed]
         /\ req' = [req EXCEPT ![i] = [Admits(req[i]) EXCEPT !.claim = TRUE]]
      \/ k \in Keys /\ Answers(i, req[i], idem[k])
  BY Zenon DEF Keyed
<1>8. QED
  BY <1>3, <1>4, <1>5, <1>6, <1>7

LEMMA RequestKeeps ==
  ASSUME CInv, NEW i \in Ids, NotAllowed(i) \/ ApiRequest(i) \/ FormRequest(i)
  PROVE  CInv'
<1> USE DEF setup
<1>1. Still /\ UNCHANGED cache /\ In(i, "idle")
  BY DEF NotAllowed, ApiRequest, FormRequest, Arrives, Still
<1>2. req[i] \in Handlers /\ Stands(req[i], ask[i]) /\ Waits(req[i]) /\ Loaded /\ Handled /\ Remembered
  BY DEF CInv, Handled
<1>3. ASSUME NEW status \in Int, Answers(i, req[i], status) PROVE Handled' /\ Remembered'
  BY <1>1, <1>2, <1>3, AnswersKeep, RemembersAll DEF Still
<1>4. ASSUME NotAllowed(i) PROVE Handled' /\ Remembered'
  <2>1. Answers(i, req[i], 405)
    BY <1>4 DEF NotAllowed
  <2>2. QED
    BY <1>3, <2>1
<1>5. ASSUME ApiRequest(i) PROVE Handled' /\ Remembered'
  <2>1. CASE ask[i].credential \in ep.keys
    <3>1. Entered(ask[i]) /\ Keyed(i, req[i], ask[i].idem)
      BY <1>5, <2>1 DEF ApiRequest, Entered
    <3>2. QED
      BY <1>1, <3>1, KeyedKeeps
  <2>2. CASE ask[i].credential \notin ep.keys
    <3> DEFINE x == [req[i] EXCEPT !.stage = "blame", !.at = clock]
    <3>1. Goes(i, x)
      BY <1>5, <2>2 DEF ApiRequest
    <3>2. x \in Handlers
      <4>1. clock \in Nat /\ "blame" \in Stages
        BY <1>2 DEF Loaded, Stages
      <4>2. QED
        BY <1>2, <4>1 DEF Handlers
    <3>3. x.stage = "blame" /\ x.token = req[i].token /\ x.todo = req[i].todo
      BY <1>2 DEF Handlers
    <3> HIDE DEF x
    <3>4. Stands(x, ask[i]) /\ Waits(x)
      BY <1>2, <3>3 DEF Stands, Waits, Admitted, Formed, Looking, Waiting
    <3>5. Handled'
      BY <1>1, <1>2, <3>1, <3>2, <3>4, OneMoves DEF Still, Goes
    <3>6. QED
      BY <1>2, <3>1, <3>5, RemembersAll
  <2>3. QED
    BY <2>1, <2>2
<1>6. ASSUME FormRequest(i) PROVE Handled' /\ Remembered'
  <2>1. CASE ask[i].type \notin {"form", "multipart"}
    <3>1. Answers(i, req[i], 400)
      BY <1>6, <2>1 DEF FormRequest
    <3>2. QED
      BY <1>3, <3>1
  <2>2. CASE ask[i].type \in {"form", "multipart"} /\ ForeignOrigin(ask[i])
    <3>1. Answers(i, req[i], 403)
      BY <1>6, <2>2 DEF FormRequest
    <3>2. QED
      BY <1>3, <3>1
  <2>3. CASE ask[i].type \in {"form", "multipart"} /\ ~ForeignOrigin(ask[i])
    <3>1. Entered(ask[i])
      BY <1>6, <2>3 DEF FormRequest, Entered
    <3>2. PICK t \in issued \cup {NoToken} : Goes(i, [Admits(req[i]) EXCEPT !.token = t])
      BY <1>6, <2>3 DEF FormRequest
    <3>3. t \in Token
      BY DEF CInv, Stamped, NoToken, Token
    <3>4. [Admits(req[i]) EXCEPT !.token = t] = [Admits(req[i]) EXCEPT !.token = t, !.claim = req[i].claim]
          /\ req[i].claim \in BOOLEAN
      BY <1>2 DEF Admits, Handlers
    <3>5. req' = [req EXCEPT ![i] = [Admits(req[i]) EXCEPT !.token = t, !.claim = req[i].claim]]
      BY <3>2, <3>4 DEF Goes
    <3>6. Handled'
      BY <1>1, <1>2, <3>1, <3>3, <3>4, <3>5, AdmitsKeeps
    <3>7. QED
      BY <1>2, <3>2, <3>6, RemembersAll
  <2>4. QED
    BY <2>1, <2>2, <2>3
<1>7. QED
  BY <1>1, <1>4, <1>5, <1>6, Framed

\* A token is stamped with the second it is handed out in.
LEMMA ChallengeKeeps ==
  ASSUME CInv, NEW i \in Ids, Challenge(i)
  PROVE  CInv'
<1> USE DEF setup
<1> DEFINE new == [at |-> clock, stamp |-> clock - (clock % Second)]
<1>1. UNCHANGED <<ep, ask, clock, cache>> /\ issued \subseteq issued' /\ issued' \subseteq issued \cup {new}
  <2>1. UNCHANGED <<ep, ask, clock, cache>> /\ (issued' = issued \/ issued' = issued \cup {new})
    BY Zenon DEF Challenge
  <2> HIDE DEF new
  <2>2. QED
    BY <2>1
<1>2. PICK status \in {200, 403} : Answers(i, req[i], status)
  <2>1. Answers(i, req[i], 200) \/ Answers(i, req[i], 403)
    BY Zenon DEF Challenge
  <2>2. QED
    BY <2>1
<1>3. Handled' /\ Remembered'
  <2>1. status \in Int
    OBVIOUS
  <2>2. Handled'
    BY <1>1, <1>2, <2>1, AnswersKeep DEF CInv
  <2>3. QED
    BY <1>2, <2>2, RemembersAll DEF CInv
<1>4. clock \in Nat /\ clock % Second \in 0 .. Second - 1
  BY DEF CInv, Loaded
<1>5. new \in Token /\ new.at \in 0 .. clock /\ new.stamp = new.at - (new.at % Second)
  BY <1>4 DEF Token
<1> HIDE DEF new
<1>6. Stamped'
  BY <1>1, <1>5 DEF CInv, Stamped
<1>7. Loaded' /\ Cached'
  BY <1>1 DEF CInv, Loaded, Cached
<1>8. QED
  BY <1>3, <1>6, <1>7 DEF CInv

-----------------------------------------------------------------------------
(* The limiters, and the body. *)

LEMMA ChargedKeeps ==
  ASSUME CInv, NEW i \in Ids, Blame(i) \/ Admit(i) \/ ReadBody(i) \/ Submit(i) \/ Deliver(i)
  PROVE  CInv'
<1> USE DEF setup
<1>1. Still /\ UNCHANGED cache
  BY DEF Blame, Admit, ReadBody, Submit, Deliver, Still
<1>2. req[i] \in Handlers /\ Stands(req[i], ask[i]) /\ Waits(req[i]) /\ Loaded /\ Handled /\ Remembered
  BY DEF CInv, Handled
<1>3. ASSUME NEW status \in Int, Answers(i, req[i], status) PROVE CInv'
  <2>1. Handled' /\ Remembered'
    BY <1>1, <1>2, <1>3, AnswersKeep, RemembersAll DEF Still
  <2>2. QED
    BY <1>1, <2>1, Framed
<1>4. ASSUME NEW x \in Handlers, Goes(i, x), Stands(x, ask[i]), Waits(x) PROVE CInv'
  <2>1. Handled'
    BY <1>1, <1>2, <1>4, OneMoves DEF Still, Goes
  <2>2. Remembered'
    BY <1>2, <1>4, RemembersAll
  <2>3. QED
    BY <1>1, <2>1, <2>2, Framed
<1>5. CASE Blame(i)
  <2>1. PICK status \in {401, 429} : Answers(i, req[i], status)
    BY <1>5 DEF Blame
  <2>2. QED
    BY <1>3, <2>1
<1>6. CASE Admit(i)
  <2> DEFINE x == [req[i] EXCEPT !.stage = "body", !.at = 0]
  <2>1. Goes(i, x) \/ Answers(i, req[i], 429)
    BY <1>6 DEF Admit
  <2>2. CASE Goes(i, x)
    <3>1. x \in Handlers
      <4>1. "body" \in Stages /\ 0 \in Nat
        BY DEF Stages
      <4>2. QED
        BY <1>2, <4>1 DEF Handlers
    <3>2. x.stage = "body" /\ x.token = req[i].token /\ x.todo = req[i].todo
      BY <1>2 DEF Handlers
    <3>3. Entered(ask[i])
      BY <1>2, <1>6 DEF Stands, Admitted, Admit, In
    <3> HIDE DEF x
    <3>4. Stands(x, ask[i]) /\ Waits(x)
      BY <1>2, <3>2, <3>3 DEF Stands, Waits, Formed, Looking, Waiting
    <3>5. QED
      BY <1>4, <2>2, <3>1, <3>4
  <2>3. CASE Answers(i, req[i], 429)
    BY <1>3, <2>3
  <2>4. QED
    BY <2>1, <2>2, <2>3
<1>7. CASE ReadBody(i)
  <2>1. CASE BodyVerdict(ask[i]) = Passes
    <3> DEFINE x == [req[i] EXCEPT !.stage = "checks", !.todo = formChecks(ep)]
    <3>1. Goes(i, x)
      BY <1>7, <2>1 DEF ReadBody
    <3>2. formChecks(ep) \in Seq(Checks) /\ ToSet(formChecks(ep)) = Configured(ep)
      BY <1>2, FormChecksAre DEF Loaded
    <3>3. x \in Handlers
      <4>1. "checks" \in Stages
        BY DEF Stages
      <4>2. QED
        BY <1>2, <3>2, <4>1 DEF Handlers
    <3>4. x.stage = "checks" /\ x.token = req[i].token /\ x.todo = formChecks(ep)
      BY <1>2 DEF Handlers
    <3>5. Entered(ask[i])
      BY <1>2, <1>7 DEF Stands, Admitted, ReadBody, In
    <3> HIDE DEF x
    <3>6. Stands(x, ask[i])
      BY <1>2, <2>1, <3>2, <3>4, <3>5 DEF Stands
    <3>7. Waits(x)
      BY <3>2, <3>4 DEF Waits, Looking, Waiting
    <3>8. QED
      BY <1>4, <3>1, <3>3, <3>6, <3>7
  <2>2. CASE BodyVerdict(ask[i]) # Passes
    <3>1. BodyVerdict(ask[i]) \in Int
      BY DEF BodyVerdict, FilesVerdict, Passes
    <3>2. Answers(i, req[i], BodyVerdict(ask[i]))
      BY <1>7, <2>2 DEF ReadBody
    <3>3. QED
      BY <1>3, <3>1, <3>2
  <2>3. QED
    BY <2>1, <2>2
<1>8. CASE Submit(i)
  <2>1. CASE Submission(ask[i]) = Passes
    <3> DEFINE x == [req[i] EXCEPT !.stage = "sending"]
    <3>1. Goes(i, x) /\ In(i, "checks") /\ req[i].todo = <<>>
      BY <1>8, <2>1 DEF Submit
    <3>2. x \in Handlers
      <4>1. "sending" \in Stages
        BY DEF Stages
      <4>2. QED
        BY <1>2, <4>1 DEF Handlers
    <3>3. /\ x.stage = "sending" /\ x.token = req[i].token /\ x.todo = req[i].todo
          /\ x.human = req[i].human /\ x.signed = req[i].signed /\ x.proved = req[i].proved /\ x.opinion = req[i].opinion
      BY <1>2 DEF Handlers
    <3> HIDE DEF x
    <3>4. \A check : Passed(req[i], ask[i], check) => Passed(x, ask[i], check)
      BY <3>3 DEF Passed, Timely
    <3>5. Stands(x, ask[i])
      BY <1>2, <2>1, <3>1, <3>3, <3>4 DEF Stands, Admitted, Formed, In
    <3>6. Waits(x)
      BY <1>2, <3>1, <3>3 DEF Waits, Looking, Waiting
    <3>7. QED
      BY <1>4, <3>1, <3>2, <3>5, <3>6
  <2>2. CASE Submission(ask[i]) # Passes
    <3>1. Submission(ask[i]) \in Int
      BY DEF Submission, Passes
    <3>2. Answers(i, req[i], Submission(ask[i]))
      BY <1>8, <2>2 DEF Submit
    <3>3. QED
      BY <1>3, <3>1, <3>2
  <2>3. QED
    BY <2>1, <2>2
<1>9. CASE Deliver(i)
  <2>1. PICK status \in {200, 202, 502} : Answers(i, req[i], status)
    BY <1>9 DEF Deliver
  <2>2. QED
    BY <1>3, <2>1
<1>10. QED
  BY <1>5, <1>6, <1>7, <1>8, <1>9

-----------------------------------------------------------------------------
(* The checks. *)

LEMMA CheckKeeps ==
  ASSUME CInv, NEW i \in Ids, honeypot(i) \/ csrf(i) \/ proofOfBrowser(i) \/ captcha(i)
  PROVE  CInv'
<1> USE DEF setup
<1>1. Still /\ UNCHANGED cache
  BY DEF honeypot, csrf, proofOfBrowser, captcha, Still
<1>2. req[i].stage \in Formed /\ req[i].todo # <<>>
  BY DEF honeypot, csrf, proofOfBrowser, captcha, Upcoming, In, Formed
<1>3. /\ Loaded /\ Handled /\ Remembered /\ clock \in Nat /\ req[i] \in Handlers /\ Waits(req[i])
      /\ req[i].token \in issued \cup {NoToken} /\ Head(req[i].todo) \in Configured(ep)
  BY <1>2, Due DEF CInv, Loaded, Handled
<1>4. ASSUME NEW status \in Int, Answers(i, req[i], status) PROVE CInv'
  <2>1. Handled' /\ Remembered'
    BY <1>1, <1>3, <1>4, AnswersKeep, RemembersAll DEF Still
  <2>2. QED
    BY <1>1, <2>1, Framed
<1>5. ASSUME NEW r \in Handlers, r.token = req[i].token, r.todo = req[i].todo,
             \A check : check # Head(req[i].todo) /\ Passed(req[i], ask[i], check) => Passed(r, ask[i], check),
             NEW verdict \in Int, verdict = Passes => Passed(r, ask[i], Head(req[i].todo)), Judged(i, r, verdict)
      PROVE  CInv'
  <2>1. Handled'
    BY <1>1, <1>2, <1>3, <1>5, VerdictKeeps
  <2>2. Remembered'
    BY <1>3, <1>5, RemembersAll
  <2>3. QED
    BY <1>1, <2>1, <2>2, Framed
<1>6. CASE honeypot(i)
  <2> DEFINE verdict == IF ask[i].trap THEN 200 ELSE Passes
  <2>1. verdict \in Int /\ Judged(i, req[i], verdict) /\ Head(req[i].todo) = "honeypot"
    BY <1>6 DEF honeypot, Upcoming, Passes
  <2>2. verdict = Passes => Passed(req[i], ask[i], Head(req[i].todo))
    BY <2>1 DEF Passed, Passes
  <2> HIDE DEF verdict
  <2>3. QED
    BY <1>3, <1>5, <2>1, <2>2
<1>7. CASE csrf(i)
  <2> DEFINE r       == [req[i] EXCEPT !.signed = clock]
             verdict == IF csrfVerify(ask[i].csrf, csrfTTL(ep), clock) THEN Passes ELSE 403
  <2>1. verdict \in Int /\ Judged(i, r, verdict) /\ Head(req[i].todo) = "csrf"
    BY <1>7 DEF csrf, Upcoming, Passes
  <2>2. r \in Handlers /\ r.token = req[i].token /\ r.todo = req[i].todo /\ r.signed = clock
        /\ r.proved = req[i].proved /\ r.human = req[i].human /\ r.opinion = req[i].opinion
    <3>1. clock \in Int /\ req[i] \in Handlers
      BY <1>3
    <3>2. QED
      BY <3>1 DEF Handlers
  <2>3. verdict = Passes <=> csrfVerify(ask[i].csrf, csrfTTL(ep), clock)
    BY DEF Passes
  <2> HIDE DEF r, verdict
  <2>4. verdict = Passes => Passed(r, ask[i], Head(req[i].todo))
    BY <2>1, <2>2, <2>3 DEF Passed, csrfVerify
  <2>5. \A check : check # Head(req[i].todo) /\ Passed(req[i], ask[i], check) => Passed(r, ask[i], check)
    BY <2>1, <2>2 DEF Passed, Timely
  <2>6. QED
    BY <1>5, <2>1, <2>2, <2>4, <2>5
<1>8. CASE proofOfBrowser(i)
  <2> DEFINE r       == [req[i] EXCEPT !.proved = clock]
             verdict == IF pobVerify(ep.pob, req[i].token.stamp, clock) THEN Passes ELSE 403
  <2>1. verdict \in Int /\ Judged(i, r, verdict) /\ Head(req[i].todo) = "proof_of_browser"
    BY <1>8 DEF proofOfBrowser, Upcoming, Passes
  <2>2. r \in Handlers /\ r.token = req[i].token /\ r.todo = req[i].todo /\ r.proved = clock
        /\ r.signed = req[i].signed /\ r.human = req[i].human /\ r.opinion = req[i].opinion
    <3>1. clock \in Int /\ req[i] \in Handlers
      BY <1>3
    <3>2. QED
      BY <3>1 DEF Handlers
  <2>3. verdict = Passes <=> pobVerify(ep.pob, req[i].token.stamp, clock)
    BY DEF Passes
  <2> HIDE DEF r, verdict
  <2>4. ASSUME pobVerify(ep.pob, r.token.stamp, clock) PROVE Timely(r)
    <3> DEFINE t == r.token
    <3>1. t \in issued
      BY <1>3, <2>2, <2>4 DEF pobVerify, csrfVerify, NoToken
    <3>2. t.at \in 0 .. clock /\ t.stamp = t.at - (t.at % Second)
      BY <3>1 DEF CInv, Stamped
    <3>3. t.at \in Nat /\ t.at % Second \in 0 .. Second - 1
      BY <1>3, <3>2
    <3>4. pobTTL(ep.pob) \in Int /\ ep.pob.minAge \in Int
      BY <1>3, <2>1, ConfiguredIs, Settings
    <3>5. clock - t.stamp <= pobTTL(ep.pob) /\ (ep.pob.minAge > 0 => clock - t.stamp >= ep.pob.minAge)
      BY <2>4 DEF pobVerify, csrfVerify
    <3> HIDE DEF t
    <3>6. clock - t.at <= pobTTL(ep.pob) /\ clock - (t.at - (t.at % Second)) >= ep.pob.minAge
      BY <1>3, <3>2, <3>3, <3>4, <3>5
    <3>7. QED
      BY <2>2, <3>1, <3>6 DEF Timely, t
  <2>5. verdict = Passes => Passed(r, ask[i], Head(req[i].todo))
    BY <2>1, <2>2, <2>3, <2>4 DEF Passed
  <2>6. \A check : check # Head(req[i].todo) /\ Passed(req[i], ask[i], check) => Passed(r, ask[i], check)
    BY <2>1, <2>2 DEF Passed
  <2>7. QED
    BY <1>5, <2>1, <2>2, <2>5, <2>6
<1>9. CASE captcha(i)
  <2>1. CASE ask[i].widget
    <3> DEFINE x == [req[i] EXCEPT !.stage = "captcha", !.until = clock + captchaTimeout(ep.captcha)]
    <3>1. Goes(i, x) /\ Head(req[i].todo) = "captcha"
      BY <1>9, <2>1 DEF captcha, Upcoming
    <3>2. captchaTimeout(ep.captcha) \in Nat
      BY <1>3, <3>1, ConfiguredIs, Settings
    <3>3. x \in Handlers
      <4>1. "captcha" \in Stages /\ clock + captchaTimeout(ep.captcha) \in Int
        BY <1>3, <3>2 DEF Stages
      <4>2. QED
        BY <1>3, <4>1 DEF Handlers
    <3>4. /\ x.stage = "captcha" /\ x.token = req[i].token /\ x.todo = req[i].todo /\ x.until = clock + captchaTimeout(ep.captcha)
          /\ x.human = req[i].human /\ x.signed = req[i].signed /\ x.proved = req[i].proved /\ x.opinion = req[i].opinion
      BY <1>3 DEF Handlers
    <3> HIDE DEF x
    <3>5. \A check : Passed(req[i], ask[i], check) => Passed(x, ask[i], check)
      BY <3>4 DEF Passed, Timely
    <3>6. Waits(x)
      BY <1>2, <1>3, <3>1, <3>2, <3>4 DEF Waits, Looking, Waiting
    <3>7. Handled'
      BY <1>1, <1>2, <1>3, <3>1, <3>3, <3>4, <3>5, <3>6, GoesOn DEF Formed
    <3>8. Remembered'
      BY <1>3, <3>1, RemembersAll
    <3>9. QED
      BY <1>1, <3>7, <3>8, Framed
  <2>2. CASE ~ask[i].widget
    <3>1. Answers(i, req[i], 200)
      BY <1>9, <2>2 DEF captcha
    <3>2. QED
      BY <1>4, <3>1
  <2>3. QED
    BY <2>1, <2>2
<1>10. QED
  BY <1>6, <1>7, <1>8, <1>9

-----------------------------------------------------------------------------
(* What the providers say. *)

LEMMA CaptchaKeeps ==
  ASSUME CInv, NEW i \in Ids, In(i, "captcha"),
         NEW reply \in {"accepted", "rejected", "error"},
         Judged(i, [req[i] EXCEPT !.human = reply], captchaVerdict(reply)),
         UNCHANGED <<ep, ask, clock, issued, cache>>
  PROVE  CInv'
<1> DEFINE r == [req[i] EXCEPT !.human = reply]
<1>1. /\ Handled /\ Remembered /\ req[i] \in Handlers /\ req[i].stage \in Formed
      /\ req[i].todo # <<>> /\ Head(req[i].todo) = "captcha" /\ Still
  BY DEF CInv, Handled, Waits, In, Formed, Still
<1>2. r \in Handlers /\ r.token = req[i].token /\ r.todo = req[i].todo 
      /\ r.signed = req[i].signed /\ r.proved = req[i].proved
      /\ r.human = reply /\ r.opinion = req[i].opinion
  BY <1>1 DEF Handlers
<1> HIDE DEF r
<1>3. captchaVerdict(reply) \in Int
  BY DEF captchaVerdict, Passes
<1>4. captchaVerdict(reply) = Passes => Passed(r, ask[i], Head(req[i].todo))
  BY <1>1, <1>2 DEF captchaVerdict, Passes, Passed, captchaFailsOpen
<1>5. \A check : check # Head(req[i].todo) /\ Passed(req[i], ask[i], check) => Passed(r, ask[i], check)
  BY <1>1, <1>2 DEF Passed, Timely
<1>6. Judged(i, r, captchaVerdict(reply))
  BY DEF r
<1>7. Handled'
  BY <1>1, <1>2, <1>3, <1>4, <1>5, <1>6, VerdictKeeps
<1>8. Remembered'
  BY <1>1, <1>6, RemembersAll
<1>9. QED
  BY <1>1, <1>7, <1>8, Framed

\* A verdict on an opinion that is fresh.
LEMMA OpinionKeeps ==
  ASSUME CInv, NEW i \in Ids, req[i].stage \in Formed, req[i].todo # <<>>, Head(req[i].todo) = "reputation",
         NEW o \in [reply : Replies, at : Int, used : Int], Fresh(o),
         Judged(i, [req[i] EXCEPT !.opinion = o], reputationVerdict(o.reply)),
         UNCHANGED <<ep, ask, clock, issued>>
  PROVE  Handled' /\ Remembered'
<1> DEFINE r == [req[i] EXCEPT !.opinion = o]
<1>1. Loaded /\ Handled /\ Remembered /\ req[i] \in Handlers /\ Still
  BY DEF CInv, Handled, Still
<1>2. r \in Handlers /\ r.token = req[i].token /\ r.todo = req[i].todo 
      /\ r.signed = req[i].signed /\ r.proved = req[i].proved
      /\ r.human = req[i].human /\ r.opinion = o
  BY <1>1 DEF Handlers
<1> HIDE DEF r
<1>3. reputationVerdict(o.reply) \in Int
  BY DEF reputationVerdict, Passes
<1>4. There(ep.reputation)
  BY <1>1, Due, ConfiguredIs
<1>5. reputationVerdict(o.reply) = Passes => Cleared(o)
  <2>1. reputationFailsOpen(ep.reputation) => ep.reputation.failOpen \in {Absent, TRUE}
    BY <1>1, <1>4, Settings
  <2>2. reputationVerdict(o.reply) = Passes
          => o.reply = "clean" \/ (o.reply = "error" /\ reputationFailsOpen(ep.reputation))
    BY DEF reputationVerdict, Passes
  <2>3. QED
    BY <2>1, <2>2, Zenon DEF Cleared
<1>6. reputationVerdict(o.reply) = Passes => Passed(r, ask[i], Head(req[i].todo))
  BY <1>2, <1>5 DEF Passed
<1>7. \A check : check # Head(req[i].todo) /\ Passed(req[i], ask[i], check) => Passed(r, ask[i], check)
  BY <1>2 DEF Passed, Timely
<1>8. Judged(i, r, reputationVerdict(o.reply))
  BY DEF r
<1>9. Handled'
  BY <1>1, <1>2, <1>3, <1>6, <1>7, <1>8, VerdictKeeps
<1>10. QED
  BY <1>1, <1>8, <1>9, RemembersAll

LEMMA ReplyKeeps ==
  ASSUME CInv, NEW i \in Ids, CaptchaReply(i) \/ CheckErrs(i)
  PROVE  CInv'
<1> USE DEF setup
<1>1. UNCHANGED <<ep, ask, clock, issued, cache>>
  BY DEF CaptchaReply, CheckErrs
<1>2. CASE CaptchaReply(i)
  BY <1>1, <1>2, CaptchaKeeps DEF CaptchaReply
<1>3. CASE CheckErrs(i) /\ In(i, "captcha")
  BY <1>1, <1>3, CaptchaKeeps DEF CheckErrs
<1>4. CASE CheckErrs(i) /\ ~In(i, "captcha")
  <2> DEFINE o == [reply |-> "error", at |-> clock, used |-> clock]
  <2>1. req[i].stage \in Looking
    BY <1>4 DEF CheckErrs, In, Waiting, Looking
  <2>2. req[i].stage \in Formed /\ req[i].todo # <<>> /\ Head(req[i].todo) = "reputation" /\ clock \in Nat
    BY <2>1 DEF CInv, Loaded, Handled, Waits, Looking, Formed
  <2>3. lookupTimeout(ep.reputation) \in Nat /\ cacheTTL(ep.reputation) \in Nat
    BY <2>2, Due, ConfiguredIs, Settings DEF CInv
  <2>4. o \in [reply : Replies, at : Int, used : Int] /\ Fresh(o) /\ o.reply = "error"
    BY <2>2, <2>3 DEF Fresh, Replies
  <2>5. Judged(i, [req[i] EXCEPT !.opinion = o], reputationVerdict("error"))
    BY <1>4 DEF CheckErrs
  <2> HIDE DEF o
  <2>6. Handled' /\ Remembered'
    BY <1>1, <2>2, <2>4, <2>5, OpinionKeeps
  <2>7. QED
    BY <1>1, <2>6, Framed DEF Still
<1>5. QED
  BY <1>2, <1>3, <1>4

LEMMA ReputationKeeps ==
  ASSUME CInv, NEW i \in Ids, reputation(i)
  PROVE  CInv'
<1> USE DEF setup
<1>1. Still /\ UNCHANGED cache
  BY DEF reputation, Still
<1>2. req[i].stage \in Formed /\ req[i].todo # <<>> /\ Head(req[i].todo) = "reputation"
  BY DEF reputation, Upcoming, In, Formed
<1>3. Loaded /\ Handled /\ Remembered /\ Cached /\ clock \in Nat /\ req[i] \in Handlers /\ Waits(req[i])
  BY DEF CInv, Loaded, Handled
<1>4. lookupTimeout(ep.reputation) \in Nat /\ cacheTTL(ep.reputation) \in Nat
  BY <1>2, <1>3, Due, ConfiguredIs, Settings
<1>5. CASE Hit(i) = {}
  <2> DEFINE x == [req[i] EXCEPT !.stage = "lookup", !.until = clock + lookupTimeout(ep.reputation)]
  <2>1. Goes(i, x)
    BY <1>5 DEF reputation
  <2>2. x \in Handlers
    <3>1. "lookup" \in Stages /\ clock + lookupTimeout(ep.reputation) \in Int
      BY <1>3, <1>4 DEF Stages
    <3>2. QED
      BY <1>3, <3>1 DEF Handlers
  <2>3. /\ x.stage = "lookup" /\ x.token = req[i].token /\ x.todo = req[i].todo
        /\ x.until = clock + lookupTimeout(ep.reputation)
        /\ x.human = req[i].human /\ x.signed = req[i].signed /\ x.proved = req[i].proved /\ x.opinion = req[i].opinion
    BY <1>3 DEF Handlers
  <2> HIDE DEF x
  <2>4. \A check : Passed(req[i], ask[i], check) => Passed(x, ask[i], check)
    BY <2>3 DEF Passed, Timely
  <2>5. Waits(x)
    BY <1>2, <1>3, <1>4, <2>3 DEF Waits, Looking, Waiting
  <2>6. Handled'
    BY <1>1, <1>2, <1>3, <2>1, <2>2, <2>3, <2>4, <2>5, GoesOn DEF Formed
  <2>7. Remembered'
    BY <1>3, <2>1, RemembersAll
  <2>8. QED
    BY <1>1, <2>6, <2>7, Framed
<1>6. CASE Hit(i) # {}
  <2>1. PICK c \in cache :
          /\ clock < c.expires
          /\ Judged(i, [req[i] EXCEPT !.opinion = [reply |-> c.reply, at |-> c.at, used |-> clock]],
                    reputationVerdict(c.reply))
    BY <1>6 DEF reputation, Hit
  <2> DEFINE o == [reply |-> c.reply, at |-> c.at, used |-> clock]
  <2>2. c.at \in Int /\ c.expires \in Int /\ c.reply \in {"clean", "blocked"}
        /\ c.expires <= c.at + lookupTimeout(ep.reputation) + cacheTTL(ep.reputation)
    BY <1>3 DEF Cached
  <2>3. o \in [reply : Replies, at : Int, used : Int]
    BY <1>3, <2>2 DEF Replies
  <2>4. o.reply = c.reply /\ o.at = c.at /\ o.used = clock
    OBVIOUS
  <2>5. Judged(i, [req[i] EXCEPT !.opinion = o], reputationVerdict(c.reply))
    BY <2>1
  <2> HIDE DEF o
  <2>6. Fresh(o)
    BY <1>3, <1>4, <2>1, <2>2, <2>4 DEF Fresh
  <2>7. Handled' /\ Remembered'
    BY <1>1, <1>2, <2>3, <2>4, <2>5, <2>6, OpinionKeeps DEF Still
  <2>8. QED
    BY <1>1, <2>7, Framed
<1>7. QED
  BY <1>5, <1>6

LEMMA LooksKeeps ==
  ASSUME CInv, NEW i \in Ids, ProviderLooks(i)
  PROVE  CInv'
<1> USE DEF setup
<1>1. Still /\ UNCHANGED cache
  BY DEF ProviderLooks, Still
<1>2. Loaded /\ Handled /\ Remembered /\ clock \in Nat /\ req[i] \in Handlers /\ Waits(req[i]) /\ In(i, "lookup")
  BY DEF CInv, Loaded, Handled, ProviderLooks
<1>3. req[i].stage \in Formed /\ req[i].todo # <<>> /\ Head(req[i].todo) = "reputation"
      /\ req[i].until - lookupTimeout(ep.reputation) <= clock
  BY <1>2 DEF Waits, In, Formed, Looking
<1>4. PICK reply \in {"clean", "blocked"} :
        Goes(i, [req[i] EXCEPT !.stage = "looked", !.opinion = [reply |-> reply, at |-> clock, used |-> 0]])
  BY DEF ProviderLooks
<1> DEFINE o == [reply |-> reply, at |-> clock, used |-> 0]
           x == [req[i] EXCEPT !.stage = "looked", !.opinion = o]
<1>5. o \in [reply : Replies, at : Int, used : Int] /\ o.reply = reply /\ o.at = clock
  BY <1>2 DEF Replies
<1> HIDE DEF o
<1>6. x \in Handlers
  <2>1. "looked" \in Stages
    BY DEF Stages
  <2>2. QED
    BY <1>2, <1>5, <2>1 DEF Handlers
<1>7. /\ x.stage = "looked" /\ x.token = req[i].token /\ x.todo = req[i].todo /\ x.until = req[i].until
      /\ x.human = req[i].human /\ x.signed = req[i].signed /\ x.proved = req[i].proved /\ x.opinion = o
  BY <1>2 DEF Handlers
<1>8. Goes(i, x)
  BY <1>4 DEF o
<1> HIDE DEF x
<1>9. \A check : check # Head(req[i].todo) /\ Passed(req[i], ask[i], check) => Passed(x, ask[i], check)
  BY <1>3, <1>7 DEF Passed, Timely
<1>10. Waits(x)
  BY <1>2, <1>3, <1>5, <1>7 DEF Waits, In, Looking, Waiting
<1>11. Handled'
  BY <1>1, <1>2, <1>3, <1>6, <1>7, <1>8, <1>9, <1>10, GoesOn DEF Formed
<1>12. Remembered'
  BY <1>2, <1>8, RemembersAll
<1>13. QED
  BY <1>1, <1>11, <1>12, Framed

LEMMA ReturnsKeeps ==
  ASSUME CInv, NEW i \in Ids, LookupReturns(i)
  PROVE  CInv'
<1> USE DEF setup
<1>1. UNCHANGED <<ep, ask, clock, issued>> /\ In(i, "looked")
  BY DEF LookupReturns
<1>2. Loaded /\ Handled /\ Remembered /\ clock \in Nat /\ req[i] \in Handlers /\ Waits(req[i])
  BY DEF CInv, Loaded, Handled
<1>3. req[i].stage \in Formed /\ req[i].todo # <<>> /\ Head(req[i].todo) = "reputation" /\ clock <= req[i].until
  BY <1>1, <1>2 DEF Waits, In, Formed, Looking, Waiting
<1>4. There(ep.reputation) /\ lookupTimeout(ep.reputation) \in Nat /\ cacheTTL(ep.reputation) \in Nat
  BY <1>2, <1>3, Due, ConfiguredIs, Settings
<1> DEFINE seen == req[i].opinion
           o    == [seen EXCEPT !.used = clock]
<1>5. /\ req[i].until \in Int /\ seen \in [reply : Replies, at : Int, used : Int]
  BY <1>2 DEF Handlers
<1>6. req[i].until - lookupTimeout(ep.reputation) <= seen.at /\ seen.at <= clock
      /\ seen.reply \in {"clean", "blocked"}
  BY <1>1, <1>2 DEF Waits, In
<1> HIDE DEF seen
<1>7. o \in [reply : Replies, at : Int, used : Int] /\ o.reply = seen.reply /\ o.at = seen.at /\ o.used = clock
  BY <1>2, <1>5
<1> HIDE DEF o
<1>8. Fresh(o) /\ clock + cacheTTL(ep.reputation) <= seen.at + lookupTimeout(ep.reputation) + cacheTTL(ep.reputation)
  BY <1>2, <1>3, <1>4, <1>5, <1>6, <1>7 DEF Fresh
<1>9. [req[i] EXCEPT !.opinion.used = clock] = [req[i] EXCEPT !.opinion = o]
  BY <1>2 DEF o, seen, Handlers
<1>10. Handled' /\ Remembered'
  <2>1. Judged(i, [req[i] EXCEPT !.opinion = o], reputationVerdict(o.reply))
    BY <1>7, <1>9 DEF LookupReturns, seen
  <2>2. QED
    BY <1>1, <1>3, <1>7, <1>8, <2>1, OpinionKeeps
<1>11. Cached'
  <2> DEFINE new == [who |-> Identity(ask[i]), reply |-> seen.reply, at |-> seen.at,
                     expires |-> clock + cacheTTL(ep.reputation)]
  <2>1. cache' \subseteq cache \cup {new}
    BY DEF LookupReturns, seen
  <2>2. /\ new.at \in Int /\ new.expires \in Int /\ new.at <= clock /\ new.reply \in {"clean", "blocked"}
        /\ new.expires <= new.at + lookupTimeout(ep.reputation) + cacheTTL(ep.reputation)
    BY <1>2, <1>4, <1>5, <1>6, <1>8
  <2> HIDE DEF new
  <2>3. QED
    BY <1>1, <1>4, <2>1, <2>2 DEF CInv, Cached
<1>12. Loaded' /\ Stamped'
  BY <1>1 DEF CInv, Loaded, Stamped
<1>13. QED
  BY <1>10, <1>11, <1>12 DEF CInv

-----------------------------------------------------------------------------
(* Time, and every step together. *)

\* A tick waits for the handler that must end its call first.
LEMMA TickKeeps ==
  ASSUME CInv, Tick
  PROVE  CInv'
<1>1. UNCHANGED <<ep, ask, req, issued, cache, idem>> /\ clock' = clock + 1 /\ clock \in Nat
  BY DEF Tick, CInv, Loaded, setup
<1>2. ASSUME NEW i \in Ids PROVE Stands(req[i], ask[i])'
  <2>1. Stands(req[i], ask[i])
    BY DEF CInv, Handled
  <2>2. /\ Entered(ask[i])' <=> Entered(ask[i])
        /\ BodyVerdict(ask[i])' = BodyVerdict(ask[i]) /\ Submission(ask[i])' = Submission(ask[i])
    BY <1>1 DEF Entered, ForeignOrigin, BodyVerdict, FilesVerdict, Submission
  <2>3. \A check : Passed(req[i], ask[i], check)' <=> Passed(req[i], ask[i], check)
    BY <1>1 DEF Passed, Timely, Fresh, Cleared
  <2>4. QED
    BY <1>1, <2>1, <2>2, <2>3 DEF Stands
<1>3. ASSUME NEW i \in Ids PROVE Waits(req[i])'
  <2>1. Waits(req[i]) /\ req[i] \in Handlers
    BY DEF CInv, Handled
  <2>2. req[i].until \in Int /\ req[i].opinion.at \in Int
    BY <2>1 DEF Handlers
  <2>3. req[i].stage \in Waiting => clock + 1 <= req[i].until
    BY <1>1, <2>2 DEF Tick
  <2>4. ASSUME req[i].stage \in Looking
        PROVE  lookupTimeout(ep.reputation) \in Nat
    <3>1. req[i].stage \in Formed /\ req[i].todo # <<>> /\ Head(req[i].todo) = "reputation"
      BY <2>1, <2>4 DEF Waits, Looking, Formed
    <3>2. There(ep.reputation)
      BY <3>1, Due, ConfiguredIs DEF CInv
    <3>3. QED
      BY <3>2, Settings DEF CInv
  <2>5. QED
    BY <1>1, <2>1, <2>2, <2>3, <2>4 DEF Waits, Looking
<1>4. Handled'
  BY <1>1, <1>2, <1>3 DEF CInv, Handled
<1>5. Stamped'
  BY <1>1 DEF CInv, Stamped, Token
<1>6. Loaded' /\ Cached' /\ Remembered'
  BY <1>1 DEF CInv, Loaded, Cached, Remembered
<1>7. QED
  BY <1>4, <1>5, <1>6 DEF CInv

LEMMA CInvInit == Init => CInv
<1>1. SUFFICES ASSUME Init PROVE CInv
  OBVIOUS
<1>2. PICK c \in Cases :
        /\ Valid(c.endpoint) /\ Builds(c.endpoint) /\ ep = c.endpoint
        /\ req = [i \in Ids |-> IF i \in DOMAIN c.traffic THEN Unread ELSE [Unread EXCEPT !.stage = "done"]]
  BY <1>1 DEF Init
<1>3. Loaded
  BY <1>1, <1>2, CasesAssumption DEF Init, Loaded
<1>4. Unread \in Handlers /\ [Unread EXCEPT !.stage = "done"] \in Handlers
  <2>1. <<>> \in Seq(Checks) /\ NoToken \in Token /\ "done" \in Stages /\ "idle" \in Stages
    BY DEF NoToken, Token, Stages
  <2>2. Unasked \in [reply : Replies, at : Int, used : Int]
    BY DEF Unasked, Replies
  <2>3. Unread \in Handlers
    BY <2>1, <2>2 DEF Unread, Handlers, Stages
  <2>4. QED
    BY <2>1, <2>3 DEF Handlers
<1>5. Handled
  <2>1. ASSUME NEW i \in Ids
        PROVE  /\ req[i] \in Handlers /\ req[i].stage \in {"idle", "done"}
               /\ req[i].token = NoToken /\ req[i].todo = <<>>
    BY <1>2, <1>4 DEF Unread
  <2>2. ASSUME NEW i \in Ids PROVE Stands(req[i], ask[i]) /\ Waits(req[i])
    BY <2>1, ShortSets DEF Stands, Waits, Admitted, Formed, Looking, Waiting
  <2>3. req \in [Ids -> Handlers]
    BY <1>2, <2>1
  <2>4. QED
    BY <2>2, <2>3 DEF Handled
<1>6. Stamped /\ Cached /\ Remembered
  BY <1>1 DEF Init, Stamped, Cached, Remembered
<1>7. QED
  BY <1>3, <1>5, <1>6 DEF CInv

LEMMA Idle ==
  ASSUME CInv, UNCHANGED <<ep, ask, clock, req, idem, cache, issued>>
  PROVE  CInv'
<1>1. Still /\ UNCHANGED cache
  BY DEF Still
<1>2. req' \in [Ids -> Handlers] /\ \A i \in Ids : Stands(req'[i], ask[i]) /\ Waits(req'[i])
  BY DEF CInv, Handled
<1>3. Handled'
  <2>1. \A i \in Ids : Stands(req[i], ask[i])' /\ Waits(req[i])'
    BY <1>2, Unaltered
  <2>2. QED
    BY <1>2, <2>1 DEF Handled
<1>4. Remembered'
  BY DEF CInv, Remembered
<1>5. QED
  BY <1>1, <1>3, <1>4, Framed

LEMMA CInvNext == CInv /\ [Next]_vars => CInv'
<1>1. SUFFICES ASSUME CInv, [Next]_vars PROVE CInv'
  OBVIOUS
<1>2. ASSUME UNCHANGED vars PROVE CInv'
  BY <1>1, <1>2, Idle DEF vars, setup
<1>3. ASSUME NEW i \in Ids, Request(i) PROVE CInv'
  BY <1>1, <1>3, RequestKeeps, ChallengeKeeps DEF Request
<1>4. ASSUME NEW i \in Ids, Handle(i) PROVE CInv'
  BY <1>1, <1>4, ChargedKeeps, CheckKeeps, ReputationKeeps, ReturnsKeeps DEF Handle
<1>5. ASSUME NEW i \in Ids, CaptchaReply(i) \/ CheckErrs(i) PROVE CInv'
  BY <1>1, <1>5, ReplyKeeps
<1>6. ASSUME NEW i \in Ids, ProviderLooks(i) PROVE CInv'
  BY <1>1, <1>6, LooksKeeps
<1>7. ASSUME Relist PROVE CInv'
  BY <1>1, <1>7, Idle DEF Relist, setup
<1>8. ASSUME Tick PROVE CInv'
  BY <1>1, <1>8, TickKeeps
<1>9. ASSUME Over PROVE CInv'
  BY <1>2, <1>9 DEF Over
<1>10. QED
  BY <1>1, <1>2, <1>3, <1>4, <1>5, <1>6, <1>7, <1>8, <1>9 DEF Next

\* What holds of every handler, of the tokens that were handed out and of the
\* cached opinions (ServeHTTP, buildFormChecks, Checker.Check).
THEOREM Inductive == Spec => []CInv
<1>1. Init => CInv
  BY CInvInit
<1>2. CInv /\ [Next]_vars => CInv'
  BY CInvNext
<1>3. QED
  BY <1>1, <1>2, PTL DEF Spec

-----------------------------------------------------------------------------
(* What is handed on. *)

LEMMA HandedOn ==
  ASSUME CInv, NEW i \in Ids, In(i, "sending")
  PROVE  /\ Entered(ask[i]) /\ BodyVerdict(ask[i]) = Passes /\ Submission(ask[i]) = Passes
         /\ \A check \in Configured(ep) : Passed(req[i], ask[i], check)
<1>1. Stands(req[i], ask[i]) /\ Waits(req[i])
  BY DEF CInv, Handled
<1>2. ToSet(req[i].todo) = {}
  BY <1>1, ShortSets DEF Waits, In
<1>3. QED
  BY <1>1, <1>2 DEF Stands, Admitted, Formed, In

\* The limits on the body and the files that New has set, defaults included.
LEMMA LimitsAre ==
  ASSUME Loaded
  PROVE  /\ \A a : TooLarge(a) => maxBodySize(ep) > 0 /\ a.size > maxBodySize(ep)
         /\ There(ep.attachments) => EffectiveMaxCount(ep.attachments) = OrDefault(ep.attachments.maxCount, DefaultMaxCount)
<1>1. There(ep.attachments) => EffectiveMaxTotalSize(ep.attachments) \in Nat
  <2>1. CASE There(ep.attachments.maxTotal) /\ There(ep.attachments)
    BY <2>1 DEF Loaded, Builds
  <2>2. QED
    BY <2>1 DEF EffectiveMaxTotalSize
<1>2. There(ep.maxBody) => maxBodySize(ep) = ep.maxBody /\ ep.maxBody \in Int /\ ep.maxBody >= 0
  BY DEF Loaded, Builds, Numbers, maxBodySize
<1>3. ~There(ep.maxBody)
        => maxBodySize(ep) = DefaultMaxBody + (IF There(ep.attachments) THEN EffectiveMaxTotalSize(ep.attachments) ELSE 0)
  BY <1>1 DEF maxBodySize
<1>4. ASSUME NEW a, TooLarge(a) PROVE maxBodySize(ep) > 0 /\ a.size > maxBodySize(ep)
  <2>1. CASE There(ep.maxBody)
    BY <1>2, <1>4, <2>1 DEF TooLarge
  <2>2. CASE ~There(ep.maxBody)
    BY <1>1, <1>3, <1>4, <2>2 DEF TooLarge
  <2>3. QED
    BY <2>1, <2>2
<1>5. There(ep.attachments) => EffectiveMaxCount(ep.attachments) = OrDefault(ep.attachments.maxCount, DefaultMaxCount)
  <2>1. There(ep.attachments) => validAttachments(ep.attachments)
    BY Zenon DEF Loaded, Valid
  <2>2. There(ep.attachments) => ep.attachments.maxCount \in Int /\ ep.attachments.maxCount >= 0
    BY <2>1 DEF Loaded, Numbers, validAttachments
  <2>3. QED
    BY <2>2 DEF EffectiveMaxCount, OrDefault
<1>6. QED
  BY <1>4, <1>5

LEMMA BodiesAllowed ==
  ASSUME Loaded, NEW a, Entered(a), BodyVerdict(a) = Passes, Submission(a) = Passes
  PROVE  BodyAllowed(a) /\ (api(ep) => a.type = "json" /\ a.override \notin {"empty", "no_address"}) /\ ~ep.dryRun
<1>1. ~a.malformed /\ FilesVerdict(a) = Passes /\ (api(ep) => a.type = "json")
      /\ ~(maxBodySize(ep) > 0 /\ a.size > maxBodySize(ep))
  BY DEF BodyVerdict, Passes
<1>2. ~TooLarge(a)
  BY <1>1, LimitsAre
<1>3. ASSUME There(ep.attachments), a.type # "form", a.files # <<>>
      PROVE  vet(ep.attachments, a.files)
  <2>1. api(ep) \/ a.type = "multipart"
    BY <1>3 DEF Entered
  <2>2. QED
    BY <1>1, <1>3, <2>1 DEF FilesVerdict, Passes
<1>4. FilesAllowed(a)
  <2>1. CASE There(ep.attachments)
    BY <1>3, <2>1, LimitsAre DEF FilesAllowed, vet
  <2>2. CASE ~There(ep.attachments)
    BY <1>1, <2>2 DEF FilesAllowed, FilesVerdict, Passes
  <2>3. QED
    BY <2>1, <2>2
<1>5. /\ a.fields \notin {"missing", "no_address", "unrenderable"} /\ ~ep.dryRun
      /\ api(ep) => a.override \notin {"empty", "no_address"}
  BY DEF Submission, Passes
<1>6. QED
  BY <1>1, <1>2, <1>4, <1>5 DEF BodyAllowed

\* Every check that is configured has stopped what it should stop by the time
\* a submission is handed to storage and transport, whatever else runs: the
\* caller, the request's type, size, files, fields and recipients, and what a
\* form has to show, a CSRF token's age included (ServeHTTP, buildFormChecks,
\* Validate, newAttachmentPolicy).
THEOREM Unchecked == Spec => []NothingUnchecked
<1>1. ASSUME CInv, NEW i \in Ids, In(i, "sending"), NEW r, r = req[i], NEW a, a = ask[i]
      PROVE  /\ a.method = "POST" /\ ~ep.dryRun
             /\ IF api(ep)
                  THEN a.credential \in ep.keys /\ a.type = "json" /\ a.override \notin {"empty", "no_address"}
                  ELSE a.type \in {"form", "multipart"}
             /\ There(ep.origins) => a.origin \in ep.origins
             /\ BodyAllowed(a)
             /\ ep.honeypot => ~a.trap
             /\ ep.csrf # "" => a.csrf # -1 /\ r.signed - a.csrf <= OrDefault(ep.csrfTTL, DefaultCsrfTTL)
             /\ There(ep.pob) => r.token \in issued
             /\ There(ep.captcha) => r.human \in {"accepted"} \cup (IF ep.captcha.onError = "open" THEN {"error"} ELSE {})
             /\ There(ep.reputation) => r.opinion.reply \in {"clean"} \cup (IF ep.reputation.failOpen \in {Absent, TRUE} THEN {"error"} ELSE {})
  <2>1. /\ Loaded /\ Entered(a) /\ BodyVerdict(a) = Passes /\ Submission(a) = Passes
        /\ \A check \in Configured(ep) : Passed(r, a, check)
    BY <1>1, HandedOn DEF CInv
  <2>2. a.method = "POST" /\ IF api(ep) THEN a.credential \in ep.keys ELSE a.type \in {"form", "multipart"}
    BY <2>1 DEF Entered
  <2>3. There(ep.origins) => a.origin \in ep.origins
    BY <2>1 DEF Entered, ForeignOrigin, Loaded, Valid, validAuth
  <2>4. BodyAllowed(a) /\ (api(ep) => a.type = "json" /\ a.override \notin {"empty", "no_address"}) /\ ~ep.dryRun
    BY <2>1, BodiesAllowed
  <2>5. ep.honeypot => ~a.trap
    BY <2>1, ConfiguredIs DEF Passed
  <2>6. ep.csrf # "" => a.csrf # -1 /\ r.signed - a.csrf <= OrDefault(ep.csrfTTL, DefaultCsrfTTL)
    <3>1. csrfTTL(ep) = OrDefault(ep.csrfTTL, DefaultCsrfTTL)
      BY DEF csrfTTL, OrDefault
    <3>2. QED
      BY <2>1, <3>1, ConfiguredIs DEF Passed
  <2>7. There(ep.pob) => r.token \in issued
    BY <2>1, ConfiguredIs DEF Passed, Timely
  <2>8. There(ep.captcha) => r.human \in {"accepted"} \cup (IF ep.captcha.onError = "open" THEN {"error"} ELSE {})
    BY <2>1, ConfiguredIs DEF Passed
  <2>9. There(ep.reputation) => r.opinion.reply \in {"clean"} \cup (IF ep.reputation.failOpen \in {Absent, TRUE} THEN {"error"} ELSE {})
    BY <2>1, ConfiguredIs DEF Passed, Cleared
  <2>10. QED
    BY <2>2, <2>3, <2>4, <2>5, <2>6, <2>7, <2>8, <2>9
<1>2. CInv => NothingUnchecked
  BY <1>1 DEF NothingUnchecked
<1>3. QED
  BY <1>2, Inductive, PTL

\* A token is never too old, and at least min_age old as far as its stamp can
\* tell (serveChallenge, pobGate.verify).
THEOREM Tokens == Spec => []TokenTimely
<1>1. ASSUME CInv, NEW i \in Ids, In(i, "sending"), There(ep.pob) PROVE Timely(req[i])
  BY <1>1, HandedOn, ConfiguredIs DEF Passed
<1>2. CInv => TokenTimely
  BY <1>1 DEF TokenTimely, Timely
<1>3. QED
  BY <1>2, Inductive, PTL

\* However many lookups for one sender run at once, what the last of them
\* caches is not used for longer than the ttl and one call (Checker.Check).
THEOREM Opinions == Spec => []OpinionFresh
<1>1. ASSUME CInv, NEW i \in Ids, In(i, "sending"), There(ep.reputation) PROVE Fresh(req[i].opinion)
  BY <1>1, HandedOn, ConfiguredIs DEF Passed
<1>2. CInv => OpinionFresh
  BY <1>1 DEF OpinionFresh, Fresh
<1>3. QED
  BY <1>2, Inductive, PTL

-----------------------------------------------------------------------------
(* The limiters: what a bucket knows of its caller.                        *)

Buckets == [key : Callers, tokens : Int, last : Nat]
Entries == [at : Nat, ok : BOOLEAN]

Rate(rate) == rate.count \in Nat \ {0} /\ rate.interval \in Nat \ {0}

\* One bucket for a caller, and no more than there is room for.
Roster(l) ==
  /\ l \in Seq(Buckets) /\ IsInjective(l) /\ Len(l) <= MaxKeys
  /\ \A b, d \in ToSet(l) : b.key = d.key => b = d

\* What a caller was let in for between two of its requests, and what time and
\* the bucket are worth, in tokens.
Spent(s, a, b, rate)  == Let_in(s, a, b) * rate.interval
Earned(from, to, rate) == Full(rate) + (to - from) * rate.count

\* The tokens left are what any stretch of the caller's requests up to now has
\* not used; and they are all of it for the stretch that began with the bucket
\* full.
Account(b, s, rate) ==
  /\ s # <<>> /\ b.last = s[Len(s)].at /\ b.tokens >= 0
  /\ \A n \in 1 .. Len(s) : s[n].at <= b.last
  /\ \A a \in 1 .. Len(s) : Spent(s, a, Len(s), rate) + b.tokens <= Earned(s[a].at, b.last, rate)
  /\ \E a \in 1 .. Len(s) : s[a].ok /\ Spent(s, a, Len(s), rate) + b.tokens = Earned(s[a].at, b.last, rate)

Bounded(s, rate) ==
  \A b \in 1 .. Len(s) : \A a \in 1 .. b : Spent(s, a, b, rate) <= Earned(s[a].at, s[b].at, rate)

Justified(s, rate) ==
  \A b \in 1 .. Len(s) : ~s[b].ok => \E a \in 1 .. b - 1 :
    s[a].ok /\ Spent(s, a, b, rate) + rate.interval > Earned(s[a].at, s[b].at, rate)

Ledger(l, h, rate) ==
  /\ Roster(l) /\ h \in [Callers -> Seq(Entries)]
  /\ \A c \in Callers : ~Held(l, c) => h[c] = <<>>
  /\ \A b \in ToSet(l) : Account(b, h[b.key], rate)
  /\ \A c \in Callers : Bounded(h[c], rate) /\ Justified(h[c], rate)

Statuses  == {0, 200, 202, 400, 401, 403, 405, 409, 413, 415, 422, 429, 500, 502}
Spoken(r) == r.answer \in Statuses /\ (r.answer # 0 => r.stage = "done")
Fit(r)    == {"stage", "answer"} \subseteq DOMAIN r /\ r.answer = 0

\* Who may ask, where a limiter stands before it, and what it was told.
Known ==
  /\ ep.keys \subseteq Callers
  /\ \A i \in Ids : req[i].stage # "done" => Reaches(ask[i], ep)
  /\ \A i \in Ids : req[i].stage = "limit" => There(ep.rate)
  /\ \A i \in Ids : Spoken(req[i])

\* One answer is kept for a sender.
Single == \A c, d \in cache : c.who = d.who => c = d

LInv ==
  /\ Known /\ Single /\ met \in [Limiters -> [Callers -> Seq(Entries)]]
  /\ There(ep.rate) \/ limiter = <<>>
  /\ Ledger(limiter, met["rate"], ep.rate) /\ Ledger(authFailLimiter, met["auth"], AuthRate)

LEMMA Products ==
  /\ \A x, y, z \in Int : (x + y) * z = x * z + y * z
  /\ \A z \in Int : 0 * z = 0 /\ 1 * z = z
  /\ \A x, y \in Int : x * y \in Int
  /\ \A x, y \in Nat \ {0} : x * y >= y
<1>1. \A x, y, z \in Int : (x + y) * z = x * z + y * z
  OBVIOUS
<1>2. \A z \in Int : 0 * z = 0 /\ 1 * z = z
  OBVIOUS
<1>3. \A x, y \in Int : x * y \in Int
  OBVIOUS
<1>4. ASSUME NEW x \in Nat \ {0}, NEW y \in Nat \ {0} PROVE x * y >= y
  <2>1. (x - 1) * y >= 0
    BY <1>4
  <2>2. ((x - 1) + 1) * y = (x - 1) * y + 1 * y
    BY <1>1
  <2>3. (x - 1) + 1 = x /\ 1 * y = y
    OBVIOUS
  <2>4. QED
    BY <2>1, <2>2, <2>3
<1>5. QED
  BY <1>1, <1>2, <1>3, <1>4

\* One more request: of any stretch, and of the one it ends.
LEMMA LetIn ==
  ASSUME NEW s \in Seq(Entries), NEW e \in Entries, NEW a \in Nat \ {0}
  PROVE  /\ \A b \in Nat : Let_in(s, a, b) \in Nat
         /\ \A b \in 0 .. Len(s) : Let_in(Append(s, e), a, b) = Let_in(s, a, b)
         /\ a = Len(s) + 1 => Let_in(s, a, Len(s)) = 0
         /\ a <= Len(s) + 1 =>
              /\ e.ok => Let_in(Append(s, e), a, Len(s) + 1) = Let_in(s, a, Len(s)) + 1
              /\ ~e.ok => Let_in(Append(s, e), a, Len(s) + 1) = Let_in(s, a, Len(s))
<1> DEFINE t == Append(s, e)
           L == Len(s)
           Of(u, b) == {n \in a .. b : u[n].ok}
<1>1. L \in Nat /\ t[L + 1] = e /\ \A n \in 1 .. L : t[n] = s[n]
  OBVIOUS
<1> HIDE DEF t, L
<1>2. ASSUME NEW u, NEW b \in Nat PROVE IsFiniteSet(Of(u, b)) /\ Cardinality(Of(u, b)) \in Nat
  <2>1. IsFiniteSet(a .. b)
    BY FS_Interval
  <2>2. Of(u, b) \subseteq a .. b
    OBVIOUS
  <2> HIDE DEF Of
  <2>3. QED
    BY <2>1, <2>2, FS_Subset, FS_CardinalityType
<1>3. \A b \in Nat : Let_in(s, a, b) \in Nat
  BY <1>2 DEF Let_in
<1>4. ASSUME NEW b \in 0 .. L PROVE Let_in(t, a, b) = Let_in(s, a, b)
  <2>1. \A n \in a .. b : t[n] = s[n]
    BY <1>1
  <2>2. Of(t, b) = Of(s, b)
    BY <2>1
  <2>3. QED
    BY <2>2 DEF Let_in
<1>5. ASSUME a = L + 1 PROVE Let_in(s, a, L) = 0
  <2>1. Of(s, L) = {}
    BY <1>1, <1>5
  <2>2. QED
    BY <2>1, FS_EmptySet DEF Let_in
<1>6. ASSUME a <= L + 1
      PROVE  /\ e.ok => Let_in(t, a, L + 1) = Let_in(s, a, L) + 1
             /\ ~e.ok => Let_in(t, a, L + 1) = Let_in(s, a, L)
  <2>1. a .. L + 1 = a .. L \cup {L + 1} /\ L + 1 \notin a .. L /\ \A n \in a .. L : t[n] = s[n]
    BY <1>1, <1>6
  <2>2. CASE e.ok
    <3>1. Of(t, L + 1) = Of(s, L) \cup {L + 1}
      BY <1>1, <2>1, <2>2
    <3>2. L + 1 \notin Of(s, L) /\ IsFiniteSet(Of(s, L))
      BY <1>1, <1>2, <2>1
    <3>3. Cardinality(Of(s, L) \cup {L + 1}) = Cardinality(Of(s, L)) + 1
      BY <3>2, FS_AddElement
    <3>4. QED
      BY <2>2, <3>1, <3>3 DEF Let_in
  <2>3. CASE ~e.ok
    <3>1. Of(t, L + 1) = Of(s, L)
      BY <1>1, <2>1, <2>3
    <3>2. QED
      BY <2>3, <3>1 DEF Let_in
  <2>4. QED
    BY <2>2, <2>3
<1>7. QED
  BY <1>3, <1>4, <1>5, <1>6 DEF t, L

-----------------------------------------------------------------------------
(* allowAt on the list of the buckets: one bucket changes, one may go.     *)

LEMMA RosterGrows ==
  ASSUME NEW l \in Seq(Buckets), IsInjective(l), Len(l) + 1 <= MaxKeys, NEW b \in Buckets,
         \A c, d \in ToSet(l) : c.key = d.key => c = d, \A d \in ToSet(l) : d.key # b.key
  PROVE  Roster(Append(l, b)) /\ ToSet(Append(l, b)) = ToSet(l) \cup {b}
<1>1. ToSet(Append(l, b)) = ToSet(l) \cup {b}
  BY AppendSet
<1>2. IsInjective(l) /\ b \notin ToSet(l) => IsInjective(Append(l, b))
  BY AppendSet
<1>3. b \notin ToSet(l)
  OBVIOUS
<1>4. Len(Append(l, b)) = Len(l) + 1 /\ Append(l, b) \in Seq(Buckets)
  OBVIOUS
<1>5. \A c, d \in ToSet(Append(l, b)) : c.key = d.key => c = d
  BY <1>1
<1>6. QED
  BY <1>1, <1>2, <1>3, <1>4, <1>5 DEF Roster

\* The buckets that stay beside the caller's.
Kept(l, k) == IF Evicted(l, k) = {} THEN Others(l, k) ELSE Tail(Others(l, k))

LEMMA RosterKeeps ==
  ASSUME NEW l, Roster(l), NEW k \in Callers, NEW b \in Buckets, b.key = k
  PROVE  /\ Roster(Append(Kept(l, k), b))
         /\ ToSet(Append(Kept(l, k), b)) = {d \in ToSet(l) : d.key # k /\ d.key \notin Evicted(l, k)} \cup {b}
<1> DEFINE kept == Kept(l, k)
<1>1. l \in Seq(Buckets) /\ IsInjective(l)
  BY DEF Roster
<1>2. Len(l) \in Nat /\ Len(l) <= MaxKeys /\ DOMAIN l = 1 .. Len(l) /\ MaxKeys \in Nat \ {0}
  BY DEF Roster
<1>3. \A c, d \in ToSet(l) : c.key = d.key => c = d
  BY DEF Roster
<1>4. /\ kept \in Seq(Buckets) /\ IsInjective(kept) /\ Len(kept) + 1 <= MaxKeys
      /\ ToSet(kept) = {d \in ToSet(l) : d.key # k /\ d.key \notin Evicted(l, k)}
  <2>1. CASE Held(l, k)
    <3> DEFINE n == CHOOSE m \in DOMAIN l : l[m].key = k
    <3>1. n \in 1 .. Len(l) /\ l[n].key = k
      BY <1>2, <2>1 DEF Held, ToSet
    <3>2. kept = RemoveAt(l, n) /\ Evicted(l, k) = {}
      BY <2>1 DEF Kept, Others, Evicted
    <3> HIDE DEF n
    <3>3. RemoveAt(l, n) \in Seq(Buckets) /\ Len(RemoveAt(l, n)) = Len(l) - 1
      BY <1>1, <3>1, RemoveAtIs
    <3>4. ToSet(RemoveAt(l, n)) = ToSet(l) \ {l[n]} /\ IsInjective(RemoveAt(l, n))
      BY <1>1, <3>1, RemoveAtSet
    <3>5. l[n] \in ToSet(l)
      BY <1>2, <3>1 DEF ToSet
    <3>6. ToSet(l) \ {l[n]} = {d \in ToSet(l) : d.key # k /\ d.key \notin Evicted(l, k)}
      BY <1>3, <3>1, <3>2, <3>5
    <3>7. Len(RemoveAt(l, n)) + 1 <= MaxKeys
      BY <1>2, <3>3
    <3>8. QED
      BY <3>2, <3>3, <3>4, <3>6, <3>7
  <2>2. CASE ~Held(l, k) /\ Len(l) = MaxKeys
    <3>1. Evicted(l, k) = {l[1].key} /\ Others(l, k) = l
      BY <2>2 DEF Evicted, Others
    <3>2. l # <<>>
      BY <1>2, <2>2
    <3>3. kept = Tail(l) /\ Head(l) = l[1]
      <4>1. Evicted(l, k) # {}
        BY <3>1
      <4>2. kept = Tail(l)
        BY <3>1, <4>1 DEF Kept
      <4>3. Head(l) = l[1]
        BY <1>1, <3>2
      <4>4. QED
        BY <4>2, <4>3
    <3>4. /\ Tail(l) \in Seq(Buckets) /\ Len(Tail(l)) = Len(l) - 1
          /\ ToSet(Tail(l)) = ToSet(l) \ {Head(l)} /\ IsInjective(Tail(l))
      BY <1>1, <3>2, TailSet
    <3>5. Head(l) \in ToSet(l)
      BY <1>1, <3>2, HeadOrTail
    <3>6. \A d \in ToSet(l) : d.key # k
      BY <2>2 DEF Held
    <3>7. ToSet(l) \ {Head(l)} = {d \in ToSet(l) : d.key # k /\ d.key \notin Evicted(l, k)}
      BY <1>3, <3>1, <3>3, <3>5, <3>6
    <3>8. Len(Tail(l)) + 1 <= MaxKeys
      BY <1>2, <3>4
    <3>9. QED
      BY <3>3, <3>4, <3>7, <3>8
  <2>3. CASE ~Held(l, k) /\ Len(l) # MaxKeys
    <3>1. kept = l /\ Evicted(l, k) = {}
      BY <2>3 DEF Evicted, Others, Kept
    <3>2. \A d \in ToSet(l) : d.key # k
      BY <2>3 DEF Held
    <3>3. ToSet(l) = {d \in ToSet(l) : d.key # k /\ d.key \notin Evicted(l, k)}
      BY <3>1, <3>2
    <3>4. Len(l) + 1 <= MaxKeys
      <4>1. Len(l) \in Nat /\ MaxKeys \in Nat /\ Len(l) <= MaxKeys /\ Len(l) # MaxKeys
        BY <1>2, <2>3
      <4>2. QED
        BY <4>1
    <3>5. QED
      BY <1>1, <3>1, <3>3, <3>4
  <2>4. QED
    BY <2>1, <2>2, <2>3
<1> HIDE DEF kept
<1>5. \A c, d \in ToSet(kept) : c.key = d.key => c = d
  BY <1>3, <1>4
<1>6. \A d \in ToSet(kept) : d.key # b.key
  BY <1>4
<1>7. Roster(Append(kept, b)) /\ ToSet(Append(kept, b)) = ToSet(kept) \cup {b}
  BY <1>4, <1>5, <1>6, RosterGrows
<1>8. QED
  BY <1>4, <1>7 DEF kept

-----------------------------------------------------------------------------
(* One request more in a bucket's account.                                 *)

LEMMA Amounts ==
  ASSUME NEW rate, Rate(rate)
  PROVE  /\ rate.count \in Nat \ {0} /\ rate.interval \in Nat \ {0}
         /\ Full(rate) \in Nat /\ Full(rate) >= rate.interval
         /\ \A from, to \in Int : Earned(from, to, rate) \in Int
         /\ \A from \in Int : Earned(from, from, rate) = Full(rate)
         /\ \A from, mid, to \in Int :
              Earned(from, to, rate) = Earned(from, mid, rate) + (to - mid) * rate.count
         /\ \A x, y \in Int : (x - y) * rate.count \in Int
<1> DEFINE C == rate.count
           I == rate.interval
<1>1. C \in Nat \ {0} /\ I \in Nat \ {0}
  BY DEF Rate
<1> HIDE DEF C, I
<1>2. C * I \in Int /\ C * I >= I
  BY <1>1, Products
<1>3. Full(rate) \in Nat /\ Full(rate) >= I
  BY <1>1, <1>2 DEF Full, C, I
<1>4. \A x, y \in Int : (x - y) * C \in Int
  BY <1>1, Products
<1>5. \A from, to \in Int : Earned(from, to, rate) = Full(rate) + (to - from) * C
  BY DEF Earned, C
<1>6. \A from \in Int : (from - from) * C = 0
  BY <1>1, Products
<1>7. ASSUME NEW from \in Int, NEW mid \in Int, NEW to \in Int
      PROVE  (to - from) * C = (mid - from) * C + (to - mid) * C
  <2>1. ((mid - from) + (to - mid)) * C = (mid - from) * C + (to - mid) * C
    BY <1>1, Products
  <2>2. (mid - from) + (to - mid) = to - from
    OBVIOUS
  <2>3. QED
    BY <2>1, <2>2
<1>8. ASSUME NEW from \in Int, NEW to \in Int PROVE Earned(from, to, rate) \in Int
  <2>1. (to - from) * C \in Int
    BY <1>4
  <2>2. QED
    BY <1>3, <1>5, <2>1
<1>9. \A from \in Int : Earned(from, from, rate) = Full(rate)
  BY <1>3, <1>5, <1>6
<1>10. ASSUME NEW from \in Int, NEW mid \in Int, NEW to \in Int
       PROVE  Earned(from, to, rate) = Earned(from, mid, rate) + (to - mid) * C
  <2>1. (mid - from) * C \in Int /\ (to - mid) * C \in Int
    BY <1>4
  <2>2. (to - from) * C = (mid - from) * C + (to - mid) * C
    BY <1>7
  <2>3. Full(rate) + ((mid - from) * C + (to - mid) * C) = (Full(rate) + (mid - from) * C) + (to - mid) * C
    BY <1>3, <2>1
  <2>4. QED
    BY <1>5, <2>2, <2>3
<1>11. QED
  BY <1>1, <1>3, <1>4, <1>8, <1>9, <1>10 DEF C, I

\* What is spent, when e is the next request and costs its interval if let in.
LEMMA Spending ==
  ASSUME NEW rate, Rate(rate), NEW s \in Seq(Entries), NEW e \in Entries
  PROVE  /\ \A a \in Nat \ {0}, b \in Nat : Spent(s, a, b, rate) \in Int /\ Spent(s, a, b, rate) >= 0
         /\ \A a \in Nat \ {0}, b \in 0 .. Len(s) : Spent(Append(s, e), a, b, rate) = Spent(s, a, b, rate)
         /\ Spent(s, Len(s) + 1, Len(s), rate) = 0
         /\ \A a \in 1 .. Len(s) + 1 :
              /\ e.ok => Spent(Append(s, e), a, Len(s) + 1, rate) = Spent(s, a, Len(s), rate) + rate.interval
              /\ ~e.ok => Spent(Append(s, e), a, Len(s) + 1, rate) = Spent(s, a, Len(s), rate)
<1> DEFINE I == rate.interval
           L == Len(s)
           t == Append(s, e)
<1>1. I \in Nat \ {0} /\ L \in Nat
  BY DEF Rate
<1>2. ASSUME NEW a \in Nat \ {0}
      PROVE  /\ \A b \in Nat : Let_in(s, a, b) \in Nat
             /\ \A b \in 0 .. L : Let_in(t, a, b) = Let_in(s, a, b)
             /\ a = L + 1 => Let_in(s, a, L) = 0
             /\ a <= L + 1 => /\ e.ok => Let_in(t, a, L + 1) = Let_in(s, a, L) + 1
                              /\ ~e.ok => Let_in(t, a, L + 1) = Let_in(s, a, L)
  BY LetIn
<1> HIDE DEF I, L, t
<1>3. \A u, a, b : Spent(u, a, b, rate) = Let_in(u, a, b) * I
  BY DEF Spent, I
<1>4. \A n \in Nat : n * I \in Int /\ n * I >= 0 /\ 0 * I = 0 /\ (n + 1) * I = n * I + I
  BY <1>1
<1>5. ASSUME NEW a \in Nat \ {0}, NEW b \in Nat PROVE Spent(s, a, b, rate) \in Int /\ Spent(s, a, b, rate) >= 0
  <2>1. Let_in(s, a, b) \in Nat
    BY <1>2
  <2>2. QED
    BY <1>3, <1>4, <2>1
<1>6. ASSUME NEW a \in Nat \ {0}, NEW b \in 0 .. L PROVE Spent(t, a, b, rate) = Spent(s, a, b, rate)
  BY <1>2, <1>3
<1>7. Spent(s, L + 1, L, rate) = 0
  <2>1. Let_in(s, L + 1, L) = 0
    BY <1>1, <1>2
  <2>2. 0 \in Nat /\ 0 * I = 0
    BY <1>4
  <2>3. QED
    BY <1>3, <2>1, <2>2
<1>8. ASSUME NEW a \in 1 .. L + 1
      PROVE  /\ e.ok => Spent(t, a, L + 1, rate) = Spent(s, a, L, rate) + I
             /\ ~e.ok => Spent(t, a, L + 1, rate) = Spent(s, a, L, rate)
  <2>1. a \in Nat \ {0} /\ a <= L + 1
    BY <1>1
  <2>2. Let_in(s, a, L) \in Nat
    BY <1>1, <1>2, <2>1
  <2>3. CASE e.ok
    <3>1. Let_in(t, a, L + 1) = Let_in(s, a, L) + 1
      BY <1>2, <2>1, <2>3
    <3>2. (Let_in(s, a, L) + 1) * I = Let_in(s, a, L) * I + I
      BY <1>4, <2>2
    <3>3. QED
      BY <1>3, <2>3, <3>1, <3>2
  <2>4. CASE ~e.ok
    <3>1. Let_in(t, a, L + 1) = Let_in(s, a, L)
      BY <1>2, <2>1, <2>4
    <3>2. Let_in(s, a, L) * I \in Int
      BY <1>4, <2>2
    <3>3. QED
      BY <1>3, <2>4, <3>1, <3>2
  <2>5. QED
    BY <2>3, <2>4
<1>9. QED
  BY <1>5, <1>6, <1>7, <1>8 DEF I, L, t

\* What a request finds in a bucket, and what it leaves there.
LEMMA RefilledIs ==
  ASSUME NEW rate, Rate(rate), NEW b \in Buckets, 0 <= b.tokens, b.tokens <= Full(rate), NEW now \in Nat,
         NEW at, at = IF b.last > now THEN b.last ELSE now
  PROVE  LET r == Refilled(b, rate, now) IN
         /\ r \in Buckets /\ r.key = b.key /\ r.last = at
         /\ 0 <= r.tokens /\ r.tokens <= Full(rate) /\ r.tokens <= b.tokens + (at - b.last) * rate.count
         /\ r.tokens = Full(rate) \/ r.tokens = b.tokens + (at - b.last) * rate.count
<1> DEFINE r == Refilled(b, rate, now)
           gain == (now - b.last) * rate.count
<1>1. b.key \in Callers /\ b.tokens \in Int /\ b.last \in Nat
  BY DEF Buckets
<1>2. rate.count \in Nat \ {0} /\ Full(rate) \in Nat /\ gain \in Int
  BY <1>1, Amounts
<1>3. CASE now > b.last
  <2>1. gain >= 0
    <3>1. now - b.last \in Nat
      BY <1>1, <1>3
    <3>2. QED
      BY <1>2, <3>1
  <2> DEFINE full == IF b.tokens + gain > Full(rate) THEN Full(rate) ELSE b.tokens + gain
  <2>2. full \in Int /\ 0 <= full /\ full <= Full(rate) /\ full <= b.tokens + gain
        /\ (full = Full(rate) \/ full = b.tokens + gain)
    <3> HIDE DEF gain
    <3>1. QED
      BY <1>1, <1>2, <2>1
  <2>3. r = [b EXCEPT !.tokens = full, !.last = now]
    BY <1>3 DEF Refilled
  <2> HIDE DEF full, r
  <2>4. r \in Buckets /\ r.key = b.key /\ r.last = now /\ r.tokens = full
    BY <2>2, <2>3 DEF Buckets
  <2>5. at = now
    BY <1>1, <1>3
  <2>6. QED
    BY <2>2, <2>4, <2>5 DEF r
<1>4. CASE ~(now > b.last)
  <2>1. r = b
    BY <1>4 DEF Refilled
  <2>2. at = b.last
    BY <1>1, <1>4
  <2>3. (at - b.last) * rate.count = 0
    BY <1>1, <1>2, <2>2
  <2>4. QED
    BY <1>1, <2>1, <2>2, <2>3
<1>5. QED
  BY <1>3, <1>4

\* A request at time `at' finds `left' tokens in bucket b and leaves bucket c.
Serves(b, c, left, gain, at, ok, rate) ==
  /\ left \in Int /\ gain \in Int /\ at \in Nat /\ at >= b.last
  /\ left <= Full(rate) /\ left <= b.tokens + gain
  /\ left = Full(rate) \/ left = b.tokens + gain
  /\ \A from \in Nat : Earned(from, at, rate) = Earned(from, b.last, rate) + gain
  /\ ok <=> left >= rate.interval
  /\ c.last = at /\ c.tokens \in Int /\ c.tokens >= 0
  /\ ok => c.tokens = left - rate.interval
  /\ ~ok => c.tokens = left

\* History t is history s with one request more.
Extends(t, s, at, ok) ==
  /\ t \in Seq(Entries) /\ Len(t) = Len(s) + 1 /\ \A n \in 1 .. Len(s) : t[n] = s[n]
  /\ t[Len(s) + 1].at = at
  /\ t[Len(s) + 1].ok <=> ok

\* The stretches up to the new request, and those before it.
Adds(t, s, ok, rate) ==
  /\ \A a \in 1 .. Len(s) + 1, n \in 0 .. Len(s) :
       /\ Spent(s, a, n, rate) \in Int /\ Spent(s, a, n, rate) >= 0
       /\ Spent(t, a, n, rate) = Spent(s, a, n, rate)
  /\ Spent(s, Len(s) + 1, Len(s), rate) = 0
  /\ \A a \in 1 .. Len(s) + 1 :
       /\ ok => Spent(t, a, Len(s) + 1, rate) = Spent(s, a, Len(s), rate) + rate.interval
       /\ ~ok => Spent(t, a, Len(s) + 1, rate) = Spent(s, a, Len(s), rate)

LEMMA AddsIs ==
  ASSUME NEW rate, Rate(rate), NEW s \in Seq(Entries), NEW at \in Nat, NEW ok \in BOOLEAN
  PROVE  LET t == Append(s, [at |-> at, ok |-> ok]) IN Extends(t, s, at, ok) /\ Adds(t, s, ok, rate)
<1> DEFINE e == [at |-> at, ok |-> ok]
           t == Append(s, e)
<1>1. e \in Entries /\ e.at = at /\ e.ok = ok
  BY DEF Entries
<1> HIDE DEF e
<1>2. Len(s) \in Nat /\ t \in Seq(Entries) /\ Len(t) = Len(s) + 1 /\ t[Len(s) + 1] = e
      /\ \A n \in 1 .. Len(s) : t[n] = s[n]
  BY <1>1
<1>3. /\ \A a \in Nat \ {0}, b \in Nat : Spent(s, a, b, rate) \in Int /\ Spent(s, a, b, rate) >= 0
      /\ \A a \in Nat \ {0}, b \in 0 .. Len(s) : Spent(t, a, b, rate) = Spent(s, a, b, rate)
      /\ Spent(s, Len(s) + 1, Len(s), rate) = 0
      /\ \A a \in 1 .. Len(s) + 1 :
           /\ e.ok => Spent(t, a, Len(s) + 1, rate) = Spent(s, a, Len(s), rate) + rate.interval
           /\ ~e.ok => Spent(t, a, Len(s) + 1, rate) = Spent(s, a, Len(s), rate)
  BY <1>1, Spending
<1> HIDE DEF t
<1>4. Extends(t, s, at, ok)
  BY <1>1, <1>2 DEF Extends
<1>5. ASSUME NEW a \in 1 .. Len(s) + 1
      PROVE  /\ ok => Spent(t, a, Len(s) + 1, rate) = Spent(s, a, Len(s), rate) + rate.interval
             /\ ~ok => Spent(t, a, Len(s) + 1, rate) = Spent(s, a, Len(s), rate)
  BY <1>1, <1>3
<1>6. ASSUME NEW a \in 1 .. Len(s) + 1, NEW n \in 0 .. Len(s)
      PROVE  /\ Spent(s, a, n, rate) \in Int /\ Spent(s, a, n, rate) >= 0
             /\ Spent(t, a, n, rate) = Spent(s, a, n, rate)
  <2>1. a \in Nat \ {0} /\ n \in Nat
    BY <1>2
  <2>2. Spent(t, a, n, rate) = Spent(s, a, n, rate)
    BY <1>3, <2>1
  <2>3. QED
    BY <1>3, <2>1, <2>2
<1>7. Adds(t, s, ok, rate)
  BY <1>3, <1>5, <1>6 DEF Adds
<1>8. QED
  BY <1>4, <1>7 DEF t, e

LEMMA AccountGrows ==
  ASSUME NEW rate, Rate(rate), NEW s \in Seq(Entries), NEW t, NEW at, NEW ok \in BOOLEAN,
         Extends(t, s, at, ok), Adds(t, s, ok, rate),
         NEW b \in Buckets, Account(b, s, rate), NEW c, NEW left, NEW gain, Serves(b, c, left, gain, at, ok, rate)
  PROVE  Account(c, t, rate)
<1> DEFINE L == Len(s)
           I == rate.interval
<1>1. /\ L \in Nat \ {0} /\ b.tokens \in Int /\ b.last \in Nat
      /\ \A n \in 1 .. L : s[n].at \in Nat /\ s[n].at <= b.last
  <2>1. s # <<>> /\ \A n \in 1 .. L : s[n].at <= b.last
    BY DEF Account
  <2>2. \A n \in 1 .. L : s[n] \in Entries
    OBVIOUS
  <2>3. \A n \in 1 .. L : s[n].at \in Nat
    BY <2>2 DEF Entries
  <2>4. L \in Nat \ {0}
    BY <2>1
  <2>5. QED
    BY <2>1, <2>3, <2>4 DEF Buckets
<1>2. /\ I \in Nat \ {0} /\ Full(rate) \in Nat /\ Full(rate) >= I
      /\ \A x, y \in Int : Earned(x, y, rate) \in Int /\ Earned(x, x, rate) = Full(rate)
  BY Amounts
<1>3. /\ Len(t) = L + 1 /\ t[L + 1].at = at /\ (t[L + 1].ok <=> ok) /\ \A n \in 1 .. L : t[n] = s[n]
  BY DEF Extends
<1>4. /\ left \in Int /\ gain \in Int /\ at \in Nat /\ at >= b.last
      /\ left <= Full(rate) /\ left <= b.tokens + gain
      /\ left = Full(rate) \/ left = b.tokens + gain
      /\ ok <=> left >= I
      /\ c.last = at /\ c.tokens \in Int /\ c.tokens >= 0
      /\ ok => c.tokens = left - I
      /\ ~ok => c.tokens = left
  BY DEF Serves
<1>5. \A from \in Nat : Earned(from, at, rate) = Earned(from, b.last, rate) + gain
  BY DEF Serves
<1>6. /\ \A a \in 1 .. L + 1 : Spent(s, a, L, rate) \in Int
      /\ Spent(s, L + 1, L, rate) = 0
  BY <1>1 DEF Adds
<1>7. \A a \in 1 .. L + 1 :
        /\ ok => Spent(t, a, L + 1, rate) = Spent(s, a, L, rate) + I
        /\ ~ok => Spent(t, a, L + 1, rate) = Spent(s, a, L, rate)
  BY DEF Adds
<1>8. /\ \A a \in 1 .. L : Spent(s, a, L, rate) + b.tokens <= Earned(s[a].at, b.last, rate)
      /\ \E a \in 1 .. L : s[a].ok /\ Spent(s, a, L, rate) + b.tokens = Earned(s[a].at, b.last, rate)
  BY DEF Account
<1> HIDE DEF L, I
<1>9. ASSUME NEW a \in 1 .. L + 1 PROVE Spent(t, a, L + 1, rate) + c.tokens = Spent(s, a, L, rate) + left
  <2>1. Spent(s, a, L, rate) \in Int /\ left \in Int /\ I \in Int
    BY <1>2, <1>4, <1>6
  <2>2. CASE ok
    <3>1. Spent(t, a, L + 1, rate) = Spent(s, a, L, rate) + I /\ c.tokens = left - I
      BY <1>4, <1>7, <2>2
    <3>2. QED
      BY <2>1, <3>1
  <2>3. CASE ~ok
    BY <1>4, <1>7, <2>3
  <2>4. QED
    BY <2>2, <2>3
<1>10. ASSUME NEW a \in 1 .. L
       PROVE  /\ a \in 1 .. L + 1 /\ t[a] = s[a] /\ s[a].at \in Nat /\ Spent(s, a, L, rate) \in Int
              /\ Earned(s[a].at, b.last, rate) \in Int
              /\ Earned(s[a].at, at, rate) = Earned(s[a].at, b.last, rate) + gain
  <2>1. a \in 1 .. L + 1 /\ t[a] = s[a] /\ s[a].at \in Nat
    BY <1>1, <1>3
  <2>2. Spent(s, a, L, rate) \in Int
    BY <1>6, <2>1
  <2>3. Earned(s[a].at, b.last, rate) \in Int
    BY <1>1, <1>2, <2>1
  <2>4. QED
    BY <1>5, <2>1, <2>2, <2>3
<1>11. ASSUME NEW a \in 1 .. L + 1 PROVE t[a].at <= at
  <2>1. CASE a = L + 1
    BY <1>3, <1>4, <2>1
  <2>2. CASE a # L + 1
    <3>1. a \in 1 .. L
      BY <1>1, <2>2
    <3>2. t[a] = s[a] /\ s[a].at \in Nat /\ s[a].at <= b.last
      BY <1>1, <1>10, <3>1
    <3>3. QED
      BY <1>1, <1>4, <3>2
  <2>3. QED
    BY <2>1, <2>2
<1>12. Earned(at, at, rate) = Full(rate)
  BY <1>2, <1>4
<1>13. ASSUME NEW a \in 1 .. L + 1 PROVE Spent(t, a, L + 1, rate) + c.tokens <= Earned(t[a].at, at, rate)
  <2>1. CASE a = L + 1
    <3>1. Spent(s, a, L, rate) + left <= Earned(t[a].at, at, rate)
      BY <1>2, <1>3, <1>4, <1>6, <1>12, <2>1
    <3>2. QED
      BY <1>9, <3>1
  <2>2. CASE a # L + 1
    <3>1. a \in 1 .. L
      BY <1>1, <2>2
    <3>2. Spent(s, a, L, rate) + left <= Earned(s[a].at, at, rate)
      <4>1. Spent(s, a, L, rate) + b.tokens <= Earned(s[a].at, b.last, rate) /\ left <= b.tokens + gain
        BY <1>4, <1>8, <3>1
      <4>2. /\ Spent(s, a, L, rate) \in Int /\ b.tokens \in Int /\ left \in Int /\ gain \in Int
            /\ Earned(s[a].at, b.last, rate) \in Int
        BY <1>1, <1>4, <1>10, <3>1
      <4>3. Spent(s, a, L, rate) + left <= Earned(s[a].at, b.last, rate) + gain
        BY <4>1, <4>2
      <4>4. QED
        BY <1>10, <3>1, <4>3
    <3>3. QED
      BY <1>9, <1>10, <3>1, <3>2
  <2>3. QED
    BY <2>1, <2>2
<1>14. \E a \in 1 .. L + 1 : t[a].ok /\ Spent(t, a, L + 1, rate) + c.tokens = Earned(t[a].at, at, rate)
  <2>1. CASE left = Full(rate)
    <3>1. ok /\ L + 1 \in 1 .. L + 1
      BY <1>1, <1>2, <1>4, <2>1
    <3>2. Spent(s, L + 1, L, rate) + left = Earned(t[L + 1].at, at, rate)
      BY <1>2, <1>3, <1>6, <1>12, <2>1
    <3>3. QED
      BY <1>3, <1>9, <3>1, <3>2
  <2>2. CASE left = b.tokens + gain
    <3>1. PICK a \in 1 .. L : s[a].ok /\ Spent(s, a, L, rate) + b.tokens = Earned(s[a].at, b.last, rate)
      BY <1>8
    <3>2. Spent(s, a, L, rate) + left = Earned(s[a].at, at, rate)
      <4>1. /\ Spent(s, a, L, rate) \in Int /\ b.tokens \in Int /\ gain \in Int
            /\ Earned(s[a].at, b.last, rate) \in Int
        BY <1>1, <1>4, <1>10
      <4>2. Spent(s, a, L, rate) + (b.tokens + gain) = Earned(s[a].at, b.last, rate) + gain
        BY <3>1, <4>1
      <4>3. QED
        BY <1>10, <2>2, <4>2
    <3>3. QED
      BY <1>9, <1>10, <3>1, <3>2
  <2>3. QED
    BY <1>4, <2>1, <2>2
<1>15. t # <<>> /\ c.last = t[Len(t)].at
  BY <1>1, <1>3, <1>4
<1>16. QED
  BY <1>3, <1>4, <1>11, <1>13, <1>14, <1>15 DEF Account

LEMMA HistoryGrows ==
  ASSUME NEW rate, Rate(rate), NEW s \in Seq(Entries), NEW t, NEW at, NEW ok \in BOOLEAN,
         Extends(t, s, at, ok), Adds(t, s, ok, rate),
         NEW b \in Buckets, NEW c, NEW left, NEW gain, Serves(b, c, left, gain, at, ok, rate),
         Account(c, t, rate), Bounded(s, rate), Justified(s, rate)
  PROVE  Bounded(t, rate) /\ Justified(t, rate)
<1> DEFINE L == Len(s)
           I == rate.interval
<1>1. at \in Nat /\ c.last = at /\ c.tokens \in Int /\ c.tokens >= 0 /\ (~ok => c.tokens < I)
  <2>1. /\ at \in Nat /\ c.last = at /\ c.tokens \in Int /\ c.tokens >= 0 /\ left \in Int
        /\ (ok <=> left >= I) /\ (~ok => c.tokens = left)
    BY DEF Serves
  <2>2. I \in Nat
    BY DEF Rate
  <2>3. QED
    BY <2>1, <2>2
<1>2. L \in Nat /\ I \in Nat \ {0} /\ \A x, y \in Int : Earned(x, y, rate) \in Int
  BY Amounts
<1>3. /\ Len(t) = L + 1 /\ t[L + 1].at = at /\ (t[L + 1].ok <=> ok) /\ \A n \in 1 .. L : t[n] = s[n]
  BY DEF Extends
<1>4. \A n \in 1 .. L + 1 : t[n].at \in Nat
  <2>1. \A n \in 1 .. Len(t) : t[n] \in Entries
    BY DEF Extends
  <2>2. QED
    BY <1>3, <2>1 DEF Entries
<1>5. \A a \in 1 .. L + 1, n \in 0 .. L : Spent(s, a, n, rate) \in Int /\ Spent(t, a, n, rate) = Spent(s, a, n, rate)
  BY DEF Adds
<1>6. \A a \in 1 .. L + 1 : Spent(t, a, L + 1, rate) \in Int
  <2>1. \A a \in 1 .. L + 1 : Spent(s, a, L, rate) \in Int
    BY <1>2, <1>5
  <2>2. \A a \in 1 .. L + 1 :
          /\ ok => Spent(t, a, L + 1, rate) = Spent(s, a, L, rate) + I
          /\ ~ok => Spent(t, a, L + 1, rate) = Spent(s, a, L, rate)
    BY DEF Adds
  <2> HIDE DEF L, I
  <2>3. ASSUME NEW a \in 1 .. L + 1 PROVE Spent(t, a, L + 1, rate) \in Int
    <3>1. Spent(s, a, L, rate) \in Int /\ I \in Int
      BY <1>2, <2>1
    <3>2. CASE ok
      BY <2>2, <3>1, <3>2
    <3>3. CASE ~ok
      BY <2>2, <3>1, <3>3
    <3>4. QED
      BY <3>2, <3>3
  <2>4. QED
    BY <2>3
<1>7. /\ \A a \in 1 .. L + 1 : Spent(t, a, L + 1, rate) + c.tokens <= Earned(t[a].at, at, rate)
      /\ \E a \in 1 .. L + 1 : t[a].ok /\ Spent(t, a, L + 1, rate) + c.tokens = Earned(t[a].at, at, rate)
  BY <1>3 DEF Account
<1>8. \A m \in 1 .. L : \A a \in 1 .. m : Spent(s, a, m, rate) <= Earned(s[a].at, s[m].at, rate)
  BY DEF Bounded
<1>9. \A m \in 1 .. L : ~s[m].ok => \E a \in 1 .. m - 1 :
        s[a].ok /\ Spent(s, a, m, rate) + I > Earned(s[a].at, s[m].at, rate)
  BY DEF Justified
<1> HIDE DEF L, I
<1>10. ASSUME NEW m \in 1 .. L, NEW a \in 1 .. m
      PROVE  t[a] = s[a] /\ t[m] = s[m] /\ Spent(t, a, m, rate) = Spent(s, a, m, rate)
  <2>1. a \in 1 .. L /\ a \in 1 .. L + 1 /\ m \in 0 .. L
    <3>1. L \in Nat
      BY <1>2
    <3>2. QED
      BY <3>1
  <2>2. Spent(t, a, m, rate) = Spent(s, a, m, rate)
    BY <1>5, <2>1
  <2>3. t[a] = s[a] /\ t[m] = s[m]
    BY <1>3, <2>1
  <2>4. QED
    BY <2>2, <2>3
<1>11. ASSUME NEW m \in 1 .. L + 1, NEW a \in 1 .. m
       PROVE  Spent(t, a, m, rate) <= Earned(t[a].at, t[m].at, rate)
  <2>1. CASE m = L + 1
    <3>1. Spent(t, a, m, rate) + c.tokens <= Earned(t[a].at, t[m].at, rate)
      BY <1>3, <1>7, <2>1
    <3>2. t[a].at \in Int /\ t[m].at \in Int
      <4>1. t[a].at \in Nat /\ t[m].at \in Nat
        <5>1. a \in 1 .. L + 1
          BY <2>1
        <5>2. QED
          BY <1>4, <5>1, Zenon
      <4>2. QED
        BY <4>1
    <3>3. Spent(t, a, m, rate) \in Int /\ Earned(t[a].at, t[m].at, rate) \in Int
      BY <1>2, <1>6, <2>1, <3>2
    <3>4. c.tokens \in Int /\ c.tokens >= 0
      BY <1>1
    <3>5. QED
      BY <3>1, <3>3, <3>4
  <2>2. CASE m # L + 1
    <3>1. m \in 1 .. L
      BY <1>2, <2>2
    <3>2. QED
      BY <1>8, <1>10, <3>1
  <2>3. QED
    BY <2>1, <2>2
<1>12. ASSUME NEW m \in 1 .. L + 1, ~t[m].ok
       PROVE  \E a \in 1 .. m - 1 : t[a].ok /\ Spent(t, a, m, rate) + I > Earned(t[a].at, t[m].at, rate)
  <2>1. CASE m = L + 1
    <3>1. c.tokens < I
      BY <1>1, <1>3, <1>12, <2>1
    <3>2. PICK a \in 1 .. L + 1 : t[a].ok /\ Spent(t, a, L + 1, rate) + c.tokens = Earned(t[a].at, at, rate)
      BY <1>7
    <3>3. a \in 1 .. m - 1
      <4>1. a # m
        BY <1>12, <3>2
      <4>2. QED
        BY <1>2, <2>1, <4>1
    <3>4. Spent(t, a, L + 1, rate) \in Int
      BY <1>6
    <3>5. Spent(t, a, L + 1, rate) + I > Earned(t[a].at, at, rate)
      <4>1. c.tokens \in Int /\ I \in Int
        BY <1>1, <1>2
      <4>2. Spent(t, a, L + 1, rate) + I > Spent(t, a, L + 1, rate) + c.tokens
        BY <3>1, <3>4, <4>1
      <4>3. QED
        BY <3>2, <4>2
    <3>6. QED
      BY <1>3, <2>1, <3>2, <3>3, <3>5
  <2>2. CASE m # L + 1
    <3>1. m \in 1 .. L
      BY <1>2, <2>2
    <3>2. ~s[m].ok
      BY <1>3, <1>12, <3>1
    <3>3. PICK a \in 1 .. m - 1 : s[a].ok /\ Spent(s, a, m, rate) + I > Earned(s[a].at, s[m].at, rate)
      BY <1>9, <3>1, <3>2
    <3>4. a \in 1 .. m
      BY <1>2
    <3>5. t[a] = s[a] /\ t[m] = s[m] /\ Spent(t, a, m, rate) = Spent(s, a, m, rate)
      BY <1>10, <3>1, <3>4
    <3>6. QED
      BY <3>3, <3>5
  <2>3. QED
    BY <2>1, <2>2
<1>13. Bounded(t, rate)
  BY <1>3, <1>11 DEF Bounded
<1>14. Justified(t, rate)
  BY <1>3, <1>12 DEF Justified, I
<1>15. QED
  BY <1>13, <1>14

LEMMA FullEnough ==
  ASSUME NEW rate, Rate(rate), NEW s \in Seq(Entries), NEW b \in Buckets, Account(b, s, rate)
  PROVE  0 <= b.tokens /\ b.tokens <= Full(rate)
<1> DEFINE L == Len(s)
<1>1. L \in Nat \ {0} /\ b.last = s[L].at /\ b.tokens \in Int /\ b.tokens >= 0 /\ b.last \in Int
  BY DEF Account, Buckets
<1>2. L \in 1 .. L
  BY <1>1
<1>3. Spent(s, L, L, rate) + b.tokens <= Earned(b.last, b.last, rate)
  BY <1>1, <1>2 DEF Account
<1>4. Earned(b.last, b.last, rate) = Full(rate) /\ Full(rate) \in Nat
  BY <1>1, Amounts
<1>5. Spent(s, L, L, rate) \in Int /\ Spent(s, L, L, rate) >= 0
  <2>1. [at |-> 0, ok |-> TRUE] \in Entries
    BY DEF Entries
  <2>2. QED
    BY <1>1, <2>1, Spending
<1> HIDE DEF L
<1>6. QED
  BY <1>1, <1>3, <1>4, <1>5

-----------------------------------------------------------------------------
(* allowAt and the history together. *)

Charged(r, ok, rate) == IF ok THEN [r EXCEPT !.tokens = @ - rate.interval] ELSE r

LEMMA ChargedIs ==
  ASSUME NEW rate, Rate(rate), NEW b \in Buckets, 0 <= b.tokens, b.tokens <= Full(rate), NEW now \in Nat,
         NEW at, at = (IF b.last > now THEN b.last ELSE now),
         NEW r, r = Refilled(b, rate, now), NEW ok \in BOOLEAN, ok <=> r.tokens >= rate.interval
  PROVE  /\ Charged(r, ok, rate) \in Buckets /\ Charged(r, ok, rate).key = b.key
         /\ Serves(b, Charged(r, ok, rate), r.tokens, (at - b.last) * rate.count, at, ok, rate)
<1> DEFINE gain == (at - b.last) * rate.count
           c == Charged(r, ok, rate)
           I == rate.interval
<1>1. b.last \in Nat /\ b.tokens \in Int /\ I \in Nat
  BY DEF Buckets, Rate
<1>2. at \in Nat /\ at >= b.last
  BY <1>1
<1>3. gain \in Int /\ \A from \in Nat : Earned(from, at, rate) = Earned(from, b.last, rate) + gain
  BY <1>1, <1>2, Amounts
<1>4. /\ r \in Buckets /\ r.key = b.key /\ r.last = at
      /\ 0 <= r.tokens /\ r.tokens <= Full(rate) /\ r.tokens <= b.tokens + gain
      /\ r.tokens = Full(rate) \/ r.tokens = b.tokens + gain
  BY RefilledIs
<1>5. r.tokens \in Int
  BY <1>4 DEF Buckets
<1>6. /\ c \in Buckets /\ c.key = b.key /\ c.last = at /\ c.tokens \in Int /\ c.tokens >= 0
      /\ ok => c.tokens = r.tokens - I
      /\ ~ok => c.tokens = r.tokens
  <2>1. CASE ok
    <3> DEFINE left == r.tokens - I
    <3>1. left \in Int /\ left >= 0
      BY <1>1, <1>5, <2>1
    <3>2. c = [r EXCEPT !.tokens = left]
      BY <2>1 DEF Charged
    <3> HIDE DEF left, c
    <3>3. c \in Buckets /\ c.key = r.key /\ c.last = r.last /\ c.tokens = left
      BY <1>4, <3>1, <3>2 DEF Buckets
    <3>4. QED
      BY <1>4, <2>1, <3>1, <3>3 DEF left
  <2>2. CASE ~ok
    BY <1>4, <1>5, <2>2 DEF Charged
  <2>3. QED
    BY <2>1, <2>2
<1> HIDE DEF gain, c
<1>7. Serves(b, c, r.tokens, gain, at, ok, rate)
  BY <1>2, <1>3, <1>4, <1>5, <1>6 DEF Serves, I
<1>8. QED
  BY <1>6, <1>7 DEF gain, c

\* A caller that is new to the limiter finds a full bucket.
LEMMA FirstEntry ==
  ASSUME NEW rate, Rate(rate), NEW at \in Nat, NEW t, Extends(t, <<>>, at, TRUE), Adds(t, <<>>, TRUE, rate),
         NEW c, c.last = at, c.tokens = Full(rate) - rate.interval
  PROVE  Account(c, t, rate)
<1> DEFINE I == rate.interval
<1>1. I \in Nat \ {0} /\ Full(rate) \in Nat /\ Full(rate) >= I /\ Earned(at, at, rate) = Full(rate)
  BY Amounts
<1>2. Len(<<>>) = 0
  OBVIOUS
<1>3. t \in Seq(Entries) /\ Len(t) = 1 /\ t[1].at = at /\ t[1].ok
  BY <1>2 DEF Extends
<1>4. Spent(t, 1, 1, rate) = I
  <2>1. Spent(<<>>, 1, 0, rate) = 0 /\ Spent(t, 1, 1, rate) = Spent(<<>>, 1, 0, rate) + I
    BY <1>2 DEF Adds
  <2>2. QED
    BY <1>1, <2>1
<1> HIDE DEF I
<1>5. Spent(t, 1, 1, rate) + c.tokens = Earned(t[1].at, c.last, rate) /\ c.tokens \in Int /\ c.tokens >= 0
  BY <1>1, <1>3, <1>4 DEF I
<1>6. t # <<>>
  <2>1. Len(t) # Len(<<>>)
    BY <1>2, <1>3
  <2>2. QED
    BY <2>1, Zenon
<1>7. Earned(t[1].at, c.last, rate) \in Int
  BY <1>1, <1>3
<1>8. \A a \in 1 .. Len(t) : a = 1
  BY <1>3
<1>9. 1 \in 1 .. Len(t) /\ Len(t) = 1
  BY <1>3
<1>10. \A a \in 1 .. Len(t) : t[a].at <= c.last /\ Spent(t, a, Len(t), rate) + c.tokens <= Earned(t[a].at, c.last, rate)
  <2>1. t[1].at <= c.last /\ Spent(t, 1, 1, rate) + c.tokens <= Earned(t[1].at, c.last, rate)
    BY <1>3, <1>5, <1>7
  <2>2. QED
    BY <1>8, <1>9, <2>1
<1>11. \E a \in 1 .. Len(t) : t[a].ok /\ Spent(t, a, Len(t), rate) + c.tokens = Earned(t[a].at, c.last, rate)
  BY <1>3, <1>5, <1>9
<1>12. t # <<>> /\ c.last = t[Len(t)].at /\ c.tokens >= 0
  BY <1>3, <1>5, <1>6
<1>13. QED
  BY <1>10, <1>11, <1>12 DEF Account

\* When a request of the caller with history s counts, and the histories then.
Moment(s, now) == IF s # <<>> /\ s[Len(s)].at > now THEN s[Len(s)].at ELSE now
Histories(h, k, at, ok, evicted) ==
  [c \in Callers |-> IF c = k THEN Append(h[k], [at |-> at, ok |-> ok])
                     ELSE IF c \in evicted THEN <<>> ELSE h[c]]

\* What the limiter and the history have of the caller once it is answered.
\* Bucket r is what it finds, `at' when it counts, t its caller's history then.
Asks(l, h, k, now, rate, r, ok, at, t) ==
  /\ r = Refilled(Bucket(l, k, rate, now), rate, now)
  /\ ok <=> r.tokens >= rate.interval
  /\ at = Moment(h[k], now)
  /\ t = Append(h[k], [at |-> at, ok |-> ok])

LEMMA EntryMade ==
  ASSUME NEW rate, Rate(rate), NEW l, NEW h, Ledger(l, h, rate), NEW k \in Callers, NEW now \in Nat,
         NEW r, NEW ok \in BOOLEAN, NEW at, NEW t, Asks(l, h, k, now, rate, r, ok, at, t)
  PROVE  /\ Charged(r, ok, rate) \in Buckets /\ Charged(r, ok, rate).key = k /\ t \in Seq(Entries)
         /\ Account(Charged(r, ok, rate), t, rate) /\ Bounded(t, rate) /\ Justified(t, rate)
<1> DEFINE s == h[k]
           b == Bucket(l, k, rate, now)
           c == Charged(r, ok, rate)
<1>1. s \in Seq(Entries) /\ Bounded(s, rate) /\ Justified(s, rate)
  BY DEF Ledger
<1>2. /\ b \in Buckets /\ b.key = k /\ 0 <= b.tokens /\ b.tokens <= Full(rate)
      /\ at = (IF b.last > now THEN b.last ELSE now)
      /\ Account(b, s, rate) \/ (s = <<>> /\ b.tokens = Full(rate) /\ b.last = now)
  <2>1. CASE Held(l, k)
    <3>1. b \in ToSet(l) /\ b.key = k
      BY <2>1 DEF Held, Bucket
    <3>2. b \in Buckets
      <4>1. l \in Seq(Buckets)
        BY DEF Ledger, Roster
      <4>2. QED
        BY <3>1, <4>1 DEF ToSet
    <3>3. Account(b, s, rate)
      BY <3>1 DEF Ledger
    <3>4. s # <<>> /\ b.last = s[Len(s)].at
      BY <3>3 DEF Account
    <3> HIDE DEF b, s
    <3>5. 0 <= b.tokens /\ b.tokens <= Full(rate)
      BY <1>1, <3>2, <3>3, FullEnough
    <3>6. QED
      BY <3>1, <3>2, <3>3, <3>4, <3>5 DEF s, Moment, Asks
  <2>2. CASE ~Held(l, k)
    <3>1. b = [key |-> k, tokens |-> Full(rate), last |-> now]
      BY <2>2 DEF Bucket
    <3>2. s = <<>>
      BY <2>2 DEF Ledger
    <3>3. Full(rate) \in Nat
      BY Amounts
    <3> HIDE DEF b
    <3>4. b \in Buckets /\ b.key = k /\ b.tokens = Full(rate) /\ b.last = now
      BY <3>1, <3>3 DEF Buckets
    <3>5. QED
      BY <3>2, <3>3, <3>4 DEF Moment, Asks
  <2>3. QED
    BY <2>1, <2>2
<1> HIDE DEF b
<1>3. /\ c \in Buckets /\ c.key = k
      /\ Serves(b, c, r.tokens, (at - b.last) * rate.count, at, ok, rate)
  <2>1. r = Refilled(b, rate, now) /\ (ok <=> r.tokens >= rate.interval)
    BY DEF Asks, b
  <2>2. QED
    BY <1>2, <2>1, ChargedIs
<1> HIDE DEF c
<1>4. at \in Nat /\ c.last = at /\ c.tokens \in Int /\ c.tokens >= 0 /\ (~ok => c.tokens < rate.interval)
      /\ (ok => c.tokens = r.tokens - rate.interval)
  <2>1. /\ at \in Nat /\ c.last = at /\ c.tokens \in Int /\ c.tokens >= 0 /\ r.tokens \in Int
        /\ (ok <=> r.tokens >= rate.interval)
        /\ (ok => c.tokens = r.tokens - rate.interval) /\ (~ok => c.tokens = r.tokens)
    BY <1>3 DEF Serves
  <2>2. rate.interval \in Nat
    BY DEF Rate
  <2>3. ~ok => r.tokens < rate.interval
    BY <2>1, <2>2
  <2>4. QED
    BY <2>1, <2>3
<1> HIDE DEF s
<1>5. Extends(t, s, at, ok) /\ Adds(t, s, ok, rate)
  <2>1. t = Append(s, [at |-> at, ok |-> ok])
    BY DEF s, Asks
  <2> HIDE DEF s
  <2>2. QED
    BY <1>1, <1>4, <2>1, AddsIs
<1>6. Account(c, t, rate)
  <2>1. CASE Account(b, s, rate)
    BY <1>1, <1>2, <1>3, <1>5, <2>1, AccountGrows
  <2>2. CASE s = <<>> /\ b.tokens = Full(rate) /\ b.last = now
    <3>1. at = b.last /\ (at - b.last) * rate.count = 0
      BY <1>2, <2>2 DEF Rate
    <3>2. Full(rate) \in Nat /\ Full(rate) >= rate.interval
      BY Amounts
    <3>3. r.tokens = Full(rate) /\ ok
      BY <1>3, <2>2, <3>1, <3>2 DEF Serves
    <3>4. c.tokens = Full(rate) - rate.interval
      BY <1>4, <3>3
    <3>5. ok = TRUE
      BY <3>3
    <3>6. Extends(t, <<>>, at, TRUE) /\ Adds(t, <<>>, TRUE, rate)
      BY <1>5, <2>2, <3>5
    <3>7. QED
      BY <1>4, <3>4, <3>6, FirstEntry
  <2>3. QED
    BY <1>2, <2>1, <2>2
<1>7. Bounded(t, rate) /\ Justified(t, rate)
  BY <1>1, <1>2, <1>3, <1>5, <1>6, HistoryGrows
<1>8. t \in Seq(Entries)
  BY <1>5 DEF Extends
<1>9. QED
  BY <1>3, <1>6, <1>7, <1>8 DEF c

\* A limiter's step: its list, and the history of whom it let in.
LEMMA LedgerKeeps ==
  ASSUME NEW rate, Rate(rate), NEW l, NEW h, Ledger(l, h, rate), NEW k \in Callers, NEW now \in Nat,
         NEW d, d = allowAt(l, k, rate, now),
         NEW at, at = Moment(h[k], now),
         NEW g, g = Histories(h, k, at, d.ok, Evicted(l, k))
  PROVE  Ledger(d.limiter, g, rate) /\ d.ok \in BOOLEAN
<1> DEFINE r    == Refilled(Bucket(l, k, rate, now), rate, now)
           ok   == r.tokens >= rate.interval
           b    == Charged(r, ok, rate)
           t    == Append(h[k], [at |-> at, ok |-> ok])
           all  == Append(Kept(l, k), b)
<1>1. d.ok = ok /\ d.limiter = all /\ ok \in BOOLEAN
  BY DEF allowAt, Charged, Kept
<1>2. b \in Buckets /\ b.key = k /\ t \in Seq(Entries) /\ Account(b, t, rate) /\ Bounded(t, rate) /\ Justified(t, rate)
  <2>1. Asks(l, h, k, now, rate, r, ok, at, t)
    BY DEF Asks
  <2> HIDE DEF r, ok, t
  <2>2. QED
    BY <1>1, <2>1, EntryMade
<1>3. g = [c \in Callers |-> IF c = k THEN t ELSE IF c \in Evicted(l, k) THEN <<>> ELSE h[c]]
  BY <1>1 DEF Histories
<1> HIDE DEF r, ok, b, t
<1>4. Roster(all) /\ ToSet(all) = {e \in ToSet(l) : e.key # k /\ e.key \notin Evicted(l, k)} \cup {b}
  <2>1. Roster(l)
    BY DEF Ledger
  <2>2. b \in Buckets /\ b.key = k
    BY <1>2
  <2>3. QED
    BY <2>1, <2>2, RosterKeeps
<1> HIDE DEF all
<1>5. /\ h \in [Callers -> Seq(Entries)]
      /\ \A c \in Callers : ~Held(l, c) => h[c] = <<>>
      /\ \A e \in ToSet(l) : Account(e, h[e.key], rate)
      /\ \A c \in Callers : Bounded(h[c], rate) /\ Justified(h[c], rate)
      /\ \A e \in ToSet(l) : e.key \in Callers
  <2>1. l \in Seq(Buckets)
    BY DEF Ledger, Roster
  <2>2. ASSUME NEW e \in ToSet(l) PROVE e.key \in Callers
    <3>1. e \in Buckets
      BY <2>1 DEF ToSet
    <3>2. QED
      BY <3>1 DEF Buckets
  <2>3. QED
    BY <2>2 DEF Ledger
<1>6. /\ g[k] = t
      /\ \A c \in Callers : c # k => g[c] = IF c \in Evicted(l, k) THEN <<>> ELSE h[c]
  BY <1>3
<1>7. <<>> \in Seq(Entries) /\ Bounded(<<>>, rate) /\ Justified(<<>>, rate)
  BY DEF Bounded, Justified
<1>8. g \in [Callers -> Seq(Entries)]
  BY <1>2, <1>3, <1>5, <1>7
<1>9. \A c \in Callers : Bounded(g[c], rate) /\ Justified(g[c], rate)
  <2>1. ASSUME NEW c \in Callers PROVE g[c] \in {t, <<>>, h[c]}
    BY <1>6
  <2>2. QED
    BY <1>2, <1>5, <1>7, <2>1
<1>10. ASSUME NEW c \in Callers, ~Held(all, c) PROVE g[c] = <<>>
  <2>1. c # k
    BY <1>2, <1>4, <1>10 DEF Held
  <2>2. CASE c \in Evicted(l, k)
    BY <1>6, <2>1, <2>2
  <2>3. CASE c \notin Evicted(l, k)
    <3>1. ~Held(l, c)
      BY <1>4, <1>10, <2>1, <2>3 DEF Held
    <3>2. QED
      BY <1>5, <1>6, <2>1, <2>3, <3>1
  <2>4. QED
    BY <2>2, <2>3
<1>11. ASSUME NEW e \in ToSet(all) PROVE Account(e, g[e.key], rate)
  <2>1. CASE e = b
    BY <1>2, <1>6, <2>1
  <2>2. CASE e # b
    <3>1. e \in ToSet(l) /\ e.key # k /\ e.key \notin Evicted(l, k)
      BY <1>4, <2>2
    <3>2. e.key \in Callers /\ g[e.key] = h[e.key]
      BY <1>5, <1>6, <3>1
    <3>3. QED
      BY <1>5, <3>1, <3>2
  <2>3. QED
    BY <2>1, <2>2
<1>12. Ledger(all, g, rate)
  BY <1>4, <1>8, <1>9, <1>10, <1>11 DEF Ledger
<1>13. QED
  BY <1>1, <1>12

-----------------------------------------------------------------------------
(* The caller a limiter counts: the client itself, whatever it forges.     *)

LEMMA ChainIs ==
  ASSUME NEW S, NEW f \in Seq(S), NEW T, NEW v \in Seq(T), NEW c,
         NEW F, F = f \o <<c>> \o v, NEW P, P = Len(f) + 1
  PROVE  /\ P \in DOMAIN F /\ F[P] = c /\ DOMAIN F \subseteq Nat /\ F # <<>>
         /\ \A n \in DOMAIN F : n > P => F[n] \in T
<1> DEFINE U == S \cup {c} \cup T
           u == f \o <<c>>
<1>1. f \in Seq(U) /\ v \in Seq(U) /\ <<c>> \in Seq(U) /\ Len(<<c>>) = 1 /\ <<c>>[1] = c
  OBVIOUS
<1> HIDE DEF U
<1>2. u \in Seq(U) /\ Len(u) = P /\ u[P] = c /\ P \in Nat \ {0}
  BY <1>1
<1> HIDE DEF u
<1>3. F = u \o v
  BY DEF u
<1>4. Len(v) \in Nat /\ \A n \in 1 .. Len(v) : v[n] \in T
  OBVIOUS
<1>5. F \in Seq(U) /\ Len(F) = P + Len(v) /\ DOMAIN F = 1 .. Len(F)
  BY <1>1, <1>2, <1>3
<1>6. F[P] = c
  BY <1>1, <1>2, <1>3, <1>4
<1>7. ASSUME NEW n \in DOMAIN F, n > P PROVE F[n] \in T
  <2>1. n - P \in 1 .. Len(v) /\ n \in 1 .. Len(F)
    BY <1>2, <1>4, <1>5, <1>7
  <2>2. F[n] = v[n - P]
    BY <1>1, <1>2, <1>3, <1>4, <1>5, <1>7, <2>1
  <2>3. QED
    BY <1>4, <2>1, <2>2
<1>8. P \in DOMAIN F /\ DOMAIN F \subseteq Nat /\ F # <<>>
  BY <1>2, <1>4, <1>5
<1>9. QED
  BY <1>6, <1>7, <1>8

\* What comes after its own address are the proxies that passed it on.
LEMMA FromIs ==
  ASSUME NEW a, Reaches(a, ep)
  PROVE  From(a) = a.client /\ a.client \in Callers
<1>1. /\ a.client \in Callers /\ a.client \notin ep.proxies /\ a.client # ""
      /\ a.via \in Seq(ep.proxies) /\ a.forged \in Seq(ToSet(a.forged))
  BY Zenon DEF Reaches
<1>2. CASE a.via = <<>>
  BY <1>1, <1>2, Zenon DEF From, ClientIP, Peer
<1>3. CASE a.via # <<>>
  <2> DEFINE v == SubSeq(a.via, 1, Len(a.via) - 1)
             F == a.forged \o <<a.client>> \o v
             P == Len(a.forged) + 1
             strangers == {n \in DOMAIN F : F[n] # "" /\ F[n] \notin ep.proxies}
  <2>1. a.via \in Seq(ep.proxies) /\ a.forged \in Seq(ToSet(a.forged))
    BY <1>1
  <2>2. Len(a.via) \in Nat \ {0} /\ a.via[Len(a.via)] \in ep.proxies
    BY <1>3, <2>1
  <2>3. v \in Seq(ep.proxies)
    <3> DEFINE n == Len(a.via) - 1
    <3>1. 1 \in Int /\ n \in Int /\ \A i \in 1 .. n : a.via[i] \in ep.proxies
      BY <2>1, <2>2
    <3> HIDE DEF n
    <3>2. SubSeq(a.via, 1, n) \in Seq(ep.proxies)
      BY <3>1, SubSeqProperties
    <3>3. QED
      BY <3>2 DEF n
  <2>4. /\ P \in DOMAIN F /\ F[P] = a.client /\ DOMAIN F \subseteq Nat /\ F # <<>>
        /\ \A n \in DOMAIN F : n > P => F[n] \in ep.proxies
    <3> HIDE DEF v
    <3>1. F = a.forged \o <<a.client>> \o v /\ P = Len(a.forged) + 1
      OBVIOUS
    <3> HIDE DEF F, P
    <3>2. QED
      BY <2>1, <2>3, <3>1, ChainIs, SMTT(30)
  <2>5. Forwarded(a) = F /\ Peer(a) = a.via[Len(a.via)]
    BY <1>3, Zenon DEF Forwarded, Peer
  <2> HIDE DEF F, P
  <2>6. P \in strangers /\ \A n \in strangers : n \in DOMAIN F /\ F[n] \notin ep.proxies
    BY <1>1, <2>4, Zenon
  <2>7. strangers # {} => From(a) = F[Max(strangers)]
    <3>1. Peer(a) \in ep.proxies /\ Forwarded(a) = F /\ F # <<>>
      BY <2>2, <2>4, <2>5
    <3>2. QED
      BY <3>1, Zenon DEF From, ClientIP
  <2> HIDE DEF strangers
  <2>8. strangers # {} /\ \A n \in strangers : n \in Nat /\ n <= P
    BY <2>4, <2>6
  <2>9. Max(strangers) = P
    BY <2>4, <2>6, <2>8 DEF Max
  <2>10. QED
    BY <1>1, <2>4, <2>7, <2>8, <2>9
<1>4. QED
  BY <1>1, <1>2, <1>3

-----------------------------------------------------------------------------
(* Who is at a limiter, and who asked.                                     *)

\* A step of request i's handler alone, towards a limiter only if there is one.
Onward(i) ==
  /\ req[i].stage # "done"
  /\ \A j \in Ids \ {i} : req'[j] = req[j]
  /\ req'[i].stage = "limit" => There(ep.rate)
  /\ Spoken(req'[i])

\* The configuration of a limiter is one that refills (EndpointConfig.Validate).
LEMMA RateIs ==
  ASSUME CInv, There(ep.rate)
  PROVE  Rate(ep.rate)
<1>1. ep.rate.count \in Int /\ ep.rate.interval \in Int
  BY DEF CInv, Loaded, Numbers
<1>2. ep.rate.count > 0 /\ ep.rate.interval > 0
  BY Zenon DEF CInv, Loaded, Valid
<1>3. QED
  BY <1>1, <1>2 DEF Rate

LEMMA MovesOn ==
  ASSUME req \in [Ids -> Handlers], NEW i \in Ids, req[i].stage # "done"
  PROVE  /\ \A r : \A status \in Statuses : Answers(i, r, status) => Onward(i)
         /\ \A x : Goes(i, x) /\ x.answer = 0 /\ (x.stage = "limit" => There(ep.rate)) => Onward(i)
         /\ \A r : \A verdict \in Statuses : Fit(r) /\ Judged(i, r, verdict) => Onward(i)
<1>1. ASSUME NEW x, req' = [req EXCEPT ![i] = x], x.stage = "limit" => There(ep.rate), Spoken(x)
      PROVE  Onward(i)
  BY <1>1 DEF Onward
<1>2. ASSUME NEW r, NEW status \in Statuses, Answers(i, r, status) PROVE Onward(i)
  <2> DEFINE x == [Unread EXCEPT !.stage = "done", !.answer = status]
  <2>1. x.stage = "done" /\ x.answer = status
    BY DEF Unread
  <2>2. req' = [req EXCEPT ![i] = x]
    BY <1>2 DEF Answers
  <2> HIDE DEF x
  <2>3. Spoken(x)
    BY <2>1 DEF Spoken
  <2>4. QED
    BY <1>1, <2>1, <2>2, <2>3
<1>3. ASSUME NEW x, Goes(i, x), x.answer = 0, x.stage = "limit" => There(ep.rate) PROVE Onward(i)
  <2>1. Spoken(x)
    BY <1>3 DEF Spoken, Statuses
  <2>2. QED
    BY <1>1, <1>3, <2>1 DEF Goes
<1>4. ASSUME NEW r, NEW verdict \in Statuses, Fit(r), Judged(i, r, verdict) PROVE Onward(i)
  <2> DEFINE x == [r EXCEPT !.stage = "checks", !.todo = Tail(@), !.until = 0]
  <2>1. x.stage = "checks" /\ x.answer = 0
    BY <1>4 DEF Fit
  <2>2. Goes(i, x) \/ Answers(i, r, verdict)
    BY <1>4 DEF Judged
  <2> HIDE DEF x
  <2>3. QED
    BY <1>2, <1>3, <2>1, <2>2
<1>5. QED
  BY <1>2, <1>3, <1>4

LEMMA RequestOn ==
  ASSUME req \in [Ids -> Handlers], NEW i \in Ids, Spoken(req[i]), Remembered, Request(i)
  PROVE  Onward(i)
<1>1. req[i].stage # "done" /\ req[i] \in Handlers /\ req[i].answer = 0
  BY DEF Spoken, Request, Challenge, NotAllowed, ApiRequest, FormRequest, Arrives, In
<1>2. \A r : \A status \in Statuses : Answers(i, r, status) => Onward(i)
  BY <1>1, MovesOn
<1>3. \A x : Goes(i, x) /\ x.answer = 0 /\ (x.stage = "limit" => There(ep.rate)) => Onward(i)
  BY <1>1, MovesOn
<1>4. Admits(req[i]).answer = 0 /\ (Admits(req[i]).stage = "limit" => There(ep.rate))
  BY <1>1 DEF Admits, Handlers
<1>5. ASSUME NEW k, Keyed(i, req[i], k) PROVE Onward(i)
  <2> DEFINE x == [Admits(req[i]) EXCEPT !.claim = TRUE]
  <2>1. x.answer = 0 /\ (x.stage = "limit" => There(ep.rate))
    BY <1>1 DEF Admits, Handlers
  <2>2. \/ Goes(i, Admits(req[i])) \/ req' = [req EXCEPT ![i] = x]
        \/ Answers(i, req[i], 400) \/ Answers(i, req[i], 409)
        \/ k \in Keys /\ idem[k] \notin {Free, Claimed} /\ Answers(i, req[i], idem[k])
    BY <1>5, Zenon DEF Keyed
  <2>3. k \in Keys /\ idem[k] \notin {Free, Claimed} => idem[k] \in Statuses
    BY <1>5 DEF Remembered, Statuses
  <2>4. 400 \in Statuses /\ 409 \in Statuses
    BY DEF Statuses
  <2> HIDE DEF x
  <2>5. ASSUME req' = [req EXCEPT ![i] = x] PROVE Onward(i)
    <3>1. Spoken(x)
      BY <2>1 DEF Spoken, Statuses
    <3>2. QED
      BY <1>1, <2>1, <2>5, <3>1 DEF Onward
  <2>6. QED
    BY <1>2, <1>3, <1>4, <2>2, <2>3, <2>4, <2>5
<1>6. CASE Challenge(i)
  <2>1. Answers(i, req[i], 403) \/ Answers(i, req[i], 200)
    BY <1>6, Zenon DEF Challenge
  <2>2. QED
    BY <1>2, <2>1 DEF Statuses
<1>7. CASE NotAllowed(i)
  <2>1. Answers(i, req[i], 405)
    BY <1>7 DEF NotAllowed
  <2>2. QED
    BY <1>2, <2>1 DEF Statuses
<1>8. CASE ApiRequest(i)
  <2> DEFINE x == [req[i] EXCEPT !.stage = "blame", !.at = clock]
  <2>1. Keyed(i, req[i], ask[i].idem) \/ Goes(i, x)
    BY <1>8 DEF ApiRequest
  <2>2. x.stage = "blame" /\ x.answer = 0
    BY <1>1 DEF Handlers
  <2> HIDE DEF x
  <2>3. QED
    BY <1>3, <1>5, <2>1, <2>2
<1>9. CASE FormRequest(i)
  <2> DEFINE x(t) == [Admits(req[i]) EXCEPT !.token = t]
  <2>1. Answers(i, req[i], 400) \/ Answers(i, req[i], 403) \/ \E t : Goes(i, x(t))
    BY <1>9, Zenon DEF FormRequest
  <2>2. ASSUME NEW t PROVE x(t).answer = 0 /\ (x(t).stage = "limit" => There(ep.rate))
    BY <1>1 DEF Admits, Handlers
  <2> HIDE DEF x
  <2>3. 400 \in Statuses /\ 403 \in Statuses
    BY DEF Statuses
  <2>4. QED
    BY <1>2, <1>3, <2>1, <2>2, <2>3
<1>10. QED
  BY <1>6, <1>7, <1>8, <1>9 DEF Request

LEMMA Verdicts ==
  /\ \A reply : captchaVerdict(reply) \in Statuses /\ reputationVerdict(reply) \in Statuses
  /\ \A a : BodyVerdict(a) \in Statuses /\ Submission(a) \in Statuses
<1>1. \A reply : captchaVerdict(reply) \in Statuses /\ reputationVerdict(reply) \in Statuses
  BY DEF captchaVerdict, reputationVerdict, Passes, Statuses
<1>2. ASSUME NEW a PROVE BodyVerdict(a) \in Statuses
  <2>1. FilesVerdict(a) \in {0, 400, 422}
    BY DEF FilesVerdict, Passes
  <2>2. BodyVerdict(a) \in {415, 413, 400, FilesVerdict(a)}
    BY DEF BodyVerdict
  <2>3. QED
    BY <2>1, <2>2 DEF Statuses
<1>3. \A a : Submission(a) \in Statuses
  BY DEF Submission, Passes, Statuses
<1>4. QED
  BY <1>1, <1>2, <1>3

LEMMA HandleOn ==
  ASSUME req \in [Ids -> Handlers], NEW i \in Ids, Spoken(req[i]),
         Handle(i) \/ CaptchaReply(i) \/ ProviderLooks(i) \/ CheckErrs(i)
  PROVE  Onward(i)
<1>1. req[i] \in Handlers /\ req[i].stage # "done"
  BY DEF Handle, Blame, Admit, ReadBody, honeypot, csrf, proofOfBrowser, captcha, reputation, LookupReturns,
         Submit, Deliver, CaptchaReply, ProviderLooks, CheckErrs, Waiting, Upcoming, In
<1>2. \A r : \A status \in Statuses : Answers(i, r, status) => Onward(i)
  BY <1>1, MovesOn
<1>3. \A x : Goes(i, x) /\ x.answer = 0 /\ (x.stage = "limit" => There(ep.rate)) => Onward(i)
  BY <1>1, MovesOn
<1>4. \A r : \A verdict \in Statuses : Fit(r) /\ Judged(i, r, verdict) => Onward(i)
  BY <1>1, MovesOn
<1>5. Fit(req[i])
  BY <1>1 DEF Handlers, Spoken, Fit
<1>6. {0, 200, 401, 403, 429} \subseteq Statuses
  BY DEF Statuses
<1>7. CASE Blame(i) \/ Deliver(i)
  <2>1. Blame(i) => \E status \in Statuses : Answers(i, req[i], status)
    BY DEF Blame, Statuses
  <2>2. Deliver(i) => \E status \in Statuses : Answers(i, req[i], status)
    BY DEF Deliver, Statuses
  <2>3. QED
    BY <1>2, <1>7, <2>1, <2>2
<1>8. CASE Admit(i)
  <2> DEFINE x == [req[i] EXCEPT !.stage = "body", !.at = 0]
  <2>1. Goes(i, x) \/ Answers(i, req[i], 429)
    BY <1>8 DEF Admit
  <2>2. x.stage = "body" /\ x.answer = 0
    BY <1>5 DEF Fit
  <2> HIDE DEF x
  <2>3. QED
    BY <1>2, <1>3, <1>6, <2>1, <2>2
<1>9. CASE ReadBody(i)
  <2> DEFINE x == [req[i] EXCEPT !.stage = "checks", !.todo = formChecks(ep)]
  <2>1. Goes(i, x) \/ Answers(i, req[i], BodyVerdict(ask[i]))
    BY <1>9 DEF ReadBody
  <2>2. x.stage = "checks" /\ x.answer = 0
    BY <1>5 DEF Fit
  <2> HIDE DEF x
  <2>3. QED
    BY <1>2, <1>3, <2>1, <2>2, Verdicts
<1>10. CASE honeypot(i) \/ csrf(i)
  <2> DEFINE x == [req[i] EXCEPT !.signed = clock]
  <2>1. \/ \E verdict \in Statuses : Judged(i, req[i], verdict)
        \/ \E verdict \in Statuses : Judged(i, x, verdict)
    BY <1>6, <1>10 DEF honeypot, csrf, Passes
  <2>2. Fit(x)
    BY <1>5 DEF Fit
  <2> HIDE DEF x
  <2>3. QED
    BY <1>4, <1>5, <2>1, <2>2
<1>11. CASE proofOfBrowser(i)
  <2> DEFINE x == [req[i] EXCEPT !.proved = clock]
  <2>1. \E verdict \in Statuses : Judged(i, x, verdict)
    BY <1>6, <1>11 DEF proofOfBrowser, Passes
  <2>2. Fit(x)
    BY <1>5 DEF Fit
  <2> HIDE DEF x
  <2>3. QED
    BY <1>4, <2>1, <2>2
<1>12. CASE captcha(i)
  <2> DEFINE x == [req[i] EXCEPT !.stage = "captcha", !.until = clock + captchaTimeout(ep.captcha)]
  <2>1. Goes(i, x) \/ Answers(i, req[i], 200)
    BY <1>12 DEF captcha
  <2>2. x.stage = "captcha" /\ x.answer = 0
    BY <1>5 DEF Fit
  <2> HIDE DEF x
  <2>3. QED
    BY <1>2, <1>3, <1>6, <2>1, <2>2
<1>13. CASE reputation(i)
  <2> DEFINE x    == [req[i] EXCEPT !.stage = "lookup", !.until = clock + lookupTimeout(ep.reputation)]
             y(c) == [req[i] EXCEPT !.opinion = [reply |-> c.reply, at |-> c.at, used |-> clock]]
  <2>1. Goes(i, x) \/ \E c : Judged(i, y(c), reputationVerdict(c.reply))
    BY <1>13, Zenon DEF reputation
  <2>2. x.stage = "lookup" /\ x.answer = 0
    BY <1>5 DEF Fit
  <2>3. ASSUME NEW c PROVE Fit(y(c))
    BY <1>5 DEF Fit
  <2> HIDE DEF x, y
  <2>4. QED
    BY <1>3, <1>4, <2>1, <2>2, <2>3, Verdicts
<1>14. CASE LookupReturns(i)
  <2> DEFINE x == [req[i] EXCEPT !.opinion.used = clock]
  <2>1. \E reply : Judged(i, x, reputationVerdict(reply))
    BY <1>14, Zenon DEF LookupReturns
  <2>2. Fit(x)
    BY <1>5 DEF Fit
  <2> HIDE DEF x
  <2>3. QED
    BY <1>4, <2>1, <2>2, Verdicts
<1>15. CASE Submit(i)
  <2> DEFINE x == [req[i] EXCEPT !.stage = "sending"]
  <2>1. Goes(i, x) \/ Answers(i, req[i], Submission(ask[i]))
    BY <1>15 DEF Submit
  <2>2. x.stage = "sending" /\ x.answer = 0
    BY <1>5 DEF Fit
  <2> HIDE DEF x
  <2>3. QED
    BY <1>2, <1>3, <2>1, <2>2, Verdicts
<1>16. CASE CaptchaReply(i)
  <2> DEFINE x(reply) == [req[i] EXCEPT !.human = reply]
  <2>1. \E reply : Judged(i, x(reply), captchaVerdict(reply))
    BY <1>16, Zenon DEF CaptchaReply
  <2>2. ASSUME NEW reply PROVE Fit(x(reply))
    BY <1>5 DEF Fit
  <2> HIDE DEF x
  <2>3. QED
    BY <1>4, <2>1, <2>2, Verdicts
<1>17. CASE ProviderLooks(i)
  <2> DEFINE x(reply) == [req[i] EXCEPT !.stage = "looked", !.opinion = [reply |-> reply, at |-> clock, used |-> 0]]
  <2>1. \E reply : Goes(i, x(reply))
    BY <1>17, Zenon DEF ProviderLooks
  <2>2. ASSUME NEW reply PROVE x(reply).stage = "looked" /\ x(reply).answer = 0
    BY <1>5 DEF Fit
  <2> HIDE DEF x
  <2>3. QED
    BY <1>3, <2>1, <2>2
<1>18. CASE CheckErrs(i)
  <2> DEFINE x == [req[i] EXCEPT !.human = "error"]
             y == [req[i] EXCEPT !.opinion = [reply |-> "error", at |-> clock, used |-> clock]]
  <2>1. Judged(i, x, captchaVerdict("error")) \/ Judged(i, y, reputationVerdict("error"))
    BY <1>18 DEF CheckErrs
  <2>2. Fit(x) /\ Fit(y)
    BY <1>5 DEF Fit
  <2> HIDE DEF x, y
  <2>3. QED
    BY <1>4, <2>1, <2>2, Verdicts
<1>19. QED
  BY <1>7, <1>8, <1>9, <1>10, <1>11, <1>12, <1>13, <1>14, <1>15, <1>16, <1>17, <1>18 DEF Handle

-----------------------------------------------------------------------------
(* The invariant of the limiters. *)

LEMMA KnownKeeps ==
  ASSUME Known, UNCHANGED <<ep, ask>>, UNCHANGED req \/ \E i \in Ids : Onward(i)
  PROVE  Known'
<1>1. ASSUME NEW j \in Ids
      PROVE  /\ req'[j].stage # "done" => req[j].stage # "done"
             /\ req'[j].stage = "limit" => req[j].stage = "limit" \/ There(ep.rate)
             /\ Spoken(req'[j])
  <2>1. Spoken(req[j])
    BY DEF Known
  <2>2. QED
    BY <2>1 DEF Onward
<1>2. \A a : Reaches(a, ep)' <=> Reaches(a, ep)
  OBVIOUS
<1>3. ASSUME NEW j \in Ids, req'[j].stage # "done" PROVE Reaches(ask'[j], ep')
  BY <1>1, <1>3 DEF Known
<1>4. ASSUME NEW j \in Ids, req'[j].stage = "limit" PROVE There(ep'.rate)
  BY <1>1, <1>4 DEF Known
<1>5. (ep.keys \subseteq Callers)'
  BY DEF Known
<1>6. ASSUME NEW j \in Ids PROVE Spoken(req[j])'
  <2>1. Spoken(req'[j])
    BY <1>1
  <2>2. QED
    BY <2>1 DEF Spoken
<1>7. QED
  BY <1>3, <1>4, <1>5, <1>6 DEF Known

LEMMA EnterIs ==
  ASSUME met \in [Limiters -> [Callers -> Seq(Entries)]], NEW w \in Limiters, NEW k, NEW now, NEW ok, NEW evicted,
         Enter(w, k, now, ok, evicted)
  PROVE  /\ met' = [met EXCEPT ![w] = Histories(met[w], k, Moment(met[w][k], now), ok, evicted)]
         /\ met'[w] = Histories(met[w], k, Moment(met[w][k], now), ok, evicted)
         /\ \A v \in Limiters \ {w} : met'[v] = met[v]
<1> DEFINE h == Histories(met[w], k, Moment(met[w][k], now), ok, evicted)
<1>1. met' = [met EXCEPT ![w] = h]
  BY DEF Enter, Histories, Moment
<1> HIDE DEF h
<1>2. met'[w] = h /\ \A v \in Limiters \ {w} : met'[v] = met[v]
  BY <1>1
<1>3. QED
  BY <1>1, <1>2 DEF h

LEMMA SingleKeeps ==
  ASSUME Single, UNCHANGED cache \/ \E i \in Ids : LookupReturns(i)
  PROVE  Single'
<1>1. CASE UNCHANGED cache
  BY <1>1 DEF Single
<1>2. CASE \E i \in Ids : LookupReturns(i)
  <2>1. PICK who, new : cache' = {c \in cache : c.who # who} \cup {new} /\ new.who = who
    BY <1>2 DEF LookupReturns
  <2>2. QED
    BY <2>1 DEF Single
<1>3. QED
  BY <1>1, <1>2

\* A step that comes near no limiter.
LEMMA LimitsKeep ==
  ASSUME LInv, Known', Single', UNCHANGED <<ep, limiter, authFailLimiter, met>>
  PROVE  LInv'
BY DEF LInv

\* One limiter answers k and the history has it.
LEMMA MeetsKeeps ==
  ASSUME met \in [Limiters -> [Callers -> Seq(Entries)]], NEW w \in Limiters, NEW rate, Rate(rate),
         NEW l, Ledger(l, met[w], rate), NEW k \in Callers, NEW now \in Nat,
         NEW d, d = allowAt(l, k, rate, now), Enter(w, k, now, d.ok, Evicted(l, k))
  PROVE  /\ met' \in [Limiters -> [Callers -> Seq(Entries)]]
         /\ Ledger(d.limiter, met'[w], rate)
         /\ \A v \in Limiters \ {w} : met'[v] = met[v]
<1> DEFINE at == Moment(met[w][k], now)
           g  == Histories(met[w], k, at, d.ok, Evicted(l, k))
<1>1. met' = [met EXCEPT ![w] = g] /\ met'[w] = g /\ \A v \in Limiters \ {w} : met'[v] = met[v]
  BY EnterIs
<1>2. Ledger(d.limiter, g, rate)
  BY LedgerKeeps
<1> HIDE DEF g
<1>3. g \in [Callers -> Seq(Entries)]
  BY <1>2 DEF Ledger
<1>4. QED
  BY <1>1, <1>2, <1>3

LEMMA BlameKeeps ==
  ASSUME CInv, LInv, NEW i \in Ids, Blame(i)
  PROVE  LInv'
<1> DEFINE a == ask[i]
           now == req[i].at
           d == allowAt(authFailLimiter, a.client, AuthRate, now)
<1>1. Known /\ Single /\ met \in [Limiters -> [Callers -> Seq(Entries)]]
      /\ (There(ep.rate) \/ limiter = <<>>)
      /\ Ledger(limiter, met["rate"], ep.rate) /\ Ledger(authFailLimiter, met["auth"], AuthRate)
  BY DEF LInv
<1>2. now \in Nat /\ req \in [Ids -> Handlers] /\ req[i].stage # "done" /\ Spoken(req[i])
  BY DEF CInv, Handled, Handlers, LInv, Known, Blame, In
<1>3. From(a) = a.client /\ a.client \in Callers
  <2>1. Reaches(a, ep)
    BY <1>1, <1>2 DEF Known
  <2> HIDE DEF a
  <2>2. QED
    BY <2>1, FromIs
<1>4. /\ authFailLimiter' = d.limiter
      /\ Enter("auth", a.client, now, d.ok, Evicted(authFailLimiter, a.client))
      /\ UNCHANGED <<ep, ask, limiter, cache>>
  BY <1>3 DEF Blame, setup
<1>5. Onward(i)
  BY <1>2, HandleOn DEF Handle
<1>6. Rate(AuthRate)
  BY DEF Rate, AuthRate
<1> HIDE DEF a, now, d
<1>7. /\ met' \in [Limiters -> [Callers -> Seq(Entries)]]
      /\ Ledger(d.limiter, met'["auth"], AuthRate)
      /\ \A v \in Limiters \ {"auth"} : met'[v] = met[v]
  <2>1. "auth" \in Limiters
    BY DEF Limiters
  <2>2. d = allowAt(authFailLimiter, a.client, AuthRate, now)
    BY DEF d
  <2>3. QED
    BY <1>1, <1>2, <1>3, <1>4, <1>6, <2>1, <2>2, MeetsKeeps
<1>8. met'["rate"] = met["rate"]
  BY <1>7 DEF Limiters
<1>9. Known' /\ Single'
  BY <1>1, <1>4, <1>5, KnownKeeps, SingleKeeps
<1>10. QED
  BY <1>1, <1>4, <1>7, <1>8, <1>9 DEF LInv, AuthRate

LEMMA AdmitKeeps ==
  ASSUME CInv, LInv, NEW i \in Ids, Admit(i)
  PROVE  LInv'
<1> DEFINE a == ask[i]
           k == RateKey(a)
           now == req[i].at
           d == allowAt(limiter, k, ep.rate, now)
<1>1. Known /\ Single /\ met \in [Limiters -> [Callers -> Seq(Entries)]]
      /\ Ledger(limiter, met["rate"], ep.rate) /\ Ledger(authFailLimiter, met["auth"], AuthRate)
  BY DEF LInv
<1>2. now \in Nat /\ req \in [Ids -> Handlers] /\ req[i].stage = "limit" /\ Stands(req[i], a)
      /\ Spoken(req[i])
  BY DEF CInv, Handled, Handlers, LInv, Known, Admit, In
<1>3. Reaches(a, ep) /\ There(ep.rate)
  BY <1>1, <1>2 DEF Known
<1>4. k = (IF api(ep) THEN a.credential ELSE a.client) /\ k \in Callers
  <2> HIDE DEF a
  <2>1. From(a) = a.client /\ a.client \in Callers
    BY <1>3, FromIs
  <2>2. api(ep) => a.credential \in Callers
    BY <1>1, <1>2 DEF Stands, Admitted, Entered, Known
  <2>3. QED
    BY <2>1, <2>2 DEF RateKey
<1>5. /\ limiter' = d.limiter
      /\ Enter("rate", k, now, d.ok, Evicted(limiter, k))
      /\ UNCHANGED <<ep, ask, authFailLimiter, cache>>
  BY <1>4 DEF Admit, setup
<1>6. Onward(i)
  BY <1>2, HandleOn DEF Handle
<1>7. Rate(ep.rate)
  BY <1>3, RateIs
<1> HIDE DEF a, k, now, d
<1>8. /\ met' \in [Limiters -> [Callers -> Seq(Entries)]]
      /\ Ledger(d.limiter, met'["rate"], ep.rate)
      /\ \A v \in Limiters \ {"rate"} : met'[v] = met[v]
  <2>1. "rate" \in Limiters
    BY DEF Limiters
  <2>2. d = allowAt(limiter, k, ep.rate, now)
    BY DEF d
  <2>3. QED
    BY <1>1, <1>2, <1>4, <1>5, <1>7, <2>1, <2>2, MeetsKeeps
<1>9. met'["auth"] = met["auth"]
  BY <1>8 DEF Limiters
<1>10. Known' /\ Single'
  BY <1>1, <1>5, <1>6, KnownKeeps, SingleKeeps
<1>11. QED
  BY <1>1, <1>3, <1>5, <1>8, <1>9, <1>10 DEF LInv, AuthRate

LEMMA LInvInit == Init => LInv
<1>1. SUFFICES ASSUME Init PROVE LInv
  OBVIOUS
<1>2. PICK c \in Cases :
        /\ ep = c.endpoint
        /\ ask \in {f \in [DOMAIN c.traffic -> UNION ToSet(c.traffic)] : \A i \in DOMAIN f : f[i] \in c.traffic[i]}
        /\ req = [i \in Ids |-> IF i \in DOMAIN c.traffic THEN Unread ELSE [Unread EXCEPT !.stage = "done"]]
  BY <1>1 DEF Init
<1>3. ep.keys \subseteq Callers /\ \A i \in DOMAIN c.traffic : \A a \in c.traffic[i] : Reaches(a, ep)
  BY <1>2, CasesAssumption
<1>4. DOMAIN ask = DOMAIN c.traffic /\ \A i \in DOMAIN c.traffic : ask[i] \in c.traffic[i]
  BY <1>2
<1>5. ASSUME NEW i \in Ids
      PROVE  req[i].stage \in {"idle", "done"} /\ (req[i].stage # "done" => i \in DOMAIN c.traffic)
             /\ Spoken(req[i])
  BY <1>2 DEF Unread, Spoken, Statuses
<1>6. Known
  BY <1>3, <1>4, <1>5 DEF Known
<1>7. met \in [Limiters -> [Callers -> Seq(Entries)]]
      /\ met["rate"] = [k \in Callers |-> <<>>] /\ met["auth"] = [k \in Callers |-> <<>>]
  BY <1>1 DEF Init, Limiters
<1>8. ASSUME NEW rate, NEW h, h = [k \in Callers |-> <<>>] PROVE Ledger(<<>>, h, rate)
  <2>1. Roster(<<>>)
    BY ShortSets DEF Roster, IsInjective
  <2>2. Bounded(<<>>, rate) /\ Justified(<<>>, rate) /\ ToSet(<<>>) = {} /\ <<>> \in Seq(Entries)
    BY ShortSets DEF Bounded, Justified
  <2>3. QED
    BY <1>8, <2>1, <2>2 DEF Ledger
<1>9. Ledger(limiter, met["rate"], ep.rate) /\ Ledger(authFailLimiter, met["auth"], AuthRate)
  BY <1>1, <1>7, <1>8 DEF Init
<1>10. QED
  BY <1>1, <1>6, <1>7, <1>9 DEF Init, Single, LInv

LEMMA LInvNext == CInv /\ LInv /\ [Next]_vars => LInv'
<1>1. SUFFICES ASSUME CInv, LInv, [Next]_vars PROVE LInv'
  OBVIOUS
<1>2. Known /\ Single /\ req \in [Ids -> Handlers] /\ Remembered /\ \A i \in Ids : Spoken(req[i])
  BY <1>1 DEF CInv, Handled, LInv, Known
<1>3. ASSUME UNCHANGED <<ep, ask, req, limiter, authFailLimiter, cache, met>> PROVE LInv'
  <2>1. Known' /\ Single'
    BY <1>2, <1>3, KnownKeeps, SingleKeeps
  <2>2. QED
    BY <1>1, <1>3, <2>1, LimitsKeep
<1>4. ASSUME NEW i \in Ids, Onward(i), UNCHANGED <<ep, ask, limiter, authFailLimiter, met>>, Single' PROVE LInv'
  <2>1. Known'
    BY <1>2, <1>4, KnownKeeps
  <2>2. QED
    BY <1>1, <1>4, <2>1, LimitsKeep
<1>5. ASSUME NEW i \in Ids, Request(i) PROVE LInv'
  <2>1. UNCHANGED <<ep, ask, limiter, authFailLimiter, cache, met>>
    BY <1>5 DEF Request, Challenge, NotAllowed, ApiRequest, FormRequest, setup
  <2>2. Onward(i) /\ Single'
    BY <1>2, <1>5, <2>1, RequestOn, SingleKeeps
  <2>3. QED
    BY <1>4, <2>1, <2>2
<1>6. ASSUME NEW i \in Ids, Handle(i) \/ CaptchaReply(i) \/ ProviderLooks(i) \/ CheckErrs(i) PROVE LInv'
  <2>1. CASE Blame(i) \/ Admit(i)
    BY <1>1, <2>1, BlameKeeps, AdmitKeeps
  <2>2. CASE ~(Blame(i) \/ Admit(i))
    <3>1. UNCHANGED <<ep, ask, limiter, authFailLimiter, met>> /\ (UNCHANGED cache \/ LookupReturns(i))
      BY <1>6, <2>2 DEF Handle, ReadBody, honeypot, csrf, proofOfBrowser, captcha, reputation, LookupReturns,
                        Submit, Deliver, CaptchaReply, ProviderLooks, CheckErrs, setup
    <3>2. Onward(i)
      BY <1>2, <1>6, HandleOn
    <3>3. Single'
      BY <1>2, <3>1, SingleKeeps
    <3>4. QED
      BY <1>4, <3>1, <3>2, <3>3
  <2>3. QED
    BY <2>1, <2>2
<1>7. ASSUME Relist \/ Tick \/ Over \/ UNCHANGED vars PROVE LInv'
  BY <1>3, <1>7 DEF Relist, Tick, Over, vars, setup
<1>8. QED
  BY <1>1, <1>5, <1>6, <1>7 DEF Next

\* What a limiter's buckets have of the requests they met, after whatever
\* order the handlers took their times and the lock in, and whomever the
\* limiter forgot (allowAt).
THEOREM Accounts == Spec => []LInv
<1>1. Init => LInv
  BY LInvInit
<1>2. CInv /\ LInv /\ [Next]_vars => LInv'
  BY LInvNext
<1>3. QED
  BY <1>1, <1>2, Inductive, PTL DEF Spec

-----------------------------------------------------------------------------
(* What the limiters let in. *)

LEMMA CallerHistory ==
  ASSUME CInv, LInv, NEW w \in Limiters, NEW c \in Callers
  PROVE  /\ met[w][c] \in Seq(Entries)
         /\ Bounded(met[w][c], RateOf(w)) /\ Justified(met[w][c], RateOf(w))
         /\ met[w][c] # <<>> => Rate(RateOf(w))
<1>1. /\ met \in [Limiters -> [Callers -> Seq(Entries)]]
      /\ There(ep.rate) \/ limiter = <<>>
      /\ Ledger(limiter, met["rate"], ep.rate) /\ Ledger(authFailLimiter, met["auth"], AuthRate)
  BY DEF LInv
<1>2. met[w][c] \in Seq(Entries)
  BY <1>1
<1>3. CASE w = "auth"
  <2>1. RateOf(w) = AuthRate /\ Rate(AuthRate)
    BY <1>3 DEF RateOf, Rate, AuthRate
  <2>2. Bounded(met["auth"][c], AuthRate) /\ Justified(met["auth"][c], AuthRate)
    BY <1>1 DEF Ledger
  <2>3. QED
    BY <1>2, <1>3, <2>1, <2>2
<1>4. CASE w = "rate"
  <2>1. RateOf(w) = ep.rate
    BY <1>4 DEF RateOf
  <2>2. Bounded(met["rate"][c], ep.rate) /\ Justified(met["rate"][c], ep.rate)
    BY <1>1 DEF Ledger
  <2>3. ASSUME met["rate"][c] # <<>> PROVE Rate(ep.rate)
    <3>1. limiter # <<>>
      BY <1>1, <2>3, ShortSets DEF Ledger, Held
    <3>2. There(ep.rate)
      BY <1>1, <3>1
    <3>3. QED
      BY <3>2, RateIs
  <2>4. QED
    BY <1>2, <1>4, <2>1, <2>2, <2>3
<1>5. QED
  BY <1>3, <1>4 DEF Limiters

\* Between any two of its requests a caller is let in no more often than a full
\* bucket and the time between them are worth, however handlers interleave
\* between the clock and the lock, and whatever header it sends (allowAt,
\* ClientIP).
THEOREM Limited == Spec => []RateHeld
<1>1. ASSUME CInv, LInv, NEW w \in Limiters, NEW c \in Callers,
             NEW a \in 1 .. Len(met[w][c]), NEW b \in 1 .. Len(met[w][c]), a <= b
      PROVE  Let_in(met[w][c], a, b) * RateOf(w).interval <= Worth(met[w][c], a, b, RateOf(w))
  <2> DEFINE s == met[w][c]
  <2>1. Bounded(s, RateOf(w)) /\ s \in Seq(Entries)
    BY <1>1, CallerHistory
  <2> HIDE DEF s
  <2>2. a \in 1 .. b
    BY <1>1
  <2>3. Spent(s, a, b, RateOf(w)) <= Earned(s[a].at, s[b].at, RateOf(w))
    BY <1>1, <2>1, <2>2 DEF Bounded, s
  <2>4. QED
    BY <2>3 DEF Spent, Earned, Worth, s
<1>2. CInv /\ LInv => RateHeld
  BY <1>1 DEF RateHeld
<1>3. QED
  BY <1>2, Inductive, Accounts, PTL

\* And none is turned away that the bucket, had it been kept to the letter from
\* some earlier request on, could have let in (allowAt).
THEOREM Owed == Spec => []NeverOvercharged
<1>1. ASSUME CInv, LInv, NEW w \in Limiters, NEW c \in Callers,
             NEW b \in 1 .. Len(met[w][c]), ~met[w][c][b].ok
      PROVE  \E a \in 1 .. b - 1 :
               /\ met[w][c][a].ok
               /\ (Let_in(met[w][c], a, b) + 1) * RateOf(w).interval > Worth(met[w][c], a, b, RateOf(w))
  <2> DEFINE s == met[w][c]
             rate == RateOf(w)
  <2>1. Justified(s, rate) /\ s \in Seq(Entries) /\ (s # <<>> => Rate(rate))
    BY <1>1, CallerHistory
  <2>2. s # <<>> /\ b \in 1 .. Len(s) /\ ~s[b].ok
    BY <1>1
  <2> HIDE DEF s, rate
  <2>3. PICK a \in 1 .. b - 1 : s[a].ok /\ Spent(s, a, b, rate) + rate.interval > Earned(s[a].at, s[b].at, rate)
    BY <2>1, <2>2 DEF Justified
  <2>4. rate.interval \in Int
    BY <2>1, <2>2 DEF Rate
  <2>5. a \in Nat \ {0} /\ b \in Nat
    BY <2>1, <2>2, <2>3
  <2>6. Let_in(s, a, b) \in Nat
    <3>1. [at |-> 0, ok |-> TRUE] \in Entries
      BY DEF Entries
    <3>2. QED
      BY <2>1, <2>5, <3>1, LetIn
  <2>7. (Let_in(s, a, b) + 1) * rate.interval = Spent(s, a, b, rate) + rate.interval
    <3> DEFINE n == Let_in(s, a, b)
               I == rate.interval
    <3>1. n \in Int /\ I \in Int
      BY <2>4, <2>6
    <3> HIDE DEF n, I
    <3>2. (n + 1) * I = n * I + I
      BY <3>1
    <3>3. QED
      BY <3>2 DEF Spent, n, I
  <2>8. (Let_in(s, a, b) + 1) * rate.interval > Worth(s, a, b, rate)
    BY <2>3, <2>7 DEF Earned, Worth
  <2>9. QED
    BY <2>3, <2>8 DEF s, rate
<1>2. CInv /\ LInv => NeverOvercharged
  BY <1>1 DEF NeverOvercharged
<1>3. QED
  BY <1>2, Inductive, Accounts, PTL

LEMMA BucketsIn ==
  ASSUME NEW l, NEW h, NEW rate, Ledger(l, h, rate), NEW b \in ToSet(l), Rate(rate)
  PROVE  b.tokens \in 0 .. Full(rate)
<1>1. b \in Buckets
  BY DEF Ledger, Roster, ToSet
<1>2. b.key \in Callers /\ b.tokens \in Int
  BY <1>1 DEF Buckets
<1>3. h[b.key] \in Seq(Entries) /\ Account(b, h[b.key], rate)
  BY <1>2 DEF Ledger
<1>4. 0 <= b.tokens /\ b.tokens <= Full(rate)
  BY <1>1, <1>3, FullEnough
<1>5. Full(rate) \in Nat
  BY Amounts
<1>6. QED
  BY <1>2, <1>4, <1>5

\* Among it, that the limiters stay within their size and their buckets within
\* what is full, that a sender has one cached opinion, and that only a handler
\* that is done has answered (allowAt, Check, ServeHTTP).
THEOREM TypeCorrect == Spec => []TypeOK
<1>1. ASSUME CInv, LInv PROVE TypeOK
  <2>1. clock \in Nat /\ \A k \in Keys : idem[k] \in {Free, Claimed, 200, 422}
    BY <1>1 DEF CInv, Loaded, Remembered
  <2>2. ASSUME NEW i \in Ids
        PROVE  /\ req[i].stage \in Stages /\ req[i].claim \in BOOLEAN
               /\ req[i].token \in issued \cup {NoToken}
               /\ ToSet(req[i].todo) \subseteq Configured(ep)
    BY <1>1 DEF CInv, Handled, Handlers, Stands, Waits
  <2>3. ASSUME NEW i \in Ids PROVE req[i].answer \in Statuses /\ (req[i].answer # 0 => In(i, "done"))
    BY <1>1 DEF LInv, Known, Spoken, In
  <2>4. /\ Ledger(limiter, met["rate"], ep.rate) /\ Ledger(authFailLimiter, met["auth"], AuthRate)
        /\ There(ep.rate) \/ limiter = <<>>
    BY <1>1 DEF LInv
  <2>5. \A l \in {limiter, authFailLimiter} : Len(l) <= MaxKeys
    BY <2>4 DEF Ledger, Roster
  <2>6. ASSUME NEW b \in ToSet(limiter) PROVE b.tokens \in 0 .. Full(ep.rate)
    <3>1. There(ep.rate)
      BY <2>4, ShortSets
    <3>2. Rate(ep.rate)
      BY <1>1, <3>1, RateIs
    <3>3. QED
      BY <2>4, <3>2, BucketsIn
  <2>7. ASSUME NEW b \in ToSet(authFailLimiter) PROVE b.tokens \in 0 .. Full(AuthRate)
    <3>1. Rate(AuthRate)
      BY DEF Rate, AuthRate
    <3>2. QED
      BY <2>4, <3>1, BucketsIn
  <2>8. \A c, d \in cache : c.who = d.who => c = d
    BY <1>1 DEF LInv, Single
  <2>9. QED
    BY <2>1, <2>2, <2>3, <2>5, <2>6, <2>7, <2>8 DEF TypeOK, Statuses
<1>2. QED
  BY <1>1, Inductive, Accounts, PTL
=============================================================================
