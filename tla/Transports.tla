----------------------------- MODULE Transports -----------------------------
(***************************************************************************)
(* One message through one transport: the checks of the configuration and  *)
(* of the ingress that are meant to make a send possible, the conversation *)
(* with an SMTP relay or the request to a provider's API, the class of its *)
(* outcome, and SendWithRetry around it.  The relay, the provider and the  *)
(* network answer as they like.  What it amounts to for the queue is       *)
(* module SendContract.                                                    *)
(***************************************************************************)
EXTENDS Integers, FiniteSets, SequencesExt

CONSTANTS
  Listeners,     \* listener blocks of a configuration, valid or not
  Mails,         \* messages clients send
  Canon,         \* the canonical form of each spelling of a header name
  Allowlist,     \* PassthroughHeaderAllowlist
  Deadline,      \* of the request the message came with
  HttpTimeout, SmtpTimeout, TransientDelay, RateLimitedDelay

ASSUME TransportAssumption ==
  /\ Deadline \in Nat /\ HttpTimeout \in Nat /\ SmtpTimeout \in Nat
  /\ TransientDelay \in Nat /\ RateLimitedDelay \in Nat
ASSUME MailAssumption == \A m \in Mails : m.to \in Seq(ToSet(m.to))

VARIABLES
  listener, mail, caller, relay,   \* chosen at the start
  stage,       \* where it is
  headers,     \* Message.Headers
  wire,        \* the connection to the relay
  envelope,    \* recipients the relay has accepted on it
  clock, limit, wake,              \* since the first try; the try's deadline; end of the backoff
  tries, result,                   \* of Send
  \* history: what the provider took; whether a redirect was followed; what
  \* crossed an unencrypted connection; checkHeaders refused the message
  got, copies, diverted, crossed, vetoed

setup   == <<listener, mail, caller, relay>>
timing  == <<clock, limit, wake>>
history == <<got, copies, diverted, crossed, vetoed>>
vars    == <<setup, stage, headers, wire, envelope, timing, tries, result, history>>

-----------------------------------------------------------------------------
(* Settings of a transport: what each key of the block holds, "ok" for a   *)
(* usable value and "absent" for none.                                     *)

Given(s, keys) == \A k \in keys : s[k] = "ok"

smtpTLSModeFromSettings(s) ==
  CASE s.tls # "absent" /\ s.requireTLS # "absent" -> "error"
    [] s.tls # "absent" -> IF s.tls \in {"starttls", "implicit", "none"} THEN s.tls ELSE "error"
    [] s.requireTLS = "true"   -> "starttls"
    [] s.requireTLS = "false"  -> "none"
    [] s.requireTLS = "absent" -> "starttls"
    [] OTHER -> "error"

validateSMTPOutSettings(s) ==
  /\ Given(s, {"host", "username", "password"})
  /\ s.port = "ok"
  /\ s.hello \in {"absent", "ok"}
  /\ smtpTLSModeFromSettings(s) # "error"

\* Build asks for less: any positive port, and any greeting will do.
buildSMTPOutFromSettings(s) ==
  /\ smtpTLSModeFromSettings(s) # "error"
  /\ Given(s, {"host", "username", "password"}) /\ s.port \in {"ok", "large"}

validatePostmarkSettings(s)  == Given(s, {"apiKey"})
buildPostmarkFromSettings(s) == Given(s, {"apiKey"})
validateResendSettings(s)    == Given(s, {"apiKey"})
buildResendFromSettings(s)   == Given(s, {"apiKey"})
validateMailgunSettings(s)   == Given(s, {"apiKey", "domain"})
buildMailgunFromSettings(s)  == Given(s, {"apiKey", "domain"})
validateSESSettings(s)       == Given(s, {"accessKey", "secretKey", "region"})
buildSESFromSettings(s)      == Given(s, {"accessKey", "secretKey", "region"})
validateWebhookSettings(s)   == Given(s, {"url", "secret"}) /\ s.headers \in {"absent", "ok"}
buildWebhookFromSettings(s)  == validateWebhookSettings(s)

\* The registry: what each transport registered under its name.
Validate(type, s) ==
  CASE type = "smtp" -> validateSMTPOutSettings(s) [] type = "postmark" -> validatePostmarkSettings(s)
    [] type = "resend" -> validateResendSettings(s) [] type = "mailgun" -> validateMailgunSettings(s)
    [] type = "ses" -> validateSESSettings(s) [] type = "webhook" -> validateWebhookSettings(s)
    [] OTHER -> FALSE

Build(type, s) ==
  CASE type = "smtp" -> buildSMTPOutFromSettings(s) [] type = "postmark" -> buildPostmarkFromSettings(s)
    [] type = "resend" -> buildResendFromSettings(s) [] type = "mailgun" -> buildMailgunFromSettings(s)
    [] type = "ses" -> buildSESFromSettings(s) [] type = "webhook" -> buildWebhookFromSettings(s)

CarriesHeaders == {"smtp", "postmark", "resend", "mailgun", "ses"}

-----------------------------------------------------------------------------
(* Passthrough headers: the names a listener may list, the header lines it *)
(* takes from a message, and the check every mail transport repeats.       *)

NoRepeats(seq) == \A i, j \in DOMAIN seq : seq[i] = seq[j] => i = j

PassthroughHeader(spelling) == Canon[spelling] \in Allowlist
Canonical(names)            == [i \in DOMAIN names |-> Canon[names[i]]]

\* Mutant: the spellings are compared, not the names.
PassthroughNames_AsSpelt(names) ==
  (\A i \in DOMAIN names : PassthroughHeader(names[i])) /\ NoRepeats(names)

PassthroughNames(names) ==
  (\A i \in DOMAIN names : PassthroughHeader(names[i])) /\ NoRepeats(Canonical(names))

\* A line of printable ASCII, neither empty nor too long.
CheckHeaderValue(value) == value = "clean"

ValidateHeaders(hs) ==
  /\ \A i \in DOMAIN hs : hs[i].name \in Allowlist /\ CheckHeaderValue(hs[i].value)
  /\ NoRepeats([i \in DOMAIN hs |-> hs[i].name])

\* The lines of the message with that name, and the value of the first.
Lines(name)   == {n \in DOMAIN mail.lines : Canon[mail.lines[n].name] = name}
Value(name)   == mail.lines[Min(Lines(name))].value
Carried(name) == Lines(name) # {} /\ Value(name) # "empty"

\* In the configuration's order; a name that is not carried leaves a gap.
passthroughHeaders(names) ==
  [i \in {i \in DOMAIN names : Carried(Canon[names[i]])} |->
     [name |-> Canon[names[i]], value |-> Value(Canon[names[i]])]]

ListenerValid(l) ==
  /\ Validate(l.type, l.settings)
  /\ PassthroughNames(l.names)
  /\ l.names # <<>> => l.type \in CarriesHeaders

-----------------------------------------------------------------------------
(* Before the first try. *)

Is(from, to) == stage = from /\ stage' = to

Load ==
  /\ Is("config", IF ListenerValid(listener) THEN "valid" ELSE "rejected")
  /\ UNCHANGED <<setup, headers, wire, envelope, timing, tries, result, history>>

Construct ==
  /\ Is("valid", IF Build(listener.type, listener.settings) THEN "waiting" ELSE "broken")
  /\ UNCHANGED <<setup, headers, wire, envelope, timing, tries, result, history>>

\* The listener reads the message; a header it cannot carry refuses it.
Receive ==
  /\ LET hs == passthroughHeaders(listener.names)
     IN  IF \A i \in DOMAIN hs : CheckHeaderValue(hs[i].value)
         THEN Is("waiting", "send") /\ headers' = hs
         ELSE Is("waiting", "bounced") /\ UNCHANGED headers
  /\ UNCHANGED <<setup, wire, envelope, timing, tries, result, history>>

-----------------------------------------------------------------------------
(* A try.  A failure ends it; SendWithRetry, which the worker does not use,*)
(* then waits and tries once more, unless the request's deadline passes.   *)

Retryable(class) == class \in {"transient", "rate_limited"}
Delay(class) == IF class = "transient" THEN TransientDelay ELSE RateLimitedDelay
Earlier(a, b) == IF a < b THEN a ELSE b

Fails(class) ==
  /\ result' = class
  /\ IF caller = "handler" /\ tries' = 1 /\ Retryable(class)
     THEN stage' = "backoff" /\ wake' = clock + Delay(class)
     ELSE stage' = "done" /\ UNCHANGED wake

Timeout == IF listener.type = "smtp" THEN SmtpTimeout ELSE HttpTimeout

\* Mutant: the limit does not inherit the request's deadline.
TryLimit_Fresh == clock + Timeout

TryLimit ==
  IF caller = "handler" THEN Earlier(Deadline, clock + Timeout) ELSE clock + Timeout

\* checkHeaders and, for a relay, validateNoHeaderCRLF come before anything
\* else; the webhook transport checks nothing, it carries no headers.
StartSend ==
  /\ stage = "send" /\ tries' = tries + 1
  /\ limit' = TryLimit /\ wire' = "none" /\ envelope' = <<>>
  /\ IF listener.type # "webhook" /\ ~ValidateHeaders(headers)
     THEN Fails("terminal") /\ vetoed' = TRUE
     ELSE IF listener.type = "smtp" /\ mail.crlf
     THEN Fails("terminal") /\ UNCHANGED vetoed
     ELSE /\ stage' = IF listener.type = "smtp" THEN "dial" ELSE "post"
          /\ UNCHANGED <<result, wake, vetoed>>
  /\ UNCHANGED <<setup, headers, clock, got, copies, diverted, crossed>>

Retry ==
  /\ clock >= wake /\ Is("backoff", "send")
  /\ UNCHANGED <<setup, headers, wire, envelope, timing, tries, result, history>>

GivesUp ==
  /\ clock >= Deadline /\ Is("backoff", "done")
  /\ UNCHANGED <<setup, headers, wire, envelope, timing, tries, result, history>>

Talking == {"dial", "handshake", "greet", "hello", "starttls", "upgrade",
            "auth", "from", "rcpt", "data", "body", "dot", "post"}

\* Nothing waits past the try's limit: it is the deadline of the socket, and
\* the timeout and the context of an HTTP client.
Tick ==
  /\ \/ stage \in Talking /\ clock < limit
     \/ stage = "backoff" /\ clock < wake /\ clock < Deadline
  /\ clock' = clock + 1
  /\ UNCHANGED <<setup, stage, headers, wire, envelope, limit, wake, tries, result, history>>

-----------------------------------------------------------------------------
(* SMTP.  The stages are what the client is waiting for. *)

TLS == smtpTLSModeFromSettings(listener.settings)

\* Reply codes as classes of their own; 0 is no reply.
Codes == {0, 421, 550}
\* Mutant: a lost connection is taken for a refusal.
classifySMTPError_LossIsFinal(code) ==
  IF code = 0 \/ code >= 500 THEN "terminal" ELSE "transient"

classifySMTPError(code)     == IF code >= 500 THEN "terminal" ELSE "transient"
classifyStartTLSError(code) == IF code = 0 THEN "terminal" ELSE classifySMTPError(code)
classifyDialError(code)     == IF stage = "handshake" THEN "terminal" ELSE classifySMTPError(code)

ErrorClass(code) ==
  CASE stage \in {"dial", "handshake", "greet"} -> classifyDialError(code)
    [] stage \in {"starttls", "upgrade"}        -> classifyStartTLSError(code)
    [] OTHER                                    -> classifySMTPError(code)

smtp == listener.type = "smtp" /\ stage \in Talking
NoReply == {"dial", "handshake", "body"}

\* What the provider or relay has taken on.
Takes(to, hs) ==
  /\ got' = got \cup {[to |-> to, headers |-> hs]}
  /\ copies' = copies + 1

\* The connection ends or the limit is reached (0), or the relay says no.
\* It may have taken the message before its answer was lost.
SmtpFails ==
  /\ smtp /\ UNCHANGED tries
  /\ \E code \in Codes :
       /\ stage \in NoReply => code = 0
       /\ Fails(ErrorClass(code))
       /\ \/ UNCHANGED <<got, copies>>
          \/ stage = "dot" /\ code = 0 /\ Takes(envelope, headers)
  /\ UNCHANGED <<setup, headers, wire, envelope, clock, limit, diverted, crossed, vetoed>>

\* What Send does before it waits again: a check may end the try instead.
Go(to, possible, class) ==
  IF possible THEN stage' = to /\ UNCHANGED <<result, wake>> ELSE Fails(class)

Sends(what) ==
  crossed' = crossed \cup IF wire' = "tls" THEN {} ELSE {what}

\* net/smtp gives no password to an unencrypted relay that is not localhost.
ToAuth == /\ Go("auth", wire' = "tls" \/ relay.local, "transient")
          /\ IF stage' = "auth" THEN Sends("password") ELSE UNCHANGED crossed

ToRcpt(i) ==
  IF i > Len(mail.to) THEN Go("data", TRUE, "terminal")
  ELSE Go("rcpt", mail.to[i] # "unreadable", "terminal")

Dialled ==
  /\ smtp /\ stage = "dial" /\ wire' = "plain"
  /\ Go(IF TLS = "implicit" THEN "handshake" ELSE "greet", TRUE, "terminal")
  /\ UNCHANGED <<setup, headers, envelope, clock, limit, tries, history>>

Shaken ==
  /\ smtp /\ stage = "handshake" /\ wire' = "tls" /\ Go("greet", TRUE, "terminal")
  /\ UNCHANGED <<setup, headers, envelope, clock, limit, tries, history>>

Greeted ==
  /\ smtp /\ stage = "greet" /\ Go("hello", TRUE, "terminal")
  /\ UNCHANGED <<setup, headers, wire, envelope, clock, limit, tries, history>>

\* Mutant: a relay that does not offer STARTTLS is used all the same.
Helloed_Downgrades ==
  /\ smtp /\ stage = "hello" /\ UNCHANGED <<tries, wire>>
  /\ IF TLS = "starttls" /\ relay.starttls
     THEN Go("starttls", TRUE, "terminal") /\ UNCHANGED crossed
     ELSE ToAuth
  /\ UNCHANGED <<setup, headers, envelope, clock, limit, got, copies, diverted, vetoed>>

Helloed ==
  /\ smtp /\ stage = "hello" /\ UNCHANGED <<tries, wire>>
  /\ IF TLS = "starttls"
     THEN Go("starttls", relay.starttls, "terminal") /\ UNCHANGED crossed
     ELSE ToAuth
  /\ UNCHANGED <<setup, headers, envelope, clock, limit, got, copies, diverted, vetoed>>

StartTLSAgreed ==
  /\ smtp /\ stage = "starttls" /\ Go("upgrade", TRUE, "terminal")
  /\ UNCHANGED <<setup, headers, wire, envelope, clock, limit, tries, history>>

\* The handshake, and the second EHLO.
Upgraded ==
  /\ smtp /\ stage = "upgrade" /\ UNCHANGED tries
  /\ wire' = "tls" /\ ToAuth
  /\ UNCHANGED <<setup, headers, envelope, clock, limit, got, copies, diverted, vetoed>>

Authenticated ==
  /\ smtp /\ stage = "auth" /\ UNCHANGED tries
  /\ Go("from", mail.from # "unreadable", "terminal")
  /\ UNCHANGED <<setup, headers, wire, envelope, clock, limit, history>>

SenderAccepted ==
  /\ smtp /\ stage = "from" /\ UNCHANGED tries /\ ToRcpt(1)
  /\ UNCHANGED <<setup, headers, wire, envelope, clock, limit, history>>

\* Mutant: a refused recipient is left out.
RecipientAccepted_OrSkipped ==
  /\ smtp /\ stage = "rcpt" /\ UNCHANGED tries
  /\ \/ envelope' = Append(envelope, mail.to[Len(envelope) + 1]) /\ ToRcpt(Len(envelope) + 2)
     \/ UNCHANGED envelope /\ Go("data", TRUE, "terminal")
  /\ UNCHANGED <<setup, headers, wire, clock, limit, history>>

RecipientAccepted ==
  /\ smtp /\ stage = "rcpt" /\ UNCHANGED tries
  /\ envelope' = Append(envelope, mail.to[Len(envelope) + 1])
  /\ ToRcpt(Len(envelope) + 2)
  /\ UNCHANGED <<setup, headers, wire, clock, limit, history>>

DataAccepted ==
  /\ smtp /\ stage = "data" /\ Go("body", TRUE, "terminal")
  /\ UNCHANGED wire /\ Sends("message")
  /\ UNCHANGED <<setup, headers, envelope, clock, limit, tries, got, copies, diverted, vetoed>>

BodySent ==
  /\ smtp /\ stage = "body" /\ Go("dot", TRUE, "terminal")
  /\ UNCHANGED <<setup, headers, wire, envelope, clock, limit, tries, history>>

Succeeds == stage' = "done" /\ result' = "ok" /\ UNCHANGED wake

\* QUIT is not waited for with any effect.
MessageAccepted ==
  /\ smtp /\ stage = "dot" /\ Succeeds /\ Takes(envelope, headers)
  /\ UNCHANGED <<setup, headers, wire, envelope, clock, limit, tries, diverted, crossed, vetoed>>

SMTPOutSend ==
  \/ SmtpFails \/ Dialled \/ Shaken \/ Greeted \/ Helloed \/ StartTLSAgreed \/ Upgraded
  \/ Authenticated \/ SenderAccepted \/ RecipientAccepted \/ DataAccepted \/ BodySent
  \/ MessageAccepted

-----------------------------------------------------------------------------
(* The providers' APIs: one POST, classified by its status.  A provider    *)
(* that answers with a status its transport knows as a success has taken   *)
(* the message, one that fails in some other way than a refusal may have.  *)

Statuses == {200, 202, 204, 302, 422, 429, 500}

StatusClass(status) ==
  CASE status = 429  -> "rate_limited"
    [] status >= 500 -> "transient"
    [] OTHER         -> "terminal"

\* net/http follows a redirect with a GET: the status is then that of a page
\* that never saw the message.
Posts(okCodes) ==
  /\ stage = "post" /\ UNCHANGED tries
  /\ \E status \in Statuses, redirected \in BOOLEAN :
       /\ IF status \in okCodes THEN Succeeds ELSE Fails(StatusClass(status))
       /\ diverted' = (diverted \/ (redirected /\ status \in okCodes))
       /\ \/ ~redirected /\ (status \in okCodes \/ status >= 500) /\ Takes(mail.to, headers)
          \/ (status \in okCodes => redirected) /\ UNCHANGED <<got, copies>>
  /\ UNCHANGED <<setup, headers, wire, envelope, clock, limit, crossed, vetoed>>

\* No answer: refused, cut off, or out of time.
PostFails ==
  /\ stage = "post" /\ UNCHANGED tries /\ Fails("transient")
  /\ UNCHANGED <<got, copies>> \/ Takes(mail.to, headers)
  /\ UNCHANGED <<setup, headers, wire, envelope, clock, limit, diverted, crossed, vetoed>>

PostmarkSend == listener.type = "postmark" /\ (Posts({200, 202}) \/ PostFails)
ResendSend   == listener.type = "resend"   /\ (Posts({200}) \/ PostFails)
MailgunSend  == listener.type = "mailgun"  /\ (Posts({200}) \/ PostFails)
SESSend      == listener.type = "ses"      /\ (Posts({200}) \/ PostFails)
WebhookSend  == listener.type = "webhook"  /\ (Posts(200..299) \/ PostFails)

-----------------------------------------------------------------------------
Init ==
  /\ listener \in Listeners /\ mail \in Mails
  /\ caller \in {"handler", "worker"}
  /\ relay \in [starttls : BOOLEAN, local : BOOLEAN]
  /\ listener.type # "smtp" => relay = [starttls |-> FALSE, local |-> FALSE]
  /\ stage = "config" /\ headers = <<>> /\ wire = "none" /\ envelope = <<>>
  /\ clock = 0 /\ limit = 0 /\ wake = 0 /\ tries = 0 /\ result = "none"
  /\ got = {} /\ copies = 0 /\ diverted = FALSE /\ crossed = {} /\ vetoed = FALSE

Ends == {"rejected", "broken", "bounced", "done"}
Over == stage \in Ends /\ UNCHANGED vars

Next ==
  \/ Load \/ Construct \/ Receive \/ StartSend \/ Retry \/ GivesUp \/ Tick
  \/ SMTPOutSend
  \/ PostmarkSend \/ ResendSend \/ MailgunSend \/ SESSend \/ WebhookSend
  \/ Over

Spec == Init /\ [][Next]_vars

-----------------------------------------------------------------------------
(* Properties. *)

\* Every variable keeps its type.
TypeOK ==
  /\ listener \in Listeners /\ mail \in Mails /\ caller \in {"handler", "worker"}
  /\ relay \in [starttls : BOOLEAN, local : BOOLEAN]
  /\ stage \in Talking \cup Ends \cup {"config", "valid", "waiting", "send", "backoff"}
  /\ wire \in {"none", "plain", "tls"}
  /\ clock \in Nat /\ limit \in Nat /\ wake \in Nat
  /\ tries \in 0..2 /\ copies \in 0..2
  /\ result \in {"none", "ok", "transient", "rate_limited", "terminal"}
  /\ crossed \subseteq {"password", "message"}
  /\ diverted \in BOOLEAN /\ vetoed \in BOOLEAN

\* The try in the making does not count yet.
Contract == INSTANCE SendContract
              WITH MaxTries <- 2,
                   tries    <- IF stage \in Talking THEN tries - 1 ELSE tries,
                   verdict  <- IF Retryable(result) THEN "retryable" ELSE result,
                   over     <- stage = "done"

\* Whatever the relay, the provider and the network do, and at whichever point
\* of the conversation, a send is what the queue takes it for: no try after a
\* verdict, no third try, and never a final refusal of mail that was taken
\* (SendWithRetry, IsRetryable and the classification in every Send).
ContractSpec == Contract!Spec

\* What a provider or relay takes is the whole message: every recipient
\* (FR68: one refused RCPT fails the send), and each header the listener was
\* told to pass through and the app sent (FR97-FR99), as it sent it, and no other.
DeliveredWhole ==
  \A g \in got :
    /\ g.to = mail.to
    /\ {g.headers[i].name : i \in DOMAIN g.headers}
         = {name \in {Canon[n] : n \in ToSet(listener.names)} : Carried(name)}
    /\ \A i \in DOMAIN g.headers : g.headers[i].value = Value(g.headers[i].name)

\* No password and no message crosses an unencrypted connection unless the
\* operator asked for plaintext, and then a password goes to localhost only:
\* a relay cannot talk the client out of STARTTLS ("never a silent downgrade").
NothingInTheClear ==
  crossed # {} => TLS = "none" /\ ("password" \in crossed => relay.local)

\* A relay that stops answering holds neither a request past its deadline
\* (FR22) nor the worker past the transport's own limit, retry included.
ReturnsInTime == clock <= IF caller = "handler" THEN Deadline ELSE Timeout

\* What the configuration accepted can be built, and what the ingress accepted
\* passes the check every transport makes again before a send (NFR32).
NoLateSurprise == stage # "broken" /\ ~vetoed
=============================================================================
