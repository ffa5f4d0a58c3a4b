--------------------------- MODULE TransportProofs ---------------------------
(***************************************************************************)
(* Proofs about Transports, for every set of listeners and messages, every *)
(* allowlist, deadline, timeout and delay.                                 *)
(***************************************************************************)
EXTENDS Transports, TLAPS

USE TransportAssumption

Classes == {"transient", "rate_limited", "terminal"}
Early   == {"config", "valid", "waiting", "rejected", "broken", "bounced"}
Bound   == IF caller = "handler" THEN Deadline ELSE Timeout

\* Where a send is tells how many tries it has had, how many copies may have
\* been taken, and how much time has gone by.
Counted ==
  /\ stage \in Early => tries = 0 /\ result = "none"
  /\ stage = "send" => tries \in {0, 1}
  /\ stage \in Talking => tries \in {1, 2} /\ copies <= tries - 1
  /\ stage = "backoff" => tries = 1 /\ caller = "handler" /\ Retryable(result)
  /\ caller = "worker" => tries <= 1 /\ (tries = 1 => stage \in Talking \cup {"done"})
  /\ copies <= tries

InTime ==
  /\ clock <= Bound
  /\ stage \in Talking => clock <= limit /\ limit <= Bound
  /\ tries = 0 => clock = 0

Inside == {"auth", "from", "rcpt", "data", "body", "dot"}

\* The connection is encrypted wherever the operator's setting wants it.
Private ==
  /\ stage \in (Early \ {"config", "rejected"}) \cup Talking \cup {"send", "backoff"} => ListenerValid(listener)
  /\ stage \in Talking => (stage = "post" <=> listener.type # "smtp")
  /\ stage \in Talking \ {"post"} /\ TLS = "implicit" => stage \in {"dial", "handshake"} \/ wire = "tls"
  /\ stage \in Inside /\ TLS # "none" => wire = "tls"
  /\ stage \in {"starttls", "upgrade"} => TLS = "starttls"

IInv == TypeOK /\ Counted /\ InTime /\ Private /\ NothingInTheClear

LEMMA TimeoutNat == Timeout \in Nat /\ Bound \in Nat
  BY DEF Timeout, Bound

LEMMA InitIInv == Init => IInv
<1> SUFFICES ASSUME Init PROVE IInv
  OBVIOUS
<1>1. TypeOK
  <2>1. relay \in [starttls : BOOLEAN, local : BOOLEAN]
    BY DEF Init
  <2>2. listener \in Listeners /\ mail \in Mails /\ caller \in {"handler", "worker"}
    BY DEF Init
  <2>3. stage = "config" /\ wire = "none" /\ clock = 0 /\ limit = 0 /\ wake = 0 /\ tries = 0 /\ copies = 0
        /\ result = "none" /\ crossed = {}
    BY DEF Init
  <2>4. diverted \in BOOLEAN /\ vetoed \in BOOLEAN
    BY Zenon DEF Init
  <2>5. QED
    BY <2>1, <2>2, <2>3, <2>4 DEF TypeOK
<1>2. Counted
  BY DEF Init, Counted, Early, Talking
<1>3. InTime
  BY TimeoutNat DEF Init, InTime, Talking
<1>4. Private /\ NothingInTheClear
  BY DEF Init, Private, NothingInTheClear, Talking, Early, Inside
<1>5. QED
  BY <1>1, <1>2, <1>3, <1>4 DEF IInv

-----------------------------------------------------------------------------
(* Every step of a try moves the conversation on, fails with a class, or   *)
(* succeeds; whichever it is, the rest of the send looks the same.         *)

MovesOn == stage' \in Talking /\ UNCHANGED <<result, wake, copies, diverted>>

FailsWith(class) ==
  /\ Fails(class) /\ UNCHANGED diverted
  /\ copies' = copies \/ (Retryable(class) /\ copies' = copies + 1)

Took ==
  /\ Succeeds
  /\ \/ copies' = copies + 1 /\ UNCHANGED diverted
     \/ diverted' = TRUE /\ UNCHANGED copies

Trying ==
  /\ stage \in Talking /\ UNCHANGED <<setup, clock, limit, tries, vetoed>>
  /\ MovesOn \/ (\E class \in Classes : FailsWith(class)) \/ Took

LEMMA GoMoves ==
  ASSUME NEW to \in Talking, NEW possible, NEW class \in Classes, Go(to, possible, class),
         UNCHANGED <<copies, diverted>>
  PROVE  MovesOn \/ \E c \in Classes : FailsWith(c)
<1>1. CASE possible
  BY <1>1 DEF Go, MovesOn
<1>2. CASE ~possible
  BY <1>2 DEF Go, FailsWith
<1>3. QED
  BY <1>1, <1>2

LEMMA ErrorClasses ==
  ASSUME NEW code \in Codes
  PROVE  /\ ErrorClass(code) \in Classes
         /\ stage = "dot" => ErrorClass(0) = "transient"
  BY DEF Codes, Classes, ErrorClass, classifySMTPError, classifyStartTLSError, classifyDialError

LEMMA SmtpTries == ASSUME IInv, SMTPOutSend PROVE Trying
<1> USE DEF Trying
<1>1. CASE SmtpFails
  <2>1. stage \in Talking /\ UNCHANGED <<setup, clock, limit, tries, diverted, vetoed>>
    BY <1>1 DEF SmtpFails, smtp
  <2>2. PICK code \in Codes :
          /\ Fails(ErrorClass(code))
          /\ copies' = copies \/ (stage = "dot" /\ code = 0 /\ copies' = copies + 1)
    BY <1>1 DEF SmtpFails, Takes
  <2>3. FailsWith(ErrorClass(code))
    BY <2>1, <2>2, ErrorClasses DEF FailsWith, Retryable
  <2>4. QED
    BY <2>1, <2>3, ErrorClasses
<1>2. CASE Dialled
  BY <1>2, GoMoves DEF Dialled, smtp, history, Talking, Classes
<1>3. CASE Shaken \/ Greeted \/ StartTLSAgreed \/ BodySent
  BY <1>3, GoMoves DEF Shaken, Greeted, StartTLSAgreed, BodySent, smtp, history, Talking, Classes
<1>4. CASE Helloed
  BY <1>4, GoMoves DEF Helloed, ToAuth, smtp, Talking, Classes
<1>5. CASE Upgraded
  BY <1>5, GoMoves DEF Upgraded, ToAuth, smtp, Talking, Classes
<1>6. CASE Authenticated
  BY <1>6, GoMoves DEF Authenticated, smtp, history, Talking, Classes
<1>7. CASE SenderAccepted \/ RecipientAccepted
  BY <1>7, GoMoves DEF SenderAccepted, RecipientAccepted, ToRcpt, smtp, history, Talking, Classes
<1>8. CASE DataAccepted
  BY <1>8, GoMoves DEF DataAccepted, smtp, Talking, Classes
<1>9. CASE MessageAccepted
  BY <1>9 DEF MessageAccepted, smtp, Takes, Took
<1>10. QED
  BY <1>1, <1>2, <1>3, <1>4, <1>5, <1>6, <1>7, <1>8, <1>9 DEF SMTPOutSend

LEMMA StatusClasses ==
  ASSUME NEW status \in Nat
  PROVE  StatusClass(status) \in Classes /\ (status >= 500 => StatusClass(status) = "transient")
  BY DEF StatusClass, Classes

ApiSend == PostmarkSend \/ ResendSend \/ MailgunSend \/ SESSend \/ WebhookSend

LEMMA ApiIs ==
  ASSUME ApiSend PROVE PostFails \/ \E okCodes : okCodes \cap 300..600 = {} /\ Posts(okCodes)
<1>1. {200, 202} \cap 300..600 = {} /\ {200} \cap 300..600 = {} /\ (200..299) \cap 300..600 = {}
  OBVIOUS
<1>2. CASE PostmarkSend
  BY <1>1, <1>2 DEF PostmarkSend
<1>3. CASE ResendSend \/ MailgunSend \/ SESSend
  BY <1>1, <1>3 DEF ResendSend, MailgunSend, SESSend
<1>4. CASE WebhookSend
  <2>1. PostFails \/ Posts(200..299)
    BY <1>4, Zenon DEF WebhookSend
  <2>2. QED
    BY <1>1, <2>1, SMTT(30)
<1>5. QED
  BY <1>2, <1>3, <1>4 DEF ApiSend

LEMMA ApiTries == ASSUME IInv, ApiSend PROVE Trying
<1>1. CASE PostFails
  <2>1. FailsWith("transient")
    BY <1>1 DEF PostFails, Takes, FailsWith, Retryable
  <2>2. QED
    BY <1>1, <2>1 DEF PostFails, Trying, Talking, Classes
<1>2. ASSUME NEW okCodes, okCodes \cap 300..600 = {}, Posts(okCodes) PROVE Trying
  <2>1. stage \in Talking /\ UNCHANGED <<setup, clock, limit, tries, vetoed>>
    BY <1>2 DEF Posts, Talking
  <2>2. PICK status \in Statuses, redirected \in BOOLEAN :
          /\ IF status \in okCodes THEN Succeeds ELSE Fails(StatusClass(status))
          /\ diverted' = (diverted \/ (redirected /\ status \in okCodes))
          /\ \/ ~redirected /\ (status \in okCodes \/ status >= 500) /\ copies' = copies + 1
             \/ (status \in okCodes => redirected) /\ UNCHANGED copies
    BY <1>2 DEF Posts, Takes
  <2>3. status \in Nat /\ diverted \in BOOLEAN
    BY DEF Statuses, IInv, TypeOK
  <2>4. CASE status \in okCodes
    <3>1. Succeeds
      BY <2>2, <2>4
    <3>2. \/ ~redirected /\ copies' = copies + 1
          \/ redirected /\ UNCHANGED copies
      BY <2>2, <2>4
    <3>3. redirected => diverted' = TRUE
      BY <2>2, <2>4, Zenon
    <3>4. ~redirected => diverted' = diverted
      BY <2>2, <2>3, <2>4, Zenon
    <3>5. QED
      BY <2>1, <3>1, <3>2, <3>3, <3>4 DEF Trying, Took
  <2>5. CASE status \notin okCodes
    <3>1. diverted' = diverted
      BY <2>2, <2>3, <2>5, Zenon
    <3>2. FailsWith(StatusClass(status))
      BY <2>2, <2>3, <2>5, <3>1, StatusClasses DEF FailsWith, Retryable
    <3>3. QED
      BY <2>1, <2>3, <3>2, StatusClasses DEF Trying
  <2>6. QED
    BY <2>4, <2>5
<1>3. QED
  BY <1>1, <1>2, ApiIs

-----------------------------------------------------------------------------
(* Types, tries and time, for each kind of step. *)

Plain == TypeOK /\ Counted /\ InTime

LEMMA TryingKeeps ==
  ASSUME IInv, Trying, wire' \in {"none", "plain", "tls"}, crossed' \subseteq {"password", "message"}
  PROVE  Plain'
<1>1. /\ UNCHANGED <<listener, mail, caller, relay, clock, limit, tries, vetoed>>
      /\ stage \in Talking /\ (Timeout' = Timeout) /\ (Bound' = Bound)
  BY DEF Trying, setup, Timeout, Bound
<1>2. /\ tries \in {1, 2} /\ copies \in 0..2 /\ copies <= tries - 1 /\ clock \in Nat /\ clock <= Bound
      /\ caller = "worker" => tries = 1
      /\ wake \in Nat
  BY <1>1 DEF IInv, TypeOK, Counted, InTime
<1>3. /\ diverted' \in BOOLEAN /\ vetoed' \in BOOLEAN
      /\ copies' \in {copies, copies + 1} /\ wake' \in Nat
      /\ result' \in {"none", "ok"} \cup Classes
  <2>1. diverted \in BOOLEAN /\ vetoed \in BOOLEAN /\ result \in {"none", "ok"} \cup Classes
    BY DEF IInv, TypeOK, Classes
  <2>2. CASE MovesOn
    BY <1>1, <1>2, <2>1, <2>2 DEF MovesOn
  <2>3. ASSUME NEW class \in Classes, FailsWith(class)
        PROVE  diverted' = diverted /\ copies' \in {copies, copies + 1} /\ wake' \in Nat /\ result' = class
    BY <1>1, <1>2, <2>3 DEF FailsWith, Fails, Delay
  <2>4. CASE Took
    BY <1>1, <1>2, <2>1, <2>4 DEF Took, Succeeds
  <2>5. QED
    BY <1>1, <2>1, <2>2, <2>3, <2>4 DEF Trying
<1>4. \/ stage' \in Talking /\ copies' = copies
      \/ stage' = "backoff" /\ caller = "handler" /\ tries = 1 /\ Retryable(result')
      \/ stage' = "done"
  BY <1>1 DEF Trying, MovesOn, FailsWith, Took, Fails, Succeeds
<1>5. TypeOK'
  <2>1. stage' \in Talking \cup Ends \cup {"config", "valid", "waiting", "send", "backoff"}
    BY <1>4 DEF Ends
  <2>2. copies' \in 0..2 /\ tries' \in 0..2
    BY <1>1, <1>2, <1>3
  <2>3. QED
    BY <1>1, <1>3, <2>1, <2>2 DEF IInv, TypeOK, Classes
<1>6. Counted'
  BY <1>1, <1>2, <1>3, <1>4 DEF Counted, Early, Talking, Retryable
<1>7. InTime'
  BY <1>1, <1>2, <1>4 DEF IInv, InTime, Talking
<1>8. QED
  BY <1>5, <1>6, <1>7 DEF Plain

LEMMA StartPlain == ASSUME IInv, StartSend PROVE Plain'
<1>1. /\ UNCHANGED <<listener, mail, caller, relay, clock, copies, crossed, diverted>>
      /\ stage = "send" /\ tries' = tries + 1 /\ limit' = TryLimit /\ wire' = "none"
      /\ (Timeout' = Timeout) /\ (Bound' = Bound)
  BY DEF StartSend, setup, Timeout, Bound
<1>2. /\ tries \in {0, 1} /\ copies \in 0..2 /\ copies <= tries /\ clock \in Nat /\ clock <= Bound
      /\ caller = "worker" => tries = 0 /\ clock = 0
  BY <1>1 DEF IInv, TypeOK, Counted, InTime, Talking
<1>3. /\ limit' \in Nat /\ clock <= limit' /\ limit' <= Bound
      /\ caller \in {"handler", "worker"}
  BY <1>1, <1>2, TimeoutNat DEF TryLimit, Earlier, Bound, IInv, TypeOK
<1>4. \/ Fails("terminal") /\ vetoed' \in BOOLEAN
      \/ stage' \in {"dial", "post"} /\ UNCHANGED <<result, wake, vetoed>>
  BY DEF StartSend, IInv, TypeOK
<1>5. /\ wake' \in Nat /\ result' \in {"none", "ok"} \cup Classes /\ vetoed' \in BOOLEAN
      /\ stage' \in {"done", "dial", "post"}
  BY <1>4 DEF Fails, Retryable, Classes, IInv, TypeOK
<1>6. TypeOK'
  BY <1>1, <1>2, <1>3, <1>5 DEF IInv, TypeOK, Ends, Talking, Classes
<1>7. Counted'
  BY <1>1, <1>2, <1>3, <1>5 DEF Counted, Early, Talking
<1>8. InTime'
  BY <1>1, <1>2, <1>3, <1>5 DEF InTime, Talking
<1>9. QED
  BY <1>6, <1>7, <1>8 DEF Plain

Waits == Load \/ Construct \/ Receive \/ Retry \/ GivesUp \/ Tick \/ UNCHANGED vars

LEMMA WaitPlain == ASSUME IInv, Waits PROVE Plain'
<1>1. /\ UNCHANGED <<listener, mail, caller, relay, limit, wake, tries, result, copies, crossed, diverted, vetoed, wire>>
      /\ (Timeout' = Timeout) /\ (Bound' = Bound)
  BY DEF Waits, Load, Construct, Receive, Retry, GivesUp, Tick, vars, setup, timing, history, Timeout, Bound
<1>2. \/ UNCHANGED clock /\ stage' = stage
      \/ UNCHANGED clock /\ stage \in Early /\ stage' \in {"valid", "rejected", "waiting", "broken", "bounced", "send"}
      \/ UNCHANGED clock /\ stage = "backoff" /\ stage' \in {"send", "done"}
      \/ clock' = clock + 1 /\ stage' = stage /\ stage \in Talking /\ clock < limit
      \/ clock' = clock + 1 /\ stage' = stage /\ stage = "backoff" /\ clock < Deadline
  BY DEF Waits, Load, Construct, Receive, Retry, GivesUp, Tick, vars, timing, Is, Early
<1>3. TypeOK'
  BY <1>1, <1>2 DEF IInv, TypeOK, Ends, Talking
<1>4. Counted'
  BY <1>1, <1>2 DEF IInv, TypeOK, Counted, Early, Talking, Retryable
<1>5. InTime'
  <2>1. CASE stage \in Talking /\ clock' = clock + 1
    BY <1>1, <1>2, <2>1, TimeoutNat DEF IInv, TypeOK, InTime, Counted, Talking
  <2>2. CASE stage = "backoff" /\ clock' = clock + 1
    BY <1>1, <1>2, <2>2, TimeoutNat DEF IInv, TypeOK, InTime, Counted, Talking, Bound
  <2>3. CASE UNCHANGED clock
    BY <1>1, <1>2, <2>3 DEF IInv, TypeOK, InTime, Counted, Talking, Early
  <2>4. QED
    BY <1>2, <2>1, <2>2, <2>3
<1>6. QED
  BY <1>3, <1>4, <1>5 DEF Plain

-----------------------------------------------------------------------------
(* The connection. *)

LEMMA ModeIs ==
  ASSUME ListenerValid(listener), listener.type = "smtp" PROVE TLS \in {"starttls", "implicit", "none"}
<1>1. TLS # "error"
  BY DEF ListenerValid, Validate, validateSMTPOutSettings, TLS
<1>2. QED
  BY <1>1 DEF TLS, smtpTLSModeFromSettings

\* A try that ends leaves the connection's part of the invariant behind.
LEMMA EndsPrivate ==
  ASSUME IInv, UNCHANGED <<listener, relay>>, stage \in Talking \cup {"send"}, stage' \in {"backoff", "done"},
         crossed' = crossed
  PROVE  Private' /\ NothingInTheClear'
<1>1. TLS' = TLS /\ ListenerValid(listener)' = ListenerValid(listener)
  BY DEF TLS, smtpTLSModeFromSettings, ListenerValid, Validate, PassthroughNames, validateSMTPOutSettings,
         validatePostmarkSettings, validateResendSettings, validateMailgunSettings, validateSESSettings,
         validateWebhookSettings
<1>2. QED
  BY <1>1 DEF IInv, Private, NothingInTheClear, Talking, Inside, Early

\* The steps of the conversation, one lemma for its two halves.
LEMMA SmtpPrivate ==
  ASSUME IInv, SMTPOutSend
  PROVE  /\ Private' /\ NothingInTheClear'
         /\ wire' \in {"none", "plain", "tls"} /\ crossed' \subseteq {"password", "message"}
<1>1. stage \in Talking \ {"post"} /\ listener.type = "smtp" /\ UNCHANGED <<listener, relay>>
  <2>1. stage \in Talking /\ UNCHANGED <<listener, relay>>
    BY SmtpTries DEF Trying, setup
  <2>2. smtp
    BY DEF SMTPOutSend, SmtpFails, Dialled, Shaken, Greeted, Helloed, StartTLSAgreed, Upgraded, Authenticated,
           SenderAccepted, RecipientAccepted, DataAccepted, BodySent, MessageAccepted
  <2>3. QED
    BY <2>1, <2>2 DEF smtp, IInv, Private
<1>2. TLS' = TLS /\ ListenerValid(listener)' = ListenerValid(listener) /\ ListenerValid(listener)
      /\ TLS \in {"starttls", "implicit", "none"}
  BY <1>1, ModeIs DEF IInv, Private, TLS, smtpTLSModeFromSettings, ListenerValid, Validate, PassthroughNames,
         validateSMTPOutSettings,
         validatePostmarkSettings, validateResendSettings, validateMailgunSettings, validateSESSettings,
         validateWebhookSettings
<1>3. wire \in {"none", "plain", "tls"} /\ crossed \subseteq {"password", "message"}
  BY DEF IInv, TypeOK
<1>4. CASE SmtpFails \/ MessageAccepted
  <2>1. stage' \in {"backoff", "done"} /\ UNCHANGED <<wire, crossed>>
    BY <1>4 DEF SmtpFails, MessageAccepted, Fails, Succeeds
  <2>2. QED
    BY <1>1, <1>3, <2>1, EndsPrivate
<1>5. CASE Dialled
  <2>1. stage' \in {"handshake", "greet", "backoff", "done"} /\ (stage' = "greet" => TLS # "implicit")
        /\ wire' = "plain" /\ UNCHANGED crossed
    BY <1>5 DEF Dialled, Go, Fails, history
  <2>2. QED
    BY <1>1, <1>2, <1>3, <2>1 DEF IInv, Private, NothingInTheClear, Talking, Inside, Early
<1>6. CASE Shaken \/ Greeted \/ StartTLSAgreed
  <2>1. UNCHANGED crossed
        /\ \/ stage' = "greet" /\ wire' = "tls" /\ stage = "handshake"
           \/ stage' = "hello" /\ wire' = wire /\ stage = "greet"
           \/ stage' = "upgrade" /\ wire' = wire /\ stage = "starttls"
    BY <1>6 DEF Shaken, Greeted, StartTLSAgreed, Go, history
  <2>2. QED
    BY <1>1, <1>2, <1>3, <2>1 DEF IInv, Private, NothingInTheClear, Talking, Inside, Early
<1>7. CASE Helloed \/ Upgraded
  <2>1. \/ stage' \in {"backoff", "done"} /\ UNCHANGED crossed /\ wire' \in {wire, "tls"}
        \/ stage' = "starttls" /\ TLS = "starttls" /\ UNCHANGED <<crossed, wire>> /\ stage = "hello"
        \/ /\ stage' = "auth" /\ (wire' = "tls" \/ (relay.local /\ wire' = wire /\ TLS # "starttls" /\ stage = "hello"))
           /\ crossed' = crossed \cup IF wire' = "tls" THEN {} ELSE {"password"}
    BY <1>7 DEF Helloed, Upgraded, ToAuth, Go, Fails, Sends
  <2>2. QED
    BY <1>1, <1>2, <1>3, <2>1 DEF IInv, Private, NothingInTheClear, Talking, Inside, Early
<1>8. CASE Authenticated \/ SenderAccepted \/ RecipientAccepted \/ BodySent
  <2>1. stage \in Inside /\ stage' \in Inside \cup {"backoff", "done"} /\ UNCHANGED <<wire, crossed>>
    BY <1>8 DEF Authenticated, SenderAccepted, RecipientAccepted, BodySent, ToRcpt, Go, Fails, history, Inside
  <2>2. QED
    BY <1>1, <1>2, <1>3, <2>1 DEF IInv, Private, NothingInTheClear, Talking, Inside, Early
<1>9. CASE DataAccepted
  <2>1. stage = "data" /\ stage' = "body" /\ UNCHANGED wire
        /\ crossed' = crossed \cup IF wire' = "tls" THEN {} ELSE {"message"}
    BY <1>9 DEF DataAccepted, Go, Sends
  <2>2. QED
    BY <1>1, <1>2, <1>3, <2>1 DEF IInv, Private, NothingInTheClear, Talking, Inside, Early
<1>10. QED
  BY <1>4, <1>5, <1>6, <1>7, <1>8, <1>9 DEF SMTPOutSend

LEMMA OtherPrivate ==
  ASSUME IInv, ApiSend \/ StartSend \/ Waits PROVE Private' /\ NothingInTheClear'
<1>1. UNCHANGED <<listener, relay, crossed>>
  BY ApiIs DEF ApiSend, Posts, PostFails, StartSend, Waits, Load, Construct, Receive, Retry, GivesUp, Tick,
         vars, setup, history
<1>2. TLS' = TLS /\ ListenerValid(listener)' = ListenerValid(listener)
  BY <1>1 DEF TLS, smtpTLSModeFromSettings, ListenerValid, Validate, PassthroughNames, validateSMTPOutSettings,
         validatePostmarkSettings, validateResendSettings, validateMailgunSettings, validateSESSettings,
         validateWebhookSettings
<1>3. CASE ApiSend
  <2>1. stage = "post" /\ stage' \in {"backoff", "done"}
    BY <1>3, ApiIs DEF Posts, PostFails, Fails, Succeeds
  <2>2. QED
    BY <1>1, <2>1, EndsPrivate DEF Talking
<1>4. CASE StartSend
  <2>1. stage = "send" /\ (stage' \in {"backoff", "done"} \/ stage' = IF listener.type = "smtp" THEN "dial" ELSE "post")
    BY <1>4 DEF StartSend, Fails
  <2>2. QED
    BY <1>1, <1>2, <2>1 DEF IInv, Private, NothingInTheClear, Talking, Inside, Early
<1>5. CASE Waits
  <2>1. wire' = wire /\ \/ stage' = stage
                        \/ stage = "config" /\ stage' \in {"valid", "rejected"} /\ (stage' = "valid" => ListenerValid(listener))
                        \/ stage = "valid" /\ stage' \in {"waiting", "broken"}
                        \/ stage = "waiting" /\ stage' \in {"send", "bounced"}
                        \/ stage = "backoff" /\ stage' \in {"send", "done"}
    BY <1>5 DEF Waits, Load, Construct, Receive, Retry, GivesUp, Tick, vars, Is
  <2>2. QED
    BY <1>1, <1>2, <2>1 DEF IInv, Private, NothingInTheClear, Talking, Inside, Early
<1>6. QED
  BY <1>3, <1>4, <1>5

-----------------------------------------------------------------------------
LEMMA NextIs == ASSUME [Next]_vars PROVE SMTPOutSend \/ ApiSend \/ StartSend \/ Waits
  BY DEF Next, ApiSend, Waits, Over

LEMMA StepKeeps == ASSUME IInv, [Next]_vars PROVE IInv'
<1>1. CASE SMTPOutSend
  BY <1>1, SmtpTries, SmtpPrivate, TryingKeeps DEF IInv, Plain
<1>2. CASE ApiSend
  <2>1. UNCHANGED <<wire, crossed>>
    BY <1>2, ApiIs DEF Posts, PostFails
  <2>2. Plain'
    BY <1>2, <2>1, ApiTries, TryingKeeps DEF IInv, TypeOK
  <2>3. QED
    BY <1>2, <2>2, OtherPrivate DEF IInv, Plain
<1>3. CASE StartSend
  BY <1>3, StartPlain, OtherPrivate DEF IInv, Plain
<1>4. CASE Waits
  BY <1>4, WaitPlain, OtherPrivate DEF IInv, Plain
<1>5. QED
  BY <1>1, <1>2, <1>3, <1>4, NextIs

\* Where a send is agrees with its tries, its time and its connection.
THEOREM Inductive == Spec => []IInv
  BY InitIInv, StepKeeps, PTL DEF Spec

\* Every variable of a send keeps to its type.
THEOREM TypeCorrect == Spec => []TypeOK
<1>1. IInv => TypeOK
  BY DEF IInv
<1>2. QED
  BY <1>1, Inductive, PTL

\* A relay cannot talk the client out of encryption.
THEOREM NeverDowngraded == Spec => []NothingInTheClear
<1>1. IInv => NothingInTheClear
  BY DEF IInv
<1>2. QED
  BY <1>1, Inductive, PTL

\* A send takes no longer than its caller may wait, retry included.
THEOREM SendsReturn == Spec => []ReturnsInTime
<1>1. IInv => ReturnsInTime
  BY DEF IInv, InTime, Bound, ReturnsInTime
<1>2. QED
  BY <1>1, Inductive, PTL

-----------------------------------------------------------------------------
(* The message.  The header lines taken from it at the start are those it  *)
(* is sent with, and what the relay has accepted is the head of its list.  *)

Carry == passthroughHeaders(listener.names)
Past  == Talking \cup {"send", "backoff"}

HeadersKept ==
  stage \in Past => headers = Carry /\ \A i \in DOMAIN Carry : CheckHeaderValue(Carry[i].value)

EnvelopeGrows ==
  /\ stage \in Talking => envelope \in Seq(ToSet(mail.to))
  /\ stage \in Talking \ {"rcpt", "data", "body", "dot", "post"} => envelope = <<>>
  /\ stage = "rcpt" => /\ Len(envelope) < Len(mail.to)
                       /\ \A i \in 1..Len(envelope) : envelope[i] = mail.to[i]
  /\ stage \in {"data", "body", "dot"} => envelope = mail.to

TakenWhole == \A g \in got : g = [to |-> mail.to, headers |-> Carry]

MInv == HeadersKept /\ EnvelopeGrows /\ TakenWhole /\ NoLateSurprise

\* Nothing of what a header line is taken from changes during a send.
LEMMA CarryStays ==
  ASSUME UNCHANGED <<listener, mail>>
  PROVE  /\ Carry' = Carry
         /\ \A name : (Carried(name)' <=> Carried(name)) /\ Value(name)' = Value(name)
  BY DEF Carry, passthroughHeaders, Carried, Value, Lines

\* What the configuration and the listener have accepted passes the check
\* that every transport makes again.
LEMMA CarryPasses ==
  ASSUME ListenerValid(listener), \A i \in DOMAIN Carry : CheckHeaderValue(Carry[i].value)
  PROVE  ValidateHeaders(Carry)
<1>1. /\ DOMAIN Carry \subseteq DOMAIN listener.names
      /\ \A i \in DOMAIN Carry : Carry[i].name = Canon[listener.names[i]]
  BY DEF Carry, passthroughHeaders
<1>2. /\ \A i \in DOMAIN listener.names : Canon[listener.names[i]] \in Allowlist
      /\ \A i, j \in DOMAIN listener.names : Canon[listener.names[i]] = Canon[listener.names[j]] => i = j
  BY DEF ListenerValid, PassthroughNames, PassthroughHeader, NoRepeats, Canonical
<1>3. NoRepeats([i \in DOMAIN Carry |-> Carry[i].name])
  BY <1>1, <1>2 DEF NoRepeats
<1>4. QED
  BY <1>1, <1>2, <1>3 DEF ValidateHeaders

\* What the configuration accepts can be built.
LEMMA ValidBuilds == ASSUME NEW l, ListenerValid(l) PROVE Build(l.type, l.settings)
  BY DEF ListenerValid, Validate, Build, Given, smtpTLSModeFromSettings,
         validateSMTPOutSettings, buildSMTPOutFromSettings, validatePostmarkSettings, buildPostmarkFromSettings,
         validateResendSettings, buildResendFromSettings, validateMailgunSettings, buildMailgunFromSettings,
         validateSESSettings, buildSESFromSettings, validateWebhookSettings, buildWebhookFromSettings

LEMMA ToIsSeq == ASSUME IInv PROVE mail.to \in Seq(ToSet(mail.to)) /\ Len(mail.to) \in Nat
  BY MailAssumption DEF IInv, TypeOK

LEMMA InitMInv == Init => MInv
  BY DEF Init, MInv, HeadersKept, EnvelopeGrows, TakenWhole, NoLateSurprise, Past, Talking

\* A try that only ends, or moves on, without a copy or a recipient more.
LEMMA QuietWhole ==
  ASSUME MInv, UNCHANGED <<listener, mail, headers, got, vetoed>>, stage \in Past,
         \/ stage' \in {"done", "backoff", "send"}
         \/ stage' = stage /\ UNCHANGED envelope
  PROVE  MInv'
<1>1. Carry' = Carry
  BY CarryStays
<1>2. QED
  BY <1>1 DEF MInv, HeadersKept, EnvelopeGrows, TakenWhole, NoLateSurprise, Past, Talking

\* The answers of a relay.
LEMMA SmtpWhole == ASSUME IInv, MInv, SMTPOutSend PROVE MInv'
<1>1. stage \in Talking /\ UNCHANGED <<listener, mail, headers, vetoed>>
  <2>1. stage \in Talking /\ UNCHANGED <<listener, mail, vetoed>>
    BY SmtpTries DEF Trying, setup
  <2>2. UNCHANGED headers
    BY DEF SMTPOutSend, SmtpFails, Dialled, Shaken, Greeted, Helloed, StartTLSAgreed, Upgraded, Authenticated,
           SenderAccepted, RecipientAccepted, DataAccepted, BodySent, MessageAccepted
  <2>3. QED
    BY <2>1, <2>2
<1>2. Carry' = Carry /\ HeadersKept' /\ headers = Carry
  <2>1. Carry' = Carry
    BY <1>1, CarryStays
  <2>2. QED
    BY <1>1, <2>1 DEF MInv, HeadersKept, Past
<1>3. /\ mail.to \in Seq(ToSet(mail.to)) /\ Len(mail.to) \in Nat
      /\ envelope \in Seq(ToSet(mail.to)) /\ Len(envelope) \in Nat
  BY <1>1, ToIsSeq DEF MInv, EnvelopeGrows
<1>4. CASE SmtpFails \/ MessageAccepted
  <2>1. stage' \in {"done", "backoff"}
    BY <1>4 DEF SmtpFails, MessageAccepted, Fails, Succeeds
  <2>2. got' = got \/ (stage = "dot" /\ got' = got \cup {[to |-> envelope, headers |-> headers]})
    BY <1>4 DEF SmtpFails, MessageAccepted, Takes
  <2>3. TakenWhole'
    BY <1>1, <1>2, <2>2 DEF MInv, TakenWhole, EnvelopeGrows
  <2>4. QED
    BY <1>1, <1>2, <2>1, <2>3 DEF MInv, EnvelopeGrows, NoLateSurprise, Talking
<1>5. CASE Dialled \/ Shaken \/ Greeted \/ Helloed \/ StartTLSAgreed \/ Upgraded \/ Authenticated
  <2>1. /\ UNCHANGED <<envelope, got>> /\ stage \in Talking \ {"rcpt", "data", "body", "dot", "post"}
        /\ stage' \in (Talking \ {"rcpt", "data", "body", "dot", "post"}) \cup {"done", "backoff"}
    BY <1>5 DEF Dialled, Shaken, Greeted, Helloed, StartTLSAgreed, Upgraded, Authenticated, ToAuth, Go, Fails,
                history, Talking
  <2>2. EnvelopeGrows' /\ TakenWhole' /\ NoLateSurprise'
    BY <1>1, <1>2, <2>1 DEF MInv, EnvelopeGrows, TakenWhole, NoLateSurprise, Talking
  <2>3. QED
    BY <1>2, <2>2 DEF MInv
<1>6. CASE SenderAccepted
  <2>1. stage = "from" /\ envelope = <<>> /\ UNCHANGED <<envelope, got>> /\ ToRcpt(1)
    BY <1>6 DEF SenderAccepted, history, MInv, EnvelopeGrows, Talking
  <2>2. \/ stage' \in {"done", "backoff"}
        \/ stage' = "data" /\ Len(mail.to) = 0
        \/ stage' = "rcpt" /\ Len(mail.to) > 0
    BY <1>3, <2>1 DEF ToRcpt, Go, Fails
  <2>3. Len(mail.to) = 0 => mail.to = <<>>
    BY <1>3
  <2>4. EnvelopeGrows' /\ TakenWhole' /\ NoLateSurprise'
    BY <1>1, <1>2, <1>3, <2>1, <2>2, <2>3 DEF MInv, EnvelopeGrows, TakenWhole, NoLateSurprise, Talking
  <2>5. QED
    BY <1>2, <2>4 DEF MInv
<1>7. CASE RecipientAccepted
  <2> DEFINE n == Len(envelope)
  <2>1. /\ stage = "rcpt" /\ n \in Nat /\ n < Len(mail.to) /\ UNCHANGED got /\ ToRcpt(n + 2)
        /\ envelope' = Append(envelope, mail.to[n + 1])
        /\ \A i \in 1..n : envelope[i] = mail.to[i]
    BY <1>3, <1>7 DEF RecipientAccepted, history, MInv, EnvelopeGrows
  <2>2. mail.to[n + 1] \in ToSet(mail.to)
    BY <1>3, <2>1 DEF ToSet
  <2>3. /\ envelope' \in Seq(ToSet(mail.to)) /\ Len(envelope') = n + 1
        /\ \A i \in 1..(n + 1) : envelope'[i] = mail.to[i]
    BY <1>3, <2>1, <2>2
  <2>4. \/ stage' \in {"done", "backoff"}
        \/ stage' = "data" /\ n + 1 = Len(mail.to)
        \/ stage' = "rcpt" /\ n + 1 < Len(mail.to)
    BY <1>3, <2>1 DEF ToRcpt, Go, Fails
  <2>5. n + 1 = Len(mail.to) => envelope' = mail.to
    BY <1>3, <2>3
  <2>6. EnvelopeGrows' /\ TakenWhole' /\ NoLateSurprise'
    BY <1>1, <1>2, <2>1, <2>3, <2>4, <2>5 DEF MInv, EnvelopeGrows, TakenWhole, NoLateSurprise, Talking
  <2>7. QED
    BY <1>2, <2>6 DEF MInv
<1>8. CASE DataAccepted \/ BodySent
  <2>1. /\ UNCHANGED <<envelope, got>> /\ stage \in {"data", "body"} /\ stage' \in {"body", "dot"}
    BY <1>8 DEF DataAccepted, BodySent, Go, history
  <2>2. EnvelopeGrows' /\ TakenWhole' /\ NoLateSurprise'
    BY <1>1, <1>2, <2>1 DEF MInv, EnvelopeGrows, TakenWhole, NoLateSurprise, Talking
  <2>3. QED
    BY <1>2, <2>2 DEF MInv
<1>9. QED
  BY <1>4, <1>5, <1>6, <1>7, <1>8 DEF SMTPOutSend

\* The answer of a provider's API.
LEMMA ApiWhole == ASSUME IInv, MInv, ApiSend PROVE MInv'
<1>1. /\ UNCHANGED <<listener, mail, headers, vetoed>> /\ stage = "post" /\ stage' \in {"done", "backoff"}
      /\ got' \in {got, got \cup {[to |-> mail.to, headers |-> headers]}}
  BY ApiIs DEF Posts, PostFails, Takes, Fails, Succeeds, setup
<1>2. Carry' = Carry /\ headers = Carry
  BY <1>1, CarryStays DEF MInv, HeadersKept, Past, Talking
<1>3. QED
  BY <1>1, <1>2 DEF MInv, HeadersKept, EnvelopeGrows, TakenWhole, NoLateSurprise, Past, Talking

\* A try begins: the check of the headers cannot fail any more.
LEMMA StartWhole == ASSUME IInv, MInv, StartSend PROVE MInv'
<1>1. stage = "send" /\ UNCHANGED <<listener, mail, headers, got>> /\ envelope' = <<>>
  BY DEF StartSend, setup
<1>2. ValidateHeaders(headers)
  BY <1>1, CarryPasses DEF IInv, Private, MInv, HeadersKept, Past
<1>3. UNCHANGED vetoed /\ stage' \in {"done", "backoff", "dial", "post"}
  BY <1>2 DEF StartSend, Fails
<1>4. Carry' = Carry
  BY <1>1, CarryStays
<1>5. QED
  BY <1>1, <1>3, <1>4 DEF MInv, HeadersKept, EnvelopeGrows, TakenWhole, NoLateSurprise, Past, Talking

LEMMA WaitWhole == ASSUME IInv, MInv, Waits PROVE MInv'
<1>1. UNCHANGED <<listener, mail, got, vetoed, envelope>>
  BY DEF Waits, Load, Construct, Receive, Retry, GivesUp, Tick, vars, setup, history
<1>2. Carry' = Carry
  BY <1>1, CarryStays
<1>3. CASE Load \/ Construct
  <2>1. stage' \notin Past \cup {"broken"}
    <3>1. CASE Load
      BY <3>1 DEF Load, Is, Past, Talking
    <3>2. CASE Construct
      BY <3>2, ValidBuilds DEF Construct, Is, Past, Talking, IInv, Private, Early
    <3>3. QED
      BY <1>3, <3>1, <3>2
  <2>2. QED
    BY <1>1, <1>2, <2>1 DEF MInv, HeadersKept, EnvelopeGrows, TakenWhole, NoLateSurprise, Past, Talking
<1>4. CASE Receive
  <2>1. \/ stage' = "send" /\ headers' = Carry /\ \A i \in DOMAIN Carry : CheckHeaderValue(Carry[i].value)
        \/ stage' = "bounced"
    BY <1>4 DEF Receive, Carry, Is
  <2>2. QED
    BY <1>1, <1>2, <2>1 DEF MInv, HeadersKept, EnvelopeGrows, TakenWhole, NoLateSurprise, Past, Talking
<1>5. CASE Retry \/ GivesUp \/ Tick
  <2>1. UNCHANGED headers /\ stage \in Past /\ (stage' \in {"done", "send"} \/ stage' = stage)
    BY <1>5 DEF Retry, GivesUp, Tick, Is, Past
  <2>2. QED
    BY <1>1, <2>1, QuietWhole
<1>6. CASE UNCHANGED vars
  BY <1>2, <1>6 DEF vars, setup, history, MInv, HeadersKept, EnvelopeGrows, TakenWhole, NoLateSurprise
<1>7. QED
  BY <1>3, <1>4, <1>5, <1>6 DEF Waits

LEMMA StepKeepsWhole == ASSUME IInv, MInv, [Next]_vars PROVE MInv'
  BY SmtpWhole, ApiWhole, StartWhole, WaitWhole, NextIs

THEOREM InductiveWhole == Spec => []MInv
  BY InitMInv, StepKeepsWhole, Inductive, PTL DEF Spec

\* What a provider or relay takes has every recipient, and each header the
\* listener was told to pass through and the app sent, as it sent it.
THEOREM Delivered == Spec => []DeliveredWhole
<1>1. ASSUME MInv PROVE DeliveredWhole
  <2> DEFINE Names == {Canon[n] : n \in ToSet(listener.names)}
  <2>1. {Carry[i].name : i \in DOMAIN Carry} = {name \in Names : Carried(name)}
    BY DEF Carry, passthroughHeaders, ToSet
  <2>2. \A i \in DOMAIN Carry : Carry[i].value = Value(Carry[i].name)
    BY DEF Carry, passthroughHeaders
  <2>3. QED
    BY <1>1, <2>1, <2>2 DEF MInv, TakenWhole, DeliveredWhole
<1>2. QED
  BY <1>1, InductiveWhole, PTL

\* What the configuration accepts can be built, and what the listener accepts
\* passes the check every transport makes again.
THEOREM NoSurprise == Spec => []NoLateSurprise
<1>1. MInv => NoLateSurprise
  BY DEF MInv
<1>2. QED
  BY <1>1, InductiveWhole, PTL

-----------------------------------------------------------------------------
\* Every transport, with the retry policy around it, keeps what the queue
\* relies on: two tries at most, none after a verdict, and a refusal for good
\* only of what was not taken in that try.
THEOREM ImplementsContract == Spec => ContractSpec
<1> DEFINE t == IF stage \in Talking THEN tries - 1 ELSE tries
           v == IF Retryable(result) THEN "retryable" ELSE result
           o == stage = "done"
<1>1. Init => Contract!Init
  BY DEF Init, Contract!Init, Talking, Retryable
<1>2. ASSUME IInv, [Next]_vars PROVE Contract!Next \/ UNCHANGED <<t, v, copies, diverted, o>>
  <2>1. CASE Trying
    <3>1. stage \in Talking /\ tries' = tries /\ tries \in {1, 2} /\ ~o /\ t + 1 = tries /\ t < 2
      BY <1>2, <2>1 DEF Trying, IInv, Counted, Talking
    <3>2. CASE MovesOn
      BY <3>1, <3>2 DEF MovesOn, Talking
    <3>3. ASSUME NEW class \in Classes, FailsWith(class) PROVE Contract!Next
      <4>1. result' = class /\ stage' \in {"done", "backoff"} /\ (~Retryable(class) => stage' = "done")
        BY <3>3 DEF FailsWith, Fails
      <4>2. t' = t + 1 /\ v' = (IF Retryable(class) THEN "retryable" ELSE class)
        BY <3>1, <4>1 DEF Talking, Retryable
      <4>3. CASE Retryable(class)
        BY <3>1, <3>3, <4>1, <4>2, <4>3 DEF FailsWith, Contract!Next, Contract!Failed, Contract!Try
      <4>4. CASE ~Retryable(class)
        BY <3>1, <3>3, <4>1, <4>2, <4>4
           DEF FailsWith, Classes, Retryable, Contract!Next, Contract!Refused, Contract!Try
      <4>5. QED
        BY <4>3, <4>4
    <3>4. CASE Took
      <4>1. t' = t + 1 /\ v' = "ok" /\ o' = TRUE
        BY <3>1, <3>4 DEF Took, Succeeds, Talking, Retryable
      <4>2. QED
        BY <3>1, <3>4, <4>1 DEF Took, Contract!Next, Contract!Accepted, Contract!Try
    <3>5. QED
      BY <2>1, <3>2, <3>3, <3>4 DEF Trying
  <2>2. CASE StartSend
    <3>1. stage = "send" /\ tries \in {0, 1} /\ tries' = tries + 1 /\ t = tries /\ ~o /\ UNCHANGED <<copies, diverted>>
      BY <1>2, <2>2 DEF StartSend, IInv, Counted, Talking
    <3>2. CASE Fails("terminal")
      <4>1. t' = t + 1 /\ v' = "terminal" /\ o' = TRUE
        BY <3>1, <3>2 DEF Fails, Retryable, Talking
      <4>2. QED
        BY <3>1, <4>1 DEF Contract!Next, Contract!Refused, Contract!Try
    <3>3. CASE stage' \in {"dial", "post"} /\ UNCHANGED result
      BY <3>1, <3>3 DEF Talking
    <3>4. QED
      BY <2>2, <3>2, <3>3 DEF StartSend
  <2>3. CASE GivesUp
    <3>1. /\ stage = "backoff" /\ stage' = "done" /\ UNCHANGED <<tries, result, copies, diverted>>
          /\ Retryable(result)
      BY <1>2, <2>3 DEF GivesUp, Is, history, IInv, Counted
    <3>2. QED
      BY <3>1 DEF Contract!Next, Contract!GivesUp, Talking, Retryable
  <2>4. CASE Waits /\ ~GivesUp
    <3>1. UNCHANGED <<tries, result, copies, diverted>>
          /\ (stage' = stage \/ (stage \in Early \cup {"backoff"} /\ stage' \in Early \cup {"send"}))
      BY <2>4 DEF Waits, Load, Construct, Receive, Retry, GivesUp, Tick, vars, Is, history, Early
    <3>2. QED
      BY <3>1 DEF Early, Talking
  <2>5. QED
    BY <1>2, <2>1, <2>2, <2>3, <2>4, NextIs, SmtpTries, ApiTries
<1>3. QED
  BY <1>1, <1>2, Inductive, PTL DEF Spec, ContractSpec, Contract!Spec, Contract!vars
=============================================================================
