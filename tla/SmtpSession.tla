----------------------------- MODULE SmtpSession -----------------------------
(***************************************************************************)
(* The sessions of one SMTP listener: what a client may say in which order *)
(* and what the session remembers of it, until a message is handed to the  *)
(* transport (module MailQueue has what becomes of it).  Module Serve      *)
(* opens and closes the connections.                                       *)
(*                                                                         *)
(* A command that is refused, or only answered (EHLO, HELO, NOOP, one that *)
(* is unknown), changes nothing and is left out.                           *)
(***************************************************************************)
EXTENDS Integers, FiniteSets, SequencesExt

CONSTANTS
  Conns, IpOf,    \* connections and the address each comes from
  Addrs, Nobody,
  Configs,        \* listener configurations, valid or not
  DefaultRcpts, DefaultConns, DefaultPerIP,
  AuthBudget,     \* authFailureBudget
  MaxRefills      \* bound: tokens that come back to an address

Ips == {IpOf[c] : c \in Conns}

ASSUME SessionAssumption ==
  /\ IsFiniteSet(Conns) /\ DOMAIN IpOf = Conns /\ Nobody \notin Addrs
  /\ DefaultRcpts \in Nat \ {0} /\ DefaultConns \in Nat \ {0} /\ DefaultPerIP \in Nat \ {0}
  /\ AuthBudget \in Nat \ {0} /\ MaxRefills \in Nat
  /\ \A k \in Configs : k.maxRcpts \in Int /\ k.maxConns \in Int /\ k.maxPerIP \in Int

VARIABLES
  cfg,       \* the listener's configuration
  stage,     \* what the goroutine of each connection is doing
  session,   \* the session struct
  silent,    \* clients that say nothing any more
  tokens,    \* authFail: each address's bucket
  \* history: layers on which AUTH succeeded; the transaction as the client
  \* knows it from the replies; the message handed over last; the sessions
  \* that got a 535, one entry for each; tokens that came back to an address
  proved, view, handed, misses, refills

budget      == <<tokens, misses, refills>>
sessionVars == <<cfg, stage, session, silent, budget, proved, view, handed>>

-----------------------------------------------------------------------------
(* The listener's configuration. *)

EffectiveAuthMode(k) == IF k.mode = "" THEN "smtp-auth" ELSE k.mode
ByPassword(k) == EffectiveAuthMode(k) \in {"smtp-auth", "either"}
ByCert(k)     == EffectiveAuthMode(k) \in {"client-cert", "either"}
NeedsTLS(k)   == k.requireTLS \/ ByCert(k)

Valid(k) ==
  /\ k.senders # {}
  /\ EffectiveAuthMode(k) \in {"smtp-auth", "client-cert", "either", "none"}
  /\ ByPassword(k) => k.users
  /\ ByCert(k) => k.ca
  /\ NeedsTLS(k) => k.keypair
  /\ k.maxRcpts >= 0

\* No limit at all is 0.
EffectiveMaxRecipients(k) ==
  IF k.maxRcpts > 0 THEN k.maxRcpts ELSE IF k.rcpts = {} THEN DefaultRcpts ELSE 0
EffectiveMaxConnections(k)      == IF k.maxConns <= 0 THEN DefaultConns ELSE k.maxConns
EffectiveMaxConnectionsPerIP(k) == IF k.maxPerIP <= 0 THEN DefaultPerIP ELSE k.maxPerIP

-----------------------------------------------------------------------------
newSession == [tls |-> FALSE, user |-> FALSE, cert |-> FALSE,
               trx |-> FALSE, from |-> Nobody, rcpts |-> <<>>]
NoView     == [from |-> Nobody, rcpts |-> <<>>]
Nothing    == [from |-> Nobody, to |-> <<>>, asked |-> NoView, layer |-> "plain", proved |-> {}, cert |-> FALSE]
Stages     == {"none", "accepted", "counted", "refused", "ready", "body", "sending", "closing", "gone"}

\* A configuration that is not valid is refused at startup.
SessionInit(k, used) ==
  /\ Valid(k) /\ cfg = k
  /\ stage = [c \in Conns |-> IF c \in used THEN "none" ELSE "gone"]
  /\ session = [c \in Conns |-> newSession] /\ silent = [c \in Conns |-> FALSE]
  /\ tokens = [i \in Ips |-> AuthBudget]
  /\ proved = [c \in Conns |-> {}]
  /\ view = [c \in Conns |-> NoView] /\ handed = [c \in Conns |-> Nothing]
  /\ misses = <<>> /\ refills = [i \in Ips |-> 0]

Layer(c)   == IF session[c].tls THEN "tls" ELSE "plain"
Hears(c)   == stage[c] = "ready" /\ ~silent[c]
Goes(c, s) == stage' = [stage EXCEPT ![c] = s]

\* Mutant: the recipients are left in place.
resetTransaction_Keeps(r) == [r EXCEPT !.trx = FALSE, !.from = Nobody]

resetTransaction(r) == [r EXCEPT !.trx = FALSE, !.from = Nobody, !.rcpts = <<>>]

authRequiredAndMissing(r) ==
  CASE EffectiveAuthMode(cfg) = "none" -> FALSE
    [] EffectiveAuthMode(cfg) = "smtp-auth" -> ~r.user
    [] EffectiveAuthMode(cfg) = "client-cert" -> ~r.cert
    [] OTHER -> ~r.user /\ ~r.cert

-----------------------------------------------------------------------------
(* The commands. *)

\* Mutant: who one was in plaintext is remembered.
handleSTARTTLS_KeepsUser(c) ==
  /\ Hears(c) /\ NeedsTLS(cfg) /\ ~session[c].tls
  /\ \E verified \in IF ByCert(cfg) THEN BOOLEAN ELSE {FALSE} :
       session' = [session EXCEPT ![c] = [resetTransaction(@) EXCEPT !.tls = TRUE, !.cert = verified]]
  /\ view' = [view EXCEPT ![c] = NoView]
  /\ UNCHANGED <<cfg, stage, silent, budget, proved, handed>>

\* The handshake succeeded; one that fails leaves the session as it was.
handleSTARTTLS(c) ==
  /\ Hears(c) /\ NeedsTLS(cfg) /\ ~session[c].tls
  /\ \E verified \in IF ByCert(cfg) THEN BOOLEAN ELSE {FALSE} :
       session' = [session EXCEPT ![c] =
         [resetTransaction(@) EXCEPT !.tls = TRUE, !.user = FALSE, !.cert = verified]]
  /\ view' = [view EXCEPT ![c] = NoView]
  /\ UNCHANGED <<cfg, stage, silent, budget, proved, handed>>

\* Mutant: every session has a budget of its own.
authFailed_PerSession(c) ==
  IF Cardinality({n \in DOMAIN misses : misses[n] = c}) >= AuthBudget
  THEN Goes(c, "closing") /\ UNCHANGED budget
  ELSE misses' = Append(misses, c) /\ UNCHANGED <<stage, tokens, refills>>

\* 535, or 421 and the end of the session when the address has no token left.
authFailed(c) ==
  LET ip == IpOf[c] IN
  IF tokens[ip] = 0
  THEN Goes(c, "closing") /\ UNCHANGED budget
  ELSE /\ tokens' = [tokens EXCEPT ![ip] = @ - 1] /\ misses' = Append(misses, c)
       /\ UNCHANGED <<stage, refills>>

handleAUTH(c) ==
  /\ Hears(c) /\ (cfg.requireTLS => session[c].tls) /\ ByPassword(cfg)
  /\ \/ /\ session' = [session EXCEPT ![c].user = TRUE]
        /\ proved' = [proved EXCEPT ![c] = @ \cup {Layer(c)}]
        /\ UNCHANGED <<stage, budget>>
     \/ authFailed(c) /\ UNCHANGED <<session, proved>>
  /\ UNCHANGED <<cfg, silent, view, handed>>

handleMAIL(c) ==
  /\ Hears(c) /\ (cfg.requireTLS => session[c].tls) /\ ~authRequiredAndMissing(session[c])
  /\ \E a \in Addrs \cap cfg.senders :
       /\ session' = [session EXCEPT ![c] = [resetTransaction(@) EXCEPT !.trx = TRUE, !.from = a]]
       /\ view' = [view EXCEPT ![c] = [from |-> a, rcpts |-> <<>>]]
  /\ UNCHANGED <<cfg, stage, silent, budget, proved, handed>>

handleRCPT(c) ==
  LET cap == EffectiveMaxRecipients(cfg) IN
  /\ Hears(c) /\ session[c].trx
  /\ cap > 0 => Len(session[c].rcpts) < cap
  /\ \E a \in IF cfg.rcpts = {} THEN Addrs ELSE Addrs \cap cfg.rcpts :
       /\ session' = [session EXCEPT ![c].rcpts = Append(@, a)]
       /\ view' = [view EXCEPT ![c].rcpts = Append(@, a)]
  /\ UNCHANGED <<cfg, stage, silent, budget, proved, handed>>

handleRSET(c) ==
  /\ Hears(c)
  /\ session' = [session EXCEPT ![c] = resetTransaction(@)]
  /\ view' = [view EXCEPT ![c] = NoView]
  /\ UNCHANGED <<cfg, stage, silent, budget, proved, handed>>

\* 354: the body is read next.
handleDATA(c) ==
  /\ Hears(c) /\ session[c].trx /\ session[c].rcpts # <<>>
  /\ Goes(c, "body")
  /\ UNCHANGED <<cfg, session, silent, budget, proved, view, handed>>

EndTransaction(c) ==
  /\ Goes(c, "ready")
  /\ session' = [session EXCEPT ![c] = resetTransaction(@)]
  /\ view' = [view EXCEPT ![c] = NoView] /\ handed' = [handed EXCEPT ![c] = Nothing]
  /\ UNCHANGED <<cfg, silent, budget, proved>>

\* 451, 552, 554 and 550: unreadable, too big, a header that cannot be carried,
\* malformed.
RejectBody(c) == stage[c] = "body" /\ EndTransaction(c)

\* The message goes to the envelope's recipients, whatever its own headers say.
HandOver(c) ==
  /\ stage[c] = "body" /\ ~silent[c] /\ Goes(c, "sending")
  /\ handed' = [handed EXCEPT ![c] =
       [from |-> session[c].from, to |-> session[c].rcpts, asked |-> view[c],
        layer |-> Layer(c), proved |-> proved[c], cert |-> session[c].cert]]
  /\ UNCHANGED <<cfg, session, silent, budget, proved, view>>

\* 250 or 451: sent, queued, suppressed or refused.
Answer(c) == stage[c] = "sending" /\ EndTransaction(c)

\* QUIT, or a connection that breaks.
Quit(c) ==
  /\ Hears(c) /\ Goes(c, "closing")
  /\ UNCHANGED <<cfg, session, silent, budget, proved, view, handed>>

FallSilent(c) ==
  /\ stage[c] \in {"ready", "body"} /\ ~silent[c] /\ silent' = [silent EXCEPT ![c] = TRUE]
  /\ UNCHANGED <<cfg, stage, session, budget, proved, view, handed>>

\* Mutant: no deadline within a transaction.
IdleTimeout_Greeted(c) ==
  /\ stage[c] = "ready" /\ silent[c] /\ ~session[c].trx /\ Goes(c, "closing")
  /\ UNCHANGED <<cfg, session, silent, budget, proved, view, handed>>

\* The read deadline passes; in a body that is a read error (RejectBody).
IdleTimeout(c) ==
  /\ stage[c] = "ready" /\ silent[c] /\ Goes(c, "closing")
  /\ UNCHANGED <<cfg, session, silent, budget, proved, view, handed>>

Refill(ip) ==
  /\ tokens[ip] < AuthBudget /\ refills[ip] < MaxRefills
  /\ tokens' = [tokens EXCEPT ![ip] = @ + 1] /\ refills' = [refills EXCEPT ![ip] = @ + 1]
  /\ UNCHANGED <<cfg, stage, session, silent, proved, view, handed, misses>>

Says(c) ==
  \/ handleSTARTTLS(c) \/ handleAUTH(c) \/ handleMAIL(c) \/ handleRCPT(c) \/ handleRSET(c)
  \/ handleDATA(c) \/ Quit(c) \/ FallSilent(c)
-----------------------------------------------------------------------------
(* Correctness. *)

SessionTypeOK ==
  /\ cfg \in Configs /\ stage \in [Conns -> Stages]
  /\ session \in [Conns -> [tls : BOOLEAN, user : BOOLEAN, cert : BOOLEAN, trx : BOOLEAN,
                            from : Addrs \cup {Nobody}, rcpts : Seq(Addrs)]]
  /\ silent \in [Conns -> BOOLEAN]
  /\ tokens \in [Ips -> 0 .. AuthBudget]
  /\ proved \in [Conns -> SUBSET {"plain", "tls"}]
  /\ view \in [Conns -> [from : Addrs \cup {Nobody}, rcpts : Seq(Addrs)]]
  /\ misses \in Seq(Conns) /\ refills \in [Ips -> 0 .. MaxRefills]

\* Whatever is relayed went through every gate of the configuration on the
\* layer it was sent on: TLS if required; a password accepted on this very
\* layer, or a verified certificate, if the mode asks for one (FR63); an
\* allowed sender (FR64); allowed recipients and no more than the cap (FR65).
RelayedAuthorised ==
  \A c \in Conns : stage[c] = "sending" =>
    LET h == handed[c] IN
    /\ cfg.requireTLS => h.layer = "tls"
    /\ EffectiveAuthMode(cfg) # "none" => \/ ByPassword(cfg) /\ h.layer \in h.proved
                                          \/ ByCert(cfg) /\ h.cert
    /\ h.from \in cfg.senders
    /\ cfg.rcpts # {} => ToSet(h.to) \subseteq cfg.rcpts
    /\ \/ Len(h.to) <= EffectiveMaxRecipients(cfg)
       \/ EffectiveMaxRecipients(cfg) = 0 /\ cfg.rcpts # {}

\* A message goes from the sender and to the recipients that the client was
\* told 250 for since its last accepted MAIL, and to nobody else: no other
\* transaction's, and none given in plaintext before STARTTLS.
EnvelopeKept ==
  \A c \in Conns : stage[c] = "sending" =>
    handed[c].asked = [from |-> handed[c].from, rcpts |-> handed[c].to]

Guesses(ip) == {n \in DOMAIN misses : IpOf[misses[n]] = ip}

\* However many sessions an address has open, one after the other or at once,
\* together they get no more failed AUTHs answered with 535 than one budget and
\* what came back to it (session.authFailed, Listener.authFailureExceeded, #50).
GuessesBounded == \A ip \in Ips : Cardinality(Guesses(ip)) <= AuthBudget + refills[ip]
=============================================================================
