----------------------------- MODULE ServeProofs -----------------------------
(***************************************************************************)
(* Proofs about Serve and the sessions of SmtpSession, for every number of *)
(* connections and requests, every configuration and every bound.          *)
(***************************************************************************)
EXTENDS Serve, FiniteSetTheorems, TLAPS

USE SessionAssumption, ServeAssumption

SessionType == [tls : BOOLEAN, user : BOOLEAN, cert : BOOLEAN, trx : BOOLEAN,
                from : Addrs \cup {Nobody}, rcpts : Seq(Addrs)]

\* What a session may relay with, as long as it keeps its transaction.
Entitled(r) ==
  /\ cfg.requireTLS => r.tls
  /\ ~authRequiredAndMissing(r)
  /\ r.from \in cfg.senders
  /\ cfg.rcpts # {} => ToSet(r.rcpts) \subseteq cfg.rcpts
  /\ \/ Len(r.rcpts) <= EffectiveMaxRecipients(cfg)
     \/ EffectiveMaxRecipients(cfg) = 0 /\ cfg.rcpts # {}

\* A session and its client mean the same transaction, and whoever the session
\* takes the client for was shown to it on this layer.
Sane(c) ==
  /\ view[c] = [from |-> session[c].from, rcpts |-> session[c].rcpts]
  /\ session[c].user => ByPassword(cfg) /\ Layer(c) \in proved[c]
  /\ session[c].cert => ByCert(cfg)
  /\ session[c].trx => Entitled(session[c])
  /\ stage[c] \in {"body", "sending"} => session[c].trx
  /\ stage[c] = "sending" => handed[c] =
       [from |-> session[c].from, to |-> session[c].rcpts, asked |-> view[c],
        layer |-> Layer(c), proved |-> proved[c], cert |-> session[c].cert]

\* Every token of an address was answered with a 535, or is still there.
Accounted == \A ip \in Ips : Cardinality(Guesses(ip)) + tokens[ip] = AuthBudget + refills[ip]

SessionIInv ==
  SessionTypeOK /\ DOMAIN handed = Conns /\ Valid(cfg) /\ Accounted /\ \A c \in Conns : Sane(c)

LEMMA Fresh == newSession \in SessionType /\ NoView \in [from : Addrs \cup {Nobody}, rcpts : Seq(Addrs)]
  BY DEF newSession, NoView, SessionType

\* Only a transaction is lost, and none of it is left.
LEMMA Resets ==
  ASSUME NEW r \in SessionType
  PROVE  /\ resetTransaction(r) \in SessionType
         /\ resetTransaction(r).tls = r.tls /\ resetTransaction(r).user = r.user
         /\ resetTransaction(r).cert = r.cert /\ resetTransaction(r).trx = FALSE
         /\ resetTransaction(r).from = Nobody /\ resetTransaction(r).rcpts = <<>>
<1> DEFINE q == resetTransaction(r)
<1>1. q \in SessionType
  <2>1. [r EXCEPT !.trx = FALSE] \in SessionType
    BY DEF SessionType
  <2>2. [[r EXCEPT !.trx = FALSE] EXCEPT !.from = Nobody] \in SessionType
    BY <2>1 DEF SessionType
  <2>3. <<>> \in Seq(Addrs)
    OBVIOUS
  <2>4. [[[r EXCEPT !.trx = FALSE] EXCEPT !.from = Nobody] EXCEPT !.rcpts = <<>>] \in SessionType
    BY <2>2, <2>3 DEF SessionType
  <2>5. QED
    BY <2>4 DEF resetTransaction
<1>2. q.tls = r.tls
  BY DEF resetTransaction, SessionType
<1>3. q.user = r.user
  BY DEF resetTransaction, SessionType
<1>4. q.cert = r.cert
  BY DEF resetTransaction, SessionType
<1>5. q.trx = FALSE
  BY DEF resetTransaction, SessionType
<1>6. q.from = Nobody /\ q.rcpts = <<>>
  BY DEF resetTransaction, SessionType
<1>7. QED
  BY <1>1, <1>2, <1>3, <1>4, <1>5, <1>6

LEMMA InitSession == Init => SessionIInv
<1> SUFFICES ASSUME Init PROVE SessionIInv
  OBVIOUS
<1>1. PICK k \in Cases : SessionInit(k.cfg, k.conns)
  BY DEF Init
<1>2. k.cfg \in Configs
  BY DEF Init
<1>3. SessionTypeOK
  BY <1>1, <1>2, Fresh DEF SessionInit, SessionTypeOK, Stages, SessionType
<1>4. \A c \in Conns : Sane(c)
  BY <1>1 DEF SessionInit, Sane, newSession, NoView
<1>5. Accounted
  <2>1. ASSUME NEW ip \in Ips
        PROVE  Guesses(ip) = {} /\ tokens[ip] = AuthBudget /\ refills[ip] = 0 /\ AuthBudget \in Nat
    BY <1>1 DEF SessionInit, Guesses
  <2>2. ASSUME NEW ip \in Ips PROVE Cardinality(Guesses(ip)) = 0
    BY <2>1, FS_EmptySet
  <2>3. QED
    BY <2>1, <2>2 DEF Accounted
<1>6. QED
  BY <1>1, <1>3, <1>4, <1>5 DEF SessionIInv, SessionInit

-----------------------------------------------------------------------------
(* The steps of a session. *)

LEMMA AccountedSame == ASSUME Accounted, UNCHANGED budget PROVE Accounted'
<1>1. \A ip \in Ips : Guesses(ip)' = Guesses(ip) /\ tokens'[ip] = tokens[ip] /\ refills'[ip] = refills[ip]
  BY DEF Guesses, budget
<1>2. \A ip \in Ips : Cardinality(Guesses(ip)') = Cardinality(Guesses(ip))
  BY <1>1
<1>3. QED
  BY <1>1, <1>2 DEF Accounted, budget

LEMMA GuessesFinite ==
  ASSUME misses \in Seq(Conns), NEW ip
  PROVE  IsFiniteSet(Guesses(ip)) /\ Cardinality(Guesses(ip)) \in Nat
<1>1. Guesses(ip) \in SUBSET (1 .. Len(misses)) /\ Len(misses) \in Nat
  BY DEF Guesses
<1>2. IsFiniteSet(1 .. Len(misses))
  BY <1>1, FS_Interval
<1>3. IsFiniteSet(Guesses(ip))
  BY <1>1, <1>2, FS_Subset
<1>4. QED
  BY <1>3, FS_CardinalityType

\* What a step leaves of the sessions it is not about.
Apart(d) ==
  /\ session'[d] = session[d] /\ view'[d] = view[d] /\ proved'[d] = proved[d] /\ handed'[d] = handed[d]
  /\ stage'[d] = stage[d] \/ stage'[d] \notin {"body", "sending"}

LEMMA ApartSane == ASSUME NEW d \in Conns, Sane(d), Apart(d), cfg' = cfg PROVE Sane(d)'
  BY DEF Sane, Apart, Layer, Entitled, authRequiredAndMissing, EffectiveAuthMode, ByPassword, ByCert,
         EffectiveMaxRecipients

LEMMA CapIsNat == ASSUME SessionTypeOK, Valid(cfg)
                  PROVE EffectiveMaxRecipients(cfg) \in Nat
                        /\ (EffectiveMaxRecipients(cfg) = 0 => cfg.rcpts # {})
  BY DEF EffectiveMaxRecipients, SessionTypeOK, Valid

LEMMA Frame ==
  ASSUME SessionIInv, NEW c \in Conns, \A d \in Conns \ {c} : Apart(d), cfg' = cfg,
         SessionTypeOK', DOMAIN handed' = Conns, Accounted', Sane(c)'
  PROVE  SessionIInv'
<1>1. \A d \in Conns : Sane(d)'
  BY ApartSane DEF SessionIInv
<1>2. Valid(cfg)'
  BY DEF SessionIInv, Valid, EffectiveAuthMode, ByPassword, ByCert, NeedsTLS
<1>3. QED
  BY <1>1, <1>2 DEF SessionIInv

ViewType == [from : Addrs \cup {Nobody}, rcpts : Seq(Addrs)]

\* A step that gives connection c the session q and its client the view v,
\* and leaves the address's guesses alone.
LEMMA Becomes ==
  ASSUME SessionIInv, NEW c \in Conns, NEW q \in SessionType, NEW v \in ViewType,
         session' = [session EXCEPT ![c] = q], view' = [view EXCEPT ![c] = v],
         NEW s \in Stages, Goes(c, s),
         proved' \in [Conns -> SUBSET {"plain", "tls"}], \A d \in Conns \ {c} : proved'[d] = proved[d],
         DOMAIN handed' = Conns, \A d \in Conns \ {c} : handed'[d] = handed[d],
         UNCHANGED <<cfg, silent, budget>>, Sane(c)'
  PROVE  SessionIInv'
<1>1. SessionTypeOK'
  BY DEF SessionIInv, SessionTypeOK, SessionType, ViewType, Goes, budget
<1>2. Accounted'
  BY AccountedSame DEF SessionIInv
<1>3. \A d \in Conns \ {c} : Apart(d)
  BY DEF Apart, Goes, SessionIInv, SessionTypeOK
<1>4. QED
  BY <1>1, <1>2, <1>3, Frame

LEMMA Types ==
  ASSUME SessionIInv, NEW c \in Conns
  PROVE  /\ session \in [Conns -> SessionType] /\ session[c] \in SessionType
         /\ view \in [Conns -> ViewType] /\ view[c] \in ViewType
         /\ proved \in [Conns -> SUBSET {"plain", "tls"}]
         /\ stage \in [Conns -> Stages] /\ stage[c] \in Stages
         /\ NoView \in ViewType /\ Sane(c) /\ DOMAIN handed = Conns
  BY DEF SessionIInv, SessionTypeOK, SessionType, ViewType, NoView

LEMMA StepSTARTTLS == ASSUME SessionIInv, NEW c \in Conns, handleSTARTTLS(c) PROVE SessionIInv'
<1> DEFINE r == resetTransaction(session[c])
<1>1. PICK verified \in IF ByCert(cfg) THEN BOOLEAN ELSE {FALSE} :
        session' = [session EXCEPT ![c] = [r EXCEPT !.tls = TRUE, !.user = FALSE, !.cert = verified]]
  BY DEF handleSTARTTLS
<1> DEFINE q == [r EXCEPT !.tls = TRUE, !.user = FALSE, !.cert = verified]
<1>2. stage[c] = "ready" /\ view' = [view EXCEPT ![c] = NoView]
      /\ UNCHANGED <<cfg, stage, silent, budget, proved, handed>>
  BY DEF handleSTARTTLS, Hears
<1>3. r \in SessionType /\ r.trx = FALSE /\ r.from = Nobody /\ r.rcpts = <<>>
  BY Types, Resets
<1> HIDE DEF r
<1>4. verified \in BOOLEAN /\ (verified => ByCert(cfg))
  BY <1>1
<1>5. q \in SessionType
  BY <1>3, <1>4 DEF SessionType
<1>6. q.trx = FALSE
  BY <1>3 DEF SessionType
<1>7. q.user = FALSE
  BY <1>3 DEF SessionType
<1>8. q.cert = verified
  BY <1>3, <1>4 DEF SessionType
<1>9. q.from = Nobody /\ q.rcpts = <<>>
  BY <1>3 DEF SessionType
<1>10. session' = [session EXCEPT ![c] = q]
  BY <1>1
<1> HIDE DEF q
<1>11. session'[c] = q /\ view'[c] = NoView /\ stage'[c] = "ready"
  BY <1>2, <1>10, Types
<1>12. ByCert(cfg)' = ByCert(cfg)
  BY <1>2 DEF ByCert, EffectiveAuthMode
<1>13. Sane(c)'
  BY <1>4, <1>6, <1>7, <1>8, <1>9, <1>11, <1>12 DEF Sane, NoView
<1>14. Goes(c, "ready") /\ "ready" \in Stages
  BY <1>2, Types DEF Goes, Stages
<1>15. QED
  BY <1>2, <1>5, <1>10, <1>13, <1>14, Types, Becomes

\* The address's bucket and the count of its failures move together.
LEMMA FailureCounted ==
  ASSUME SessionIInv, NEW c \in Conns, authFailed(c)
  PROVE  /\ Accounted' /\ refills' = refills
         /\ tokens' \in [Ips -> 0 .. AuthBudget] /\ misses' \in Seq(Conns)
         /\ stage' \in [Conns -> Stages] /\ stage'[c] \in {stage[c], "closing"}
         /\ \A d \in Conns \ {c} : stage'[d] = stage[d]
<1>1. IpOf[c] \in Ips /\ tokens \in [Ips -> 0 .. AuthBudget] /\ misses \in Seq(Conns)
      /\ refills \in [Ips -> 0 .. MaxRefills]
  BY DEF Ips, SessionIInv, SessionTypeOK
<1>2. CASE tokens[IpOf[c]] = 0
  <2>1. Goes(c, "closing") /\ UNCHANGED budget
    BY <1>2 DEF authFailed
  <2>2. Accounted'
    BY <2>1, AccountedSame DEF SessionIInv
  <2>3. QED
    BY <1>1, <2>1, <2>2, Types DEF Goes, budget, Stages
<1>3. CASE tokens[IpOf[c]] # 0
  <2> DEFINE ip == IpOf[c]  n == Len(misses) + 1
  <2>1. tokens' = [tokens EXCEPT ![ip] = @ - 1] /\ misses' = Append(misses, c) /\ UNCHANGED <<stage, refills>>
    BY <1>3 DEF authFailed
  <2>2. n \in Nat /\ misses' \in Seq(Conns) /\ DOMAIN misses' = DOMAIN misses \cup {n} /\ n \notin DOMAIN misses
        /\ misses'[n] = c /\ \A m \in DOMAIN misses : misses'[m] = misses[m]
    BY <1>1, <2>1
  <2> HIDE DEF n
  <2>3. Guesses(ip)' = Guesses(ip) \cup {n} /\ n \notin Guesses(ip)
    BY <2>2 DEF Guesses
  <2>4. ASSUME NEW i \in Ips, i # ip PROVE Guesses(i)' = Guesses(i)
    BY <2>2, <2>4 DEF Guesses
  <2>5. Cardinality(Guesses(ip)') = Cardinality(Guesses(ip)) + 1
    BY <1>1, <2>3, GuessesFinite, FS_AddElement
  <2>6. tokens' \in [Ips -> 0 .. AuthBudget] /\ tokens'[ip] = tokens[ip] - 1
        /\ \A i \in Ips : i # ip => tokens'[i] = tokens[i]
    BY <1>1, <1>3, <2>1
  <2>7. \A i \in Ips : Cardinality(Guesses(i)) + tokens[i] = AuthBudget + refills[i]
    BY DEF SessionIInv, Accounted
  <2>8. ASSUME NEW i \in Ips PROVE Cardinality(Guesses(i)') + tokens'[i] = AuthBudget + refills'[i]
    <3>1. Cardinality(Guesses(i)) \in Nat /\ tokens[i] \in Int /\ refills'[i] = refills[i]
      BY <1>1, <2>1, GuessesFinite
    <3>2. CASE i = ip
      BY <2>5, <2>6, <2>7, <3>1, <3>2, <1>1
    <3>3. CASE i # ip
      BY <2>4, <2>6, <2>7, <3>1, <3>3
    <3>4. QED
      BY <3>2, <3>3
  <2>9. Accounted'
    BY <2>8 DEF Accounted
  <2>10. QED
    BY <2>1, <2>2, <2>6, <2>9, Types
<1>4. QED
  BY <1>2, <1>3

LEMMA StepAUTH == ASSUME SessionIInv, NEW c \in Conns, handleAUTH(c) PROVE SessionIInv'
<1>1. stage[c] = "ready" /\ ByPassword(cfg) /\ UNCHANGED <<cfg, silent, view, handed>>
  BY DEF handleAUTH, Hears
<1>2. CASE /\ session' = [session EXCEPT ![c].user = TRUE]
           /\ proved' = [proved EXCEPT ![c] = @ \cup {Layer(c)}]
           /\ UNCHANGED <<stage, budget>>
  <2> DEFINE q == [session[c] EXCEPT !.user = TRUE]
  <2>1. q \in SessionType
    BY Types, ZenonT(30) DEF SessionType
  <2>2. q.tls = session[c].tls
    BY Types DEF SessionType
  <2>3. q.cert = session[c].cert
    BY Types DEF SessionType
  <2>4. q.trx = session[c].trx
    BY Types DEF SessionType
  <2>5. q.user = TRUE
    BY Types DEF SessionType
  <2>6. q.from = session[c].from /\ q.rcpts = session[c].rcpts
    BY Types DEF SessionType
  <2>7. session' = [session EXCEPT ![c] = q] /\ view' = [view EXCEPT ![c] = view[c]]
    BY <1>1, <1>2, Types
  <2> HIDE DEF q
  <2>8. session'[c] = q /\ view'[c] = view[c] /\ stage'[c] = "ready"
    BY <1>1, <1>2, <2>7, Types
  <2>9. Layer(c)' = Layer(c) /\ Layer(c) \in {"plain", "tls"}
    BY <2>2, <2>8 DEF Layer
  <2>10. proved'[c] = proved[c] \cup {Layer(c)} /\ proved' \in [Conns -> SUBSET {"plain", "tls"}]
    BY <1>2, <2>9, Types
  <2>11. Entitled(session[c]) => Entitled(session[c])'
    <3>1. ~authRequiredAndMissing(session[c])'
      BY <1>1, <2>5, <2>8 DEF authRequiredAndMissing, ByPassword, EffectiveAuthMode
    <3>2. (cfg.requireTLS => session[c].tls) => (cfg'.requireTLS => session'[c].tls)
      BY <1>1, <2>2, <2>8, Zenon
    <3>3. EffectiveMaxRecipients(cfg)' = EffectiveMaxRecipients(cfg)
      BY <1>1 DEF EffectiveMaxRecipients
    <3>4. session'[c].from = session[c].from /\ session'[c].rcpts = session[c].rcpts
      BY <2>6, <2>8
    <3>5. QED
      BY <1>1, <3>1, <3>2, <3>3, <3>4 DEF Entitled
  <2>12. ByPassword(cfg)' /\ (ByCert(cfg) => ByCert(cfg)')
    BY <1>1 DEF ByPassword, ByCert, EffectiveAuthMode
  <2>13. Sane(c)'
    <3>1. view'[c] = [from |-> session'[c].from, rcpts |-> session'[c].rcpts]
      BY <2>6, <2>8, Types DEF Sane
    <3>2. session'[c].cert => ByCert(cfg)'
      <4>1. session[c].cert => ByCert(cfg)
        BY Types DEF Sane
      <4>2. QED
        BY <2>3, <2>8, <2>12, <4>1, Zenon
    <3>3. session'[c].trx => Entitled(session[c])'
      <4>1. session[c].trx => Entitled(session[c])
        BY Types DEF Sane
      <4>2. QED
        BY <2>4, <2>8, <2>11, <4>1, Zenon
    <3>4. Layer(c)' \in proved'[c]
      BY <2>9, <2>10
    <3>5. QED
      BY <2>8, <2>12, <3>1, <3>2, <3>3, <3>4 DEF Sane
  <2>14. Goes(c, "ready") /\ "ready" \in Stages
    BY <1>1, <1>2, Types DEF Goes, Stages
  <2>15. \A d \in Conns \ {c} : proved'[d] = proved[d]
    BY <1>2, Types
  <2>16. QED
    BY <1>1, <1>2, <2>1, <2>7, <2>10, <2>13, <2>14, <2>15, Types, Becomes
<1>3. CASE authFailed(c) /\ UNCHANGED <<session, proved>>
  <2>1. stage'[c] \notin {"body", "sending"} /\ \A d \in Conns \ {c} : stage'[d] = stage[d]
    BY <1>1, <1>3, FailureCounted
  <2>2. \A d \in Conns : Apart(d)
    BY <1>1, <1>3, <2>1 DEF Apart
  <2>3. SessionTypeOK'
    BY <1>1, <1>3, FailureCounted DEF SessionIInv, SessionTypeOK
  <2>4. QED
    BY <1>1, <1>3, <2>2, <2>3, FailureCounted, ApartSane, Frame, Types
<1>4. QED
  BY <1>2, <1>3 DEF handleAUTH

\* The configuration's own terms do not move.
LEMMA Fixed ==
  ASSUME cfg' = cfg
  PROVE  /\ EffectiveMaxRecipients(cfg)' = EffectiveMaxRecipients(cfg)
         /\ ByCert(cfg)' = ByCert(cfg) /\ ByPassword(cfg)' = ByPassword(cfg)
         /\ EffectiveAuthMode(cfg)' = EffectiveAuthMode(cfg)
  BY DEF EffectiveMaxRecipients, ByCert, ByPassword, EffectiveAuthMode

\* Who the client is stays as it was; only the transaction changes.
SameClient(c) ==
  /\ session'[c].tls = session[c].tls /\ session'[c].user = session[c].user
  /\ session'[c].cert = session[c].cert

LEMMA ClientKept ==
  ASSUME SessionIInv, NEW c \in Conns, SameClient(c), cfg' = cfg, proved'[c] = proved[c]
  PROVE  /\ session'[c].user => ByPassword(cfg)' /\ Layer(c)' \in proved'[c]
         /\ session'[c].cert => ByCert(cfg)'
         /\ Layer(c)' = Layer(c)
         /\ authRequiredAndMissing(session[c])' = authRequiredAndMissing(session[c])
         /\ (cfg.requireTLS => session[c].tls) => (cfg'.requireTLS => session'[c].tls)
<1>1. Layer(c)' = Layer(c)
  BY DEF Layer, SameClient
<1>2. /\ session[c].user => ByPassword(cfg) /\ Layer(c) \in proved[c]
      /\ session[c].cert => ByCert(cfg)
  BY Types DEF Sane
<1>3. session'[c].user => ByPassword(cfg)' /\ Layer(c)' \in proved'[c]
  BY <1>1, <1>2, Fixed, Zenon DEF SameClient
<1>4. session'[c].cert => ByCert(cfg)'
  BY <1>2, Fixed, Zenon DEF SameClient
<1>5. authRequiredAndMissing(session[c])' = authRequiredAndMissing(session[c])
  BY Fixed DEF authRequiredAndMissing, SameClient
<1>6. (cfg.requireTLS => session[c].tls) => (cfg'.requireTLS => session'[c].tls)
  BY Zenon DEF SameClient
<1>7. QED
  BY <1>1, <1>3, <1>4, <1>5, <1>6

LEMMA StepMAIL == ASSUME SessionIInv, NEW c \in Conns, handleMAIL(c) PROVE SessionIInv'
<1> DEFINE r == resetTransaction(session[c])
<1>1. PICK a \in Addrs \cap cfg.senders :
        /\ session' = [session EXCEPT ![c] = [r EXCEPT !.trx = TRUE, !.from = a]]
        /\ view' = [view EXCEPT ![c] = [from |-> a, rcpts |-> <<>>]]
  BY DEF handleMAIL
<1> DEFINE q == [r EXCEPT !.trx = TRUE, !.from = a]
<1>2. /\ stage[c] = "ready" /\ (cfg.requireTLS => session[c].tls) /\ ~authRequiredAndMissing(session[c])
      /\ UNCHANGED <<cfg, stage, silent, budget, proved, handed>>
  BY DEF handleMAIL, Hears
<1>3. /\ r \in SessionType /\ r.rcpts = <<>> /\ r.tls = session[c].tls /\ r.user = session[c].user
      /\ r.cert = session[c].cert
  BY Types, Resets
<1> HIDE DEF r
<1>4. q \in SessionType
  BY <1>3 DEF SessionType
<1>5. q.tls = r.tls
  BY <1>3 DEF SessionType
<1>6. q.user = r.user
  BY <1>3 DEF SessionType
<1>7. q.cert = r.cert
  BY <1>3 DEF SessionType
<1>8. q.trx = TRUE /\ q.from = a /\ q.rcpts = <<>>
  BY <1>3 DEF SessionType
<1>9. session' = [session EXCEPT ![c] = q]
  BY <1>1
<1> HIDE DEF q
<1>10. session'[c] = q /\ view'[c] = [from |-> a, rcpts |-> <<>>] /\ stage'[c] = "ready" /\ proved'[c] = proved[c]
  BY <1>1, <1>2, <1>9, Types
<1>11. SameClient(c)
  BY <1>3, <1>5, <1>6, <1>7, <1>10, Zenon DEF SameClient
<1>12. Entitled(session[c])'
  <2>1. ToSet(<<>>) = {} /\ Len(<<>>) = 0
    BY DEF ToSet
  <2>2. EffectiveMaxRecipients(cfg)' \in Nat
    BY <1>2, Fixed, CapIsNat DEF SessionIInv
  <2>3. ~authRequiredAndMissing(session[c])' /\ (cfg'.requireTLS => session'[c].tls)
    BY <1>2, <1>10, <1>11, ClientKept
  <2>4. session'[c].from \in cfg'.senders /\ session'[c].rcpts = <<>>
    BY <1>2, <1>8, <1>10
  <2>5. QED
    BY <2>1, <2>2, <2>3, <2>4 DEF Entitled
<1>13. Sane(c)'
  <2>1. view'[c] = [from |-> session'[c].from, rcpts |-> session'[c].rcpts]
    BY <1>8, <1>10
  <2>2. QED
    BY <1>2, <1>10, <1>11, <1>12, <2>1, ClientKept DEF Sane
<1>14. Goes(c, "ready") /\ "ready" \in Stages /\ [from |-> a, rcpts |-> <<>>] \in ViewType
  BY <1>2, Types DEF Goes, Stages, ViewType
<1>15. QED
  BY <1>1, <1>2, <1>4, <1>9, <1>13, <1>14, Types, Becomes

\* A recipient more is one more, and no other.
LEMMA AppendAdds ==
  ASSUME NEW S, NEW seq \in Seq(S), NEW e \in S
  PROVE  /\ Len(Append(seq, e)) = Len(seq) + 1 /\ Len(seq) \in Nat
         /\ ToSet(Append(seq, e)) \subseteq ToSet(seq) \cup {e}
<1>1. Len(Append(seq, e)) = Len(seq) + 1 /\ Len(seq) \in Nat
  OBVIOUS
<1>2. ASSUME NEW i \in DOMAIN Append(seq, e) PROVE Append(seq, e)[i] \in ToSet(seq) \cup {e}
  <2>1. i \in 1 .. Len(seq) + 1 /\ DOMAIN seq = 1 .. Len(seq)
    BY <1>1
  <2>2. CASE i \in DOMAIN seq
    <3>1. Append(seq, e)[i] = seq[i]
      BY <2>1, <2>2
    <3>2. QED
      BY <2>2, <3>1 DEF ToSet
  <2>3. CASE i = Len(seq) + 1
    BY <2>3
  <2>4. QED
    BY <1>1, <2>1, <2>2, <2>3
<1>3. QED
  BY <1>1, <1>2 DEF ToSet

LEMMA StepRCPT == ASSUME SessionIInv, NEW c \in Conns, handleRCPT(c) PROVE SessionIInv'
<1> DEFINE cap == EffectiveMaxRecipients(cfg)
<1>1. PICK a \in IF cfg.rcpts = {} THEN Addrs ELSE Addrs \cap cfg.rcpts :
        /\ session' = [session EXCEPT ![c].rcpts = Append(@, a)]
        /\ view' = [view EXCEPT ![c].rcpts = Append(@, a)]
  BY DEF handleRCPT
<1>2. /\ stage[c] = "ready" /\ session[c].trx /\ (cap > 0 => Len(session[c].rcpts) < cap)
      /\ UNCHANGED <<cfg, stage, silent, budget, proved, handed>>
  BY DEF handleRCPT, Hears
<1> DEFINE q == [session[c] EXCEPT !.rcpts = Append(session[c].rcpts, a)]
           v == [view[c] EXCEPT !.rcpts = Append(view[c].rcpts, a)]
<1>3. a \in Addrs /\ (cfg.rcpts # {} => a \in cfg.rcpts) /\ session[c].rcpts \in Seq(Addrs)
      /\ view[c].rcpts \in Seq(Addrs) /\ view[c].rcpts = session[c].rcpts /\ view[c].from = session[c].from
  <2>1. session[c].rcpts \in Seq(Addrs) /\ view[c].rcpts \in Seq(Addrs)
    BY Types DEF SessionType, ViewType
  <2>2. view[c].rcpts = session[c].rcpts /\ view[c].from = session[c].from
    <3>1. view[c] = [from |-> session[c].from, rcpts |-> session[c].rcpts]
      BY Types DEF Sane
    <3>2. QED
      BY <3>1
  <2>3. a \in Addrs /\ (cfg.rcpts # {} => a \in cfg.rcpts)
    BY <1>1
  <2>4. QED
    BY <2>1, <2>2, <2>3
<1>4. q \in SessionType
  <2>1. Append(session[c].rcpts, a) \in Seq(Addrs)
    BY <1>3
  <2>2. QED
    BY <2>1, Types, ZenonT(30) DEF SessionType
<1>5. v \in ViewType /\ v.from = view[c].from /\ v.rcpts = Append(view[c].rcpts, a)
  <2>1. Append(view[c].rcpts, a) \in Seq(Addrs)
    BY <1>3
  <2>2. QED
    BY <2>1, Types DEF ViewType
<1>6. q.tls = session[c].tls
  BY Types DEF SessionType
<1>7. q.user = session[c].user
  BY Types DEF SessionType
<1>8. q.cert = session[c].cert
  BY Types DEF SessionType
<1>9. q.trx = session[c].trx
  BY Types DEF SessionType
<1>10. q.from = session[c].from /\ q.rcpts = Append(session[c].rcpts, a)
  BY Types DEF SessionType
<1>11. session' = [session EXCEPT ![c] = q] /\ view' = [view EXCEPT ![c] = v]
  BY <1>1, Types
<1> HIDE DEF q, v, cap
<1>12. session'[c] = q /\ view'[c] = v /\ stage'[c] = "ready" /\ proved'[c] = proved[c]
  BY <1>2, <1>11, Types
<1>13. SameClient(c)
  BY <1>6, <1>7, <1>8, <1>12, Zenon DEF SameClient
<1>14. Entitled(session[c])'
  <2>1. Entitled(session[c])
    BY <1>2, Types DEF Sane
  <2>2. ~authRequiredAndMissing(session[c])' /\ (cfg'.requireTLS => session'[c].tls)
    BY <1>2, <1>12, <1>13, <2>1, ClientKept DEF Entitled
  <2>3. session'[c].from \in cfg'.senders /\ session'[c].rcpts = Append(session[c].rcpts, a)
    BY <1>2, <1>10, <1>12, <2>1 DEF Entitled
  <2>4. cap \in Nat /\ (cap = 0 => cfg.rcpts # {}) /\ EffectiveMaxRecipients(cfg)' = cap
    BY <1>2, Fixed, CapIsNat DEF SessionIInv, cap
  <2>5. /\ Len(Append(session[c].rcpts, a)) = Len(session[c].rcpts) + 1
        /\ Len(session[c].rcpts) \in Nat
        /\ ToSet(Append(session[c].rcpts, a)) \subseteq ToSet(session[c].rcpts) \cup {a}
    BY <1>3, AppendAdds
  <2>6. Len(session'[c].rcpts) <= cap \/ (cap = 0 /\ cfg.rcpts # {})
    BY <1>2, <2>3, <2>4, <2>5
  <2>7. cfg.rcpts # {} => ToSet(session'[c].rcpts) \subseteq cfg.rcpts
    BY <1>3, <2>1, <2>3, <2>5 DEF Entitled
  <2>8. QED
    BY <1>2, <2>2, <2>3, <2>4, <2>6, <2>7 DEF Entitled
<1>15. Sane(c)'
  <2>1. view'[c] = [from |-> session'[c].from, rcpts |-> session'[c].rcpts]
    BY <1>3, <1>5, <1>10, <1>12 DEF ViewType
  <2>2. QED
    BY <1>2, <1>12, <1>13, <1>14, <2>1, ClientKept DEF Sane
<1>16. Goes(c, "ready") /\ "ready" \in Stages
  BY <1>2, Types DEF Goes, Stages
<1>17. QED
  BY <1>2, <1>4, <1>5, <1>11, <1>15, <1>16, Types, Becomes

\* RSET, a body that is turned down and an answer all end the transaction.
Ends(c) ==
  /\ Goes(c, "ready") /\ stage[c] \in {"ready", "body", "sending"}
  /\ session' = [session EXCEPT ![c] = resetTransaction(@)]
  /\ view' = [view EXCEPT ![c] = NoView]
  /\ handed' \in {handed, [handed EXCEPT ![c] = Nothing]}
  /\ UNCHANGED <<cfg, silent, budget, proved>>

LEMMA StepEnds == ASSUME SessionIInv, NEW c \in Conns, Ends(c) PROVE SessionIInv'
<1> DEFINE q == resetTransaction(session[c])
<1>1. /\ q \in SessionType /\ q.trx = FALSE /\ q.from = Nobody /\ q.rcpts = <<>>
      /\ q.tls = session[c].tls /\ q.user = session[c].user /\ q.cert = session[c].cert
  BY Types, Resets
<1>2. session' = [session EXCEPT ![c] = q] /\ view' = [view EXCEPT ![c] = NoView]
  BY DEF Ends
<1> HIDE DEF q
<1>3. session'[c] = q /\ view'[c] = NoView /\ stage'[c] = "ready" /\ proved'[c] = proved[c]
  BY <1>2, Types DEF Ends, Goes
<1>4. SameClient(c)
  BY <1>1, <1>3, Zenon DEF SameClient
<1>5. Sane(c)'
  <2>1. view'[c] = [from |-> session'[c].from, rcpts |-> session'[c].rcpts] /\ ~session'[c].trx
    BY <1>1, <1>3 DEF NoView
  <2>2. QED
    BY <1>3, <1>4, <2>1, ClientKept DEF Sane, Ends
<1>6. DOMAIN handed' = Conns /\ \A d \in Conns \ {c} : handed'[d] = handed[d]
  <2>1. CASE handed' = handed
    BY <2>1, Types
  <2>2. CASE handed' = [handed EXCEPT ![c] = Nothing]
    BY <2>2, Types, Zenon
  <2>3. QED
    BY <2>1, <2>2 DEF Ends
<1>7. Goes(c, "ready") /\ "ready" \in Stages
  BY DEF Ends, Stages
<1>8. QED
  BY <1>1, <1>2, <1>5, <1>6, <1>7, Types, Becomes DEF Ends

\* Only the goroutine moves, and not into a body or a send.
LEMMA StepMoves ==
  ASSUME SessionIInv, NEW c \in Conns, NEW s \in Stages \ {"body", "sending"}, Goes(c, s),
         UNCHANGED <<cfg, session, silent, budget, proved, view, handed>>
  PROVE  SessionIInv'
<1>1. SessionTypeOK'
  BY DEF SessionIInv, SessionTypeOK, Goes, budget
<1>2. Accounted'
  BY AccountedSame DEF SessionIInv
<1>3. \A d \in Conns : Apart(d)
  BY Types DEF Apart, Goes
<1>4. QED
  BY <1>1, <1>2, <1>3, ApartSane, Frame, Types

LEMMA StepDATA == ASSUME SessionIInv, NEW c \in Conns, handleDATA(c) PROVE SessionIInv'
<1>1. /\ session[c].trx /\ Goes(c, "body") /\ UNCHANGED <<cfg, session, silent, budget, proved, view, handed>>
      /\ stage'[c] = "body"
  BY Types DEF handleDATA, Goes
<1>2. SessionTypeOK' /\ Accounted'
  BY <1>1, AccountedSame DEF SessionIInv, SessionTypeOK, Goes, budget, Stages
<1>3. \A d \in Conns \ {c} : Apart(d)
  BY <1>1, Types DEF Apart, Goes
<1>4. Sane(c)'
  BY <1>1, Types, Fixed DEF Sane, Layer, Entitled, authRequiredAndMissing
<1>5. QED
  BY <1>1, <1>2, <1>3, <1>4, Frame, Types

LEMMA StepHandOver == ASSUME SessionIInv, NEW c \in Conns, HandOver(c) PROVE SessionIInv'
<1>1. /\ stage[c] = "body" /\ Goes(c, "sending") /\ UNCHANGED <<cfg, session, silent, budget, proved, view>>
      /\ stage'[c] = "sending" /\ DOMAIN handed' = Conns /\ \A d \in Conns \ {c} : handed'[d] = handed[d]
      /\ handed'[c] = [from |-> session[c].from, to |-> session[c].rcpts, asked |-> view[c],
                       layer |-> Layer(c), proved |-> proved[c], cert |-> session[c].cert]
  BY Types DEF HandOver, Goes
<1>2. SessionTypeOK' /\ Accounted'
  BY <1>1, AccountedSame DEF SessionIInv, SessionTypeOK, Goes, budget, Stages
<1>3. \A d \in Conns \ {c} : Apart(d)
  BY <1>1, Types DEF Apart, Goes
<1>4. Sane(c)'
  BY <1>1, Types, Fixed DEF Sane, Layer, Entitled, authRequiredAndMissing
<1>5. QED
  BY <1>1, <1>2, <1>3, <1>4, Frame, Types

LEMMA StepFallSilent == ASSUME SessionIInv, NEW c \in Conns, FallSilent(c) PROVE SessionIInv'
<1>1. UNCHANGED <<cfg, stage, session, budget, proved, view, handed>> /\ silent' = [silent EXCEPT ![c] = TRUE]
  BY DEF FallSilent
<1>2. SessionTypeOK' /\ Accounted'
  BY <1>1, AccountedSame DEF SessionIInv, SessionTypeOK, budget
<1>3. \A d \in Conns : Apart(d)
  BY <1>1 DEF Apart
<1>4. QED
  BY <1>1, <1>2, <1>3, ApartSane, Frame, Types

LEMMA StepRefill == ASSUME SessionIInv, NEW c \in Conns, Refill(IpOf[c]) PROVE SessionIInv'
<1>1. UNCHANGED <<cfg, stage, session, silent, proved, view, handed, misses>>
  BY DEF Refill
<1>2. IpOf[c] \in Ips
  BY DEF Ips
<1>3. SessionTypeOK' /\ Accounted'
  <2> DEFINE ip == IpOf[c]
  <2>1. /\ tokens \in [Ips -> 0 .. AuthBudget] /\ refills \in [Ips -> 0 .. MaxRefills]
        /\ \A i \in Ips : Cardinality(Guesses(i)) + tokens[i] = AuthBudget + refills[i]
        /\ \A i \in Ips : Cardinality(Guesses(i)) \in Nat
    BY GuessesFinite DEF SessionIInv, SessionTypeOK, Accounted
  <2>2. /\ tokens[ip] < AuthBudget /\ refills[ip] < MaxRefills
        /\ tokens' = [tokens EXCEPT ![ip] = @ + 1] /\ refills' = [refills EXCEPT ![ip] = @ + 1]
    BY DEF Refill
  <2> HIDE DEF ip
  <2>0. ip \in Ips
    BY <1>2 DEF ip
  <2>a. tokens[ip] + 1 \in 0 .. AuthBudget /\ refills[ip] + 1 \in 0 .. MaxRefills
    BY <2>0, <2>1, <2>2
  <2>3. tokens' \in [Ips -> 0 .. AuthBudget] /\ refills' \in [Ips -> 0 .. MaxRefills]
    BY <2>1, <2>2, <2>a
  <2>4. \A i \in Ips : Guesses(i)' = Guesses(i)
    BY <1>1 DEF Guesses
  <2>5. \A i \in Ips : Cardinality(Guesses(i)') + tokens'[i] = AuthBudget + refills'[i]
    BY <2>0, <2>1, <2>2, <2>4
  <2>6. Accounted'
    BY <2>5 DEF Accounted
  <2>7. QED
    BY <1>1, <2>3, <2>6 DEF SessionIInv, SessionTypeOK
<1>4. \A d \in Conns : Apart(d)
  BY <1>1 DEF Apart
<1>5. QED
  BY <1>1, <1>3, <1>4, ApartSane, Frame, Types

LEMMA StepSays == ASSUME SessionIInv, NEW c \in Conns, Says(c) PROVE SessionIInv'
<1>1. CASE handleRSET(c)
  <2>1. Ends(c)
    BY <1>1, Types DEF handleRSET, Ends, Hears, Goes
  <2>2. QED
    BY <2>1, StepEnds
<1>2. CASE Quit(c)
  <2>1. "closing" \in Stages \ {"body", "sending"}
    BY DEF Stages
  <2>2. QED
    BY <1>2, <2>1, StepMoves DEF Quit
<1>3. QED
  BY <1>1, <1>2, StepSTARTTLS, StepAUTH, StepMAIL, StepRCPT, StepDATA, StepFallSilent DEF Says

-----------------------------------------------------------------------------
(* The process opens and closes sessions; otherwise it leaves them alone. *)

LEMMA StepOpens ==
  ASSUME SessionIInv, NEW c \in Conns, Accept(c) \/ acquireConnSlot(c) \/ (Register /\ c = held)
  PROVE  SessionIInv'
<1>1. \E s \in Stages \ {"body", "sending"} : Goes(c, s)
  BY DEF Accept, acquireConnSlot, Register, Stages
<1>2. UNCHANGED <<cfg, session, silent, budget, proved, view, handed>>
  BY DEF Accept, acquireConnSlot, Register
<1>3. QED
  BY <1>1, <1>2, StepMoves

LEMMA StepCloses == ASSUME SessionIInv, NEW c \in Conns, handleConnectionEnds(c) PROVE SessionIInv'
<1>1. /\ session' = [session EXCEPT ![c] = newSession] /\ silent' = [silent EXCEPT ![c] = FALSE]
      /\ proved' = [proved EXCEPT ![c] = {}] /\ view' = [view EXCEPT ![c] = NoView]
      /\ Goes(c, "gone") /\ UNCHANGED <<cfg, budget, handed>>
  BY DEF handleConnectionEnds
<1>2. SessionTypeOK' /\ Accounted'
  BY <1>1, AccountedSame, Fresh DEF SessionIInv, SessionTypeOK, SessionType, Goes, budget, Stages
<1>3. /\ \A d \in Conns \ {c} : Apart(d)
      /\ session'[c] = newSession /\ view'[c] = NoView /\ stage'[c] = "gone"
  BY <1>1, Types DEF Apart, Goes
<1>4. Sane(c)'
  BY <1>3 DEF Sane, newSession, NoView
<1>5. QED
  BY <1>1, <1>2, <1>3, <1>4, Frame, Types

LEMMA StepSame == ASSUME SessionIInv, UNCHANGED sessionVars PROVE SessionIInv'
  BY ZenonT(60) DEF SessionIInv, SessionTypeOK, Valid, Accounted, Guesses, Sane, Layer, Entitled, authRequiredAndMissing,
         EffectiveMaxRecipients, EffectiveAuthMode, ByPassword, ByCert, NeedsTLS, sessionVars, budget

LEMMA StepSession == ASSUME SessionIInv, NEW c \in Conns, Session(c) PROVE SessionIInv'
<1>1. CASE SendEnds(c) \/ RejectBody(c)
  <2>1. Ends(c)
    BY <1>1 DEF SendEnds, Answer, RejectBody, EndTransaction, Ends
  <2>2. QED
    BY <2>1, StepEnds
<1>2. CASE IdleTimeout(c)
  <2>1. "closing" \in Stages \ {"body", "sending"}
    BY DEF Stages
  <2>2. QED
    BY <1>2, <2>1, StepMoves DEF IdleTimeout
<1>3. QED
  BY <1>1, <1>2, StepOpens, StepCloses DEF Session

LEMMA SessionsKept ==
  ASSUME SessionIInv, [Next]_serveVars, loop = "holding" => held \in Conns PROVE SessionIInv'
<1>1. ASSUME NEW c \in Conns, Accept(c) \/ Session(c) \/ SendBegins(c) PROVE SessionIInv'
  BY <1>1, StepOpens, StepSession, StepHandOver DEF SendBegins
<1>2. CASE Register
  BY <1>2, StepOpens DEF Register
<1>3. CASE Client
  BY <1>3, StepSays, StepRefill DEF Client
<1>4. CASE UNCHANGED sessionVars
  BY <1>4, StepSame
<1>5. QED
  BY <1>1, <1>2, <1>3, <1>4
     DEF Next, Runs, Bind, AcceptEnds, ListenAndServe, Request, Handle, Respond, Signal, IngressFails, ForceExit,
         Drain, SmtpStop, HttpStop, Exit, Tick, serveVars

-----------------------------------------------------------------------------
(* The process: who is counted where, and what a Stop that has returned    *)
(* says of the rest.                                                       *)

SeatedStages == {"ready", "body", "sending", "closing"}
Counted      == {c \in Conns : stage[c] \in SeatedStages \cup {"counted", "refused"}}

ProcessTypes ==
  /\ active \in Nat /\ perIP \in [Ips -> Nat] /\ wg \in Nat
  /\ loop \in {"unbound", "accepting", "holding", "returned", "error"} /\ held \in Conns \cup {Nobody}
  /\ http \in {"unbound", "serving", "returned", "error"}
  /\ req \in [Reqs -> {"none", "reading", "sending", "done"}]
  /\ smtpStop \in {"no", "waiting", "done", "late"} /\ httpStop \in {"no", "waiting", "done", "late"}
  /\ main \in {"running", "stopping"} /\ exit \in {"none", "0", "1", "forced"}
  /\ clock \in 0 .. Deadline /\ left \in [Conns \cup Reqs -> 0 .. SendMax]
  /\ signals \in Nat /\ failures \in Nat
  /\ latecomers \subseteq Conns /\ early \subseteq Conns \cup Reqs

\* A connection that is accepted and not yet counted is the one the loop holds.
Doorway ==
  /\ loop = "holding" => held \in Conns /\ stage[held] = "accepted"
  /\ \A c \in Conns : stage[c] = "accepted" => loop = "holding" /\ held = c

Counts == SlotsExact /\ wg = Cardinality(Counted)

\* What each Stop has seen to, and when.
Clocked ==
  /\ smtpStop # "no" \/ httpStop # "no" => main = "stopping"
  /\ main = "running" => clock = 0 /\ early = {}
  /\ "late" \in {smtpStop, httpStop} => clock = Deadline

HttpDone == httpStop = "done" => \A r \in Reqs : req[r] \in {"none", "done"}

SmtpDone ==
  /\ smtpStop # "done" => latecomers = {}
  /\ smtpStop = "done" => /\ Counted \subseteq latecomers /\ early \cap Conns = {}
                          /\ \A c, d \in latecomers : c = d
                          /\ loop = "holding" => latecomers = {}

Stops == Clocked /\ HttpDone /\ SmtpDone

\* A send that was under way at the signal ends in time.
EarlySends == \A s \in early : s \in InProgress /\ left[s] + clock <= SendMax

Ended ==
  /\ exit = "0" => smtpStop = "done" /\ httpStop = "done"
  /\ exit = "1" => \/ main = "running" /\ "error" \in {loop, http}
                   \/ /\ smtpStop \in {"done", "late"} /\ httpStop \in {"done", "late"}
                      /\ "late" \in {smtpStop, httpStop}

IInv == SessionIInv /\ ProcessTypes /\ Doorway /\ Counts /\ Stops /\ EarlySends /\ Ended

LEMMA InitProcess == Init => ProcessTypes /\ Doorway /\ Counts /\ Stops /\ EarlySends /\ Ended
<1> SUFFICES ASSUME Init PROVE ProcessTypes /\ Doorway /\ Counts /\ Stops /\ EarlySends /\ Ended
  OBVIOUS
<1>1. PICK k \in Cases : /\ SessionInit(k.cfg, k.conns) /\ signals = k.signals /\ failures = k.failures
                         /\ req = [r \in Reqs |-> IF r \in k.reqs THEN "none" ELSE "done"]
  BY DEF Init
<1>2. \A c \in Conns : stage[c] \in {"none", "gone"}
  BY <1>1 DEF SessionInit
<1>3. Seated = {} /\ Counted = {} /\ \A ip \in Ips : {c \in Seated : IpOf[c] = ip} = {}
  BY <1>2 DEF Seated, Counted, SeatedStages
<1>4. cfg \in Configs /\ cfg.maxConns \in Int /\ cfg.maxPerIP \in Int
  BY <1>1 DEF SessionInit
<1>5. EffectiveMaxConnections(cfg) >= 0 /\ EffectiveMaxConnectionsPerIP(cfg) >= 0
  BY <1>4 DEF EffectiveMaxConnections, EffectiveMaxConnectionsPerIP
<1>6. active = 0 /\ perIP = [i \in Ips |-> 0] /\ wg = 0
  BY DEF Init
<1>7. Counts
  BY <1>3, <1>5, <1>6, FS_EmptySet DEF Counts, SlotsExact
<1>8. signals \in Nat /\ failures \in Nat
  BY <1>1
<1>9. ProcessTypes
  BY <1>1, <1>6, <1>8 DEF Init, ProcessTypes
<1>10. Doorway /\ Stops /\ EarlySends /\ Ended
  BY <1>2 DEF Init, Doorway, Stops, Clocked, HttpDone, SmtpDone, EarlySends, Ended
<1>11. QED
  BY <1>7, <1>9, <1>10

\* A connection more or less in a set counted.
LEMMA OneMore ==
  ASSUME NEW S \in SUBSET Conns, NEW T, NEW c \in Conns
  PROVE  /\ Cardinality(S) \in Nat
         /\ c \notin S /\ T = S \cup {c} => Cardinality(T) = Cardinality(S) + 1
         /\ c \in S /\ T = S \ {c} => Cardinality(T) = Cardinality(S) - 1 /\ Cardinality(S) > 0
<1>1. IsFiniteSet(S)
  BY FS_Subset
<1>2. Cardinality(S) \in Nat /\ Cardinality(S \ {c}) \in Nat
  BY <1>1, FS_CardinalityType, FS_RemoveElement
<1>3. c \notin S => Cardinality(S \cup {c}) = Cardinality(S) + 1
  BY <1>1, FS_AddElement
<1>4. c \in S => Cardinality(S \ {c}) = Cardinality(S) - 1
  BY <1>1, FS_RemoveElement
<1>5. ASSUME c \notin S, T = S \cup {c} PROVE Cardinality(T) = Cardinality(S) + 1
  BY <1>3, <1>5
<1>6. ASSUME c \in S, T = S \ {c} PROVE Cardinality(T) = Cardinality(S) - 1 /\ Cardinality(S) > 0
  <2>1. Cardinality(T) = Cardinality(S \ {c})
    BY <1>6
  <2>2. QED
    BY <1>2, <1>4, <1>6, <2>1
<1>7. QED
  BY <1>2, <1>5, <1>6

\* Steps that neither seat nor unseat a connection.
Quiet ==
  /\ UNCHANGED <<cfg, active, perIP, wg>>
  /\ \A c \in Conns : \/ stage'[c] = stage[c]
                      \/ stage[c] \in SeatedStages /\ stage'[c] \in SeatedStages
                      \/ stage[c] = "none" /\ stage'[c] = "accepted"

LEMMA QuietSets == ASSUME Quiet PROVE Seated' = Seated /\ Counted' = Counted
<1>1. \A c \in Conns : stage'[c] \in SeatedStages <=> stage[c] \in SeatedStages
  BY DEF Quiet, SeatedStages
<1>2. \A c \in Conns : stage'[c] \in {"counted", "refused"} <=> stage[c] \in {"counted", "refused"}
  BY DEF Quiet, SeatedStages
<1>3. QED
  BY <1>1, <1>2 DEF Seated, Counted, SeatedStages

\* What the steps of a session do to its goroutine.
Talks(c) ==
  \A d \in Conns : \/ stage'[d] = stage[d]
                   \/ d = c /\ stage[d] \in {"ready", "body"} /\ stage'[d] \in SeatedStages

LEMMA SaysTalks ==
  ASSUME SessionIInv, NEW c \in Conns,
         Says(c) \/ Refill(IpOf[c]) \/ HandOver(c) \/ RejectBody(c) \/ IdleTimeout(c)
  PROVE  Talks(c) /\ cfg' = cfg
<1>1. cfg' = cfg
  BY DEF Says, handleSTARTTLS, handleAUTH, handleMAIL, handleRCPT, handleRSET, handleDATA, Quit, FallSilent,
         Refill, HandOver, RejectBody, IdleTimeout, EndTransaction
<1>2. CASE handleAUTH(c)
  <2>1. stage[c] = "ready" /\ (UNCHANGED stage \/ authFailed(c))
    BY <1>2 DEF handleAUTH, Hears
  <2>2. CASE UNCHANGED stage
    BY <1>1, <2>2 DEF Talks
  <2>3. CASE authFailed(c)
    <3>1. stage'[c] \in {"ready", "closing"} /\ \A d \in Conns \ {c} : stage'[d] = stage[d]
      BY <2>1, <2>3, FailureCounted
    <3>2. QED
      BY <1>1, <2>1, <3>1 DEF Talks, SeatedStages
  <2>4. QED
    BY <2>1, <2>2, <2>3
<1>3. CASE handleSTARTTLS(c) \/ handleMAIL(c) \/ handleRCPT(c) \/ handleRSET(c) \/ FallSilent(c) \/ Refill(IpOf[c])
  <2>1. UNCHANGED stage
    BY <1>3 DEF handleSTARTTLS, handleMAIL, handleRCPT, handleRSET, FallSilent, Refill
  <2>2. QED
    BY <1>1, <2>1 DEF Talks
<1>4. CASE handleDATA(c) \/ Quit(c) \/ HandOver(c) \/ RejectBody(c) \/ IdleTimeout(c)
  <2>1. stage[c] \in {"ready", "body"} /\ \E s \in SeatedStages : Goes(c, s)
    BY <1>4 DEF handleDATA, Quit, HandOver, RejectBody, IdleTimeout, EndTransaction, Hears, SeatedStages
  <2>2. PICK s \in SeatedStages : stage' = [stage EXCEPT ![c] = s]
    BY <2>1 DEF Goes
  <2>3. stage'[c] = s /\ \A d \in Conns \ {c} : stage'[d] = stage[d]
    BY <2>2, Types
  <2>4. QED
    BY <1>1, <2>1, <2>3 DEF Talks
<1>5. QED
  BY <1>1, <1>2, <1>3, <1>4 DEF Says

LEMMA TalksQuiet ==
  ASSUME NEW c \in Conns, Talks(c), UNCHANGED <<cfg, active, perIP, wg>> PROVE Quiet
  BY DEF Talks, Quiet, SeatedStages

\* All but three of the steps.
Lapses(c) == (RejectBody(c) \/ IdleTimeout(c)) /\ UNCHANGED <<slots, listener, server, process, sends>>

Other ==
  \/ \E c \in Conns : Accept(c) \/ SendBegins(c) \/ SendEnds(c) \/ Lapses(c)
  \/ Bind \/ AcceptEnds \/ Client \/ ListenAndServe \/ (\E r \in Reqs : Request(r) \/ Handle(r) \/ Respond(r))
  \/ Signal \/ IngressFails \/ ForceExit \/ SmtpStop \/ HttpStop \/ Exit \/ Tick

LEMMA NextIs ==
  ASSUME Next
  PROVE  exit = "none" /\ \/ Other \/ Register
                          \/ \E c \in Conns : acquireConnSlot(c) \/ handleConnectionEnds(c)
<1>1. ASSUME NEW c \in Conns, Session(c) PROVE Other \/ acquireConnSlot(c) \/ handleConnectionEnds(c)
  BY <1>1, Zenon DEF Session, Lapses, Other
<1>2. ASSUME NEW c \in Conns, Accept(c) \/ SendBegins(c) PROVE Other
  BY <1>2, Zenon DEF Other
<1>3. ASSUME Drain PROVE Other
  BY <1>3, Zenon DEF Drain, Other
<1>4. ASSUME NEW r \in Reqs, Request(r) \/ Handle(r) \/ Respond(r) PROVE Other
  BY <1>4, Zenon DEF Other
<1>5. ASSUME Bind \/ AcceptEnds \/ Client \/ ListenAndServe \/ Signal \/ IngressFails \/ ForceExit PROVE Other
  BY <1>5, Zenon DEF Other
<1>6. QED
  <2>1. exit = "none" /\ Runs
    BY DEF Next
  <2>2. Other \/ Register \/ \E c \in Conns : acquireConnSlot(c) \/ handleConnectionEnds(c)
    BY <2>1, <1>1, <1>2, <1>3, <1>4, <1>5, Zenon DEF Runs
  <2>3. QED
    BY <2>1, <2>2

LEMMA OtherQuiet == ASSUME SessionIInv, Other PROVE Quiet
<1>1. ASSUME NEW c \in Conns, Accept(c) PROVE Quiet
  BY <1>1, Types DEF Accept, Goes, Quiet, slots
<1>2. ASSUME NEW c \in Conns, SendBegins(c) PROVE Quiet
  BY <1>2, SaysTalks, TalksQuiet DEF SendBegins, slots, listener
<1>3. ASSUME NEW c \in Conns, SendEnds(c) PROVE Quiet
  BY <1>3, Types DEF SendEnds, Answer, EndTransaction, Goes, Quiet, slots, listener, SeatedStages
<1>4. ASSUME NEW c \in Conns, Lapses(c) PROVE Quiet
  BY <1>4, SaysTalks, TalksQuiet DEF Lapses, slots, listener
<1>5. CASE Client
  BY <1>5, SaysTalks, TalksQuiet DEF Client, slots, listener
<1>6. CASE UNCHANGED <<sessionVars, slots, wg>>
  BY <1>6 DEF Quiet, sessionVars, slots
<1>7. QED
  BY <1>1, <1>2, <1>3, <1>4, <1>5, <1>6
     DEF Other, Bind, AcceptEnds, ListenAndServe, Request, Handle, Respond, Signal, IngressFails, ForceExit,
         SmtpStop, HttpStop, Exit, Tick, listener

\* The caps do not move with the slots.
LEMMA Caps ==
  ASSUME SessionIInv, cfg' = cfg
  PROVE  /\ EffectiveMaxConnections(cfg)' = EffectiveMaxConnections(cfg)
         /\ EffectiveMaxConnectionsPerIP(cfg)' = EffectiveMaxConnectionsPerIP(cfg)
         /\ EffectiveMaxConnections(cfg) \in Int /\ EffectiveMaxConnectionsPerIP(cfg) \in Int
  BY DEF EffectiveMaxConnections, EffectiveMaxConnectionsPerIP, SessionIInv, SessionTypeOK

LEMMA QuietCounts == ASSUME SessionIInv, Counts, Quiet PROVE Counts'
<1>1. Seated' = Seated /\ Counted' = Counted /\ UNCHANGED <<cfg, active, perIP, wg>>
  BY QuietSets DEF Quiet
<1>2. QED
  BY <1>1, Caps DEF Counts, SlotsExact

LEMMA RegisterCounts == ASSUME SessionIInv, ProcessTypes, Doorway, Counts, Register PROVE Counts'
<1>1. /\ loop = "holding" /\ held \in Conns /\ stage[held] = "accepted" /\ wg' = wg + 1
      /\ stage' = [stage EXCEPT ![held] = "counted"] /\ UNCHANGED <<cfg, active, perIP>>
  BY DEF Register, Doorway, Goes, slots
<1>2. stage'[held] = "counted" /\ \A d \in Conns \ {held} : stage'[d] = stage[d]
  BY <1>1, Types
<1>3. Seated' = Seated /\ Counted' = Counted \cup {held} /\ held \notin Counted /\ Counted \subseteq Conns
  BY <1>1, <1>2 DEF Seated, Counted, SeatedStages
<1>4. Cardinality(Counted') = Cardinality(Counted) + 1
  BY <1>1, <1>3, OneMore
<1>5. QED
  BY <1>1, <1>3, <1>4, Caps DEF Counts, SlotsExact

LEMMA AcquireCounts ==
  ASSUME SessionIInv, ProcessTypes, Counts, NEW c \in Conns, acquireConnSlot(c) PROVE Counts'
<1> DEFINE ip == IpOf[c]
<1>1. /\ stage[c] = "counted" /\ UNCHANGED <<cfg, wg>> /\ ip \in Ips
  BY DEF acquireConnSlot, listener, Ips
<1>2. CASE Free(ip)
  <2>1. /\ stage' = [stage EXCEPT ![c] = "ready"] /\ active' = active + 1
        /\ perIP' = [perIP EXCEPT ![ip] = @ + 1]
        /\ active < EffectiveMaxConnections(cfg) /\ perIP[ip] < EffectiveMaxConnectionsPerIP(cfg)
    BY <1>2 DEF acquireConnSlot, Goes, Free
  <2>2. stage'[c] = "ready" /\ \A d \in Conns \ {c} : stage'[d] = stage[d]
    BY <2>1, Types
  <2>3. /\ Counted' = Counted /\ Seated' = Seated \cup {c} /\ c \notin Seated /\ Seated \subseteq Conns
    BY <1>1, <2>2 DEF Seated, Counted, SeatedStages
  <2>4. Cardinality(Seated') = Cardinality(Seated) + 1
    BY <2>3, OneMore
  <2>5. ASSUME NEW i \in Ips
        PROVE  /\ perIP'[i] = Cardinality({d \in Seated' : IpOf[d] = i})
               /\ perIP'[i] <= EffectiveMaxConnectionsPerIP(cfg)
    <3> DEFINE S == {d \in Seated : IpOf[d] = i}
               T == {d \in Seated' : IpOf[d] = i}
    <3>1. perIP[i] = Cardinality(S) /\ perIP[i] <= EffectiveMaxConnectionsPerIP(cfg) /\ perIP[i] \in Nat
      BY DEF Counts, SlotsExact, ProcessTypes
    <3>2. CASE i = ip
      <4>1. T = S \cup {c} /\ c \notin S /\ S \in SUBSET Conns
        BY <2>3, <3>2
      <4>2. perIP'[i] = perIP[i] + 1
        BY <1>1, <2>1, <3>2 DEF ProcessTypes
      <4>3. Cardinality(T) = Cardinality(S) + 1
        BY <4>1, OneMore
      <4>4. QED
        BY <1>1, <2>1, <3>1, <3>2, <4>2, <4>3, Caps
    <3>3. CASE i # ip
      <4>1. T = S
        BY <2>3, <3>3
      <4>2. perIP'[i] = perIP[i]
        BY <2>1, <3>3 DEF ProcessTypes
      <4>3. QED
        BY <3>1, <4>1, <4>2
    <3>4. QED
      BY <3>2, <3>3
  <2>6. active' <= EffectiveMaxConnections(cfg) /\ active' = Cardinality(Seated')
    BY <1>1, <2>1, <2>4, Caps DEF Counts, SlotsExact, ProcessTypes
  <2>7. QED
    BY <1>1, <2>3, <2>5, <2>6, Caps DEF Counts, SlotsExact
<1>3. CASE ~Free(ip)
  <2>1. stage' = [stage EXCEPT ![c] = "refused"] /\ UNCHANGED <<active, perIP>>
    BY <1>3 DEF acquireConnSlot, Goes, slots
  <2>2. stage'[c] = "refused" /\ \A d \in Conns \ {c} : stage'[d] = stage[d]
    BY <2>1, Types
  <2>3. Counted' = Counted /\ Seated' = Seated
    BY <1>1, <2>2 DEF Seated, Counted, SeatedStages
  <2>4. QED
    BY <1>1, <2>1, <2>3, Caps DEF Counts, SlotsExact
<1>4. QED
  BY <1>2, <1>3

LEMMA EndsCounts ==
  ASSUME SessionIInv, ProcessTypes, Counts, NEW c \in Conns, handleConnectionEnds(c) PROVE Counts'
<1> DEFINE ip == IpOf[c]
<1>1. /\ stage[c] \in {"closing", "refused"} /\ cfg' = cfg /\ wg' = wg - 1 /\ ip \in Ips
      /\ stage' = [stage EXCEPT ![c] = "gone"] /\ releaseConnSlot(c)
  BY DEF handleConnectionEnds, Goes, Ips
<1>2. stage'[c] = "gone" /\ \A d \in Conns \ {c} : stage'[d] = stage[d]
  BY <1>1, Types
<1>3. Counted' = Counted \ {c} /\ c \in Counted /\ Counted \subseteq Conns /\ Seated \subseteq Conns
  BY <1>1, <1>2 DEF Seated, Counted, SeatedStages
<1>4. Cardinality(Counted') = Cardinality(Counted) - 1
  BY <1>3, OneMore
<1>5. CASE stage[c] = "refused"
  <2>1. Seated' = Seated /\ UNCHANGED <<active, perIP>>
    BY <1>1, <1>2, <1>5 DEF Seated, releaseConnSlot, slots
  <2>2. QED
    BY <1>1, <1>4, <2>1, Caps DEF Counts, SlotsExact
<1>6. CASE stage[c] = "closing"
  <2>1. active' = active - 1 /\ perIP' = [perIP EXCEPT ![ip] = @ - 1]
    BY <1>6 DEF handleConnectionEnds, releaseConnSlot
  <2>2. Seated' = Seated \ {c} /\ c \in Seated
    BY <1>2, <1>6 DEF Seated
  <2>3. Cardinality(Seated') = Cardinality(Seated) - 1
    BY <1>3, <2>2, OneMore
  <2>4. ASSUME NEW i \in Ips
        PROVE  /\ perIP'[i] = Cardinality({d \in Seated' : IpOf[d] = i})
               /\ perIP'[i] <= EffectiveMaxConnectionsPerIP(cfg)
    <3> DEFINE S == {d \in Seated : IpOf[d] = i}
               T == {d \in Seated' : IpOf[d] = i}
    <3>1. perIP[i] = Cardinality(S) /\ perIP[i] <= EffectiveMaxConnectionsPerIP(cfg) /\ perIP[i] \in Nat
      BY DEF Counts, SlotsExact, ProcessTypes
    <3>2. CASE i = ip
      <4>1. T = S \ {c} /\ c \in S /\ S \in SUBSET Conns
        BY <1>3, <2>2, <3>2
      <4>2. perIP'[i] = perIP[i] - 1
        BY <1>1, <2>1, <3>2 DEF ProcessTypes
      <4>3. Cardinality(T) = Cardinality(S) - 1
        BY <4>1, OneMore
      <4>4. QED
        BY <1>1, <3>1, <4>2, <4>3, Caps
    <3>3. CASE i # ip
      <4>1. T = S
        BY <2>2, <3>3
      <4>2. perIP'[i] = perIP[i]
        BY <2>1, <3>3 DEF ProcessTypes
      <4>3. QED
        BY <3>1, <4>1, <4>2
    <3>4. QED
      BY <3>2, <3>3
  <2>5. active' <= EffectiveMaxConnections(cfg) /\ active' = Cardinality(Seated')
    BY <1>1, <2>1, <2>3, Caps DEF Counts, SlotsExact, ProcessTypes
  <2>6. QED
    BY <1>1, <1>4, <2>4, <2>5, Caps DEF Counts, SlotsExact
<1>7. QED
  BY <1>1, <1>5, <1>6

LEMMA CountsKept == ASSUME SessionIInv, ProcessTypes, Doorway, Counts, Next PROVE Counts'
  BY NextIs, OtherQuiet, QuietCounts, RegisterCounts, AcquireCounts, EndsCounts

-----------------------------------------------------------------------------
(* The steps that are neither of a session nor of a slot. *)

Steady == UNCHANGED <<sessionVars, slots, wg>>

\* What a step of a session, begun or ended sends apart, leaves to the process.
Inner(c) ==
  \/ acquireConnSlot(c) \/ handleConnectionEnds(c) \/ Lapses(c)
  \/ (Says(c) \/ Refill(IpOf[c])) /\ UNCHANGED <<slots, listener, server, process, sends>>

LEMMA StepIs ==
  ASSUME Next
  PROVE  \/ \E c \in Conns : Inner(c) \/ Accept(c) \/ SendBegins(c) \/ SendEnds(c)
         \/ \E r \in Reqs : Request(r) \/ Handle(r) \/ Respond(r)
         \/ Register \/ Bind \/ AcceptEnds \/ ListenAndServe
         \/ Signal \/ IngressFails \/ ForceExit \/ SmtpStop \/ HttpStop \/ Exit \/ Tick
<1>1. CASE Client
  BY <1>1, Zenon DEF Client, Inner
<1>2. CASE \E c \in Conns : acquireConnSlot(c) \/ handleConnectionEnds(c)
  BY <1>2, Zenon DEF Inner
<1>3. CASE \E c \in Conns : Accept(c) \/ SendBegins(c) \/ SendEnds(c) \/ Lapses(c)
  BY <1>3, Zenon DEF Inner
<1>4. QED
  <2>1. Other \/ Register \/ \E c \in Conns : acquireConnSlot(c) \/ handleConnectionEnds(c)
    BY NextIs
  <2>2. QED
    BY <2>1, <1>1, <1>2, <1>3, Zenon DEF Other

LEMMA InnerIs ==
  ASSUME SessionIInv, NEW c \in Conns, Inner(c)
  PROVE  /\ UNCHANGED <<cfg, loop, held, smtpStop, latecomers, server, process, sends>>
         /\ \A d \in Conns \ {c} : stage'[d] = stage[d]
         /\ \/ stage'[c] = stage[c]
            \/ /\ stage[c] \in {"counted", "refused", "ready", "body", "closing"}
               /\ stage'[c] \in {"refused", "gone"} \cup SeatedStages
<1>1. CASE acquireConnSlot(c)
  <2>1. stage[c] = "counted" /\ UNCHANGED <<cfg, listener, server, process, sends>>
        /\ \E s \in {"ready", "refused"} : stage' = [stage EXCEPT ![c] = s]
    BY <1>1 DEF acquireConnSlot, Goes
  <2>2. QED
    BY <2>1, Types DEF SeatedStages, listener
<1>2. CASE handleConnectionEnds(c)
  <2>1. /\ stage[c] \in {"closing", "refused"} /\ stage' = [stage EXCEPT ![c] = "gone"]
        /\ UNCHANGED <<cfg, loop, held, smtpStop, latecomers, server, process, sends>>
    BY <1>2 DEF handleConnectionEnds, Goes
  <2>2. QED
    BY <2>1, Types
<1>3. CASE Lapses(c)
  BY <1>3, SaysTalks DEF Lapses, Talks, listener
<1>4. CASE (Says(c) \/ Refill(IpOf[c])) /\ UNCHANGED <<slots, listener, server, process, sends>>
  BY <1>4, SaysTalks DEF Talks, listener
<1>5. QED
  BY <1>1, <1>2, <1>3, <1>4 DEF Inner

LEMMA SendIs ==
  ASSUME SessionIInv, NEW c \in Conns
  PROVE  /\ SendBegins(c) => /\ stage[c] = "body" /\ stage'[c] = "sending"
                            /\ \A d \in Conns \ {c} : stage'[d] = stage[d]
         /\ SendEnds(c) => /\ stage[c] = "sending" /\ stage'[c] = "ready"
                          /\ \A d \in Conns \ {c} : stage'[d] = stage[d]
         /\ Accept(c) => /\ stage[c] = "none" /\ stage'[c] = "accepted"
                        /\ \A d \in Conns \ {c} : stage'[d] = stage[d]
  BY Types DEF SendBegins, HandOver, SendEnds, Answer, EndTransaction, Accept, Goes

LEMMA SteadyIs ==
  ASSUME (\E r \in Reqs : Request(r) \/ Handle(r) \/ Respond(r)) \/ Bind \/ AcceptEnds \/ ListenAndServe
         \/ Signal \/ IngressFails \/ ForceExit \/ SmtpStop \/ HttpStop \/ Exit \/ Tick
  PROVE  Steady /\ stage' = stage /\ cfg' = cfg
  BY DEF Request, Handle, Respond, Bind, AcceptEnds, ListenAndServe, Signal, IngressFails, ForceExit, SmtpStop,
         HttpStop, Exit, Tick, Steady, sessionVars, listener

LEMMA DoorwayKept == ASSUME SessionIInv, ProcessTypes, Doorway, Next PROVE Doorway'
<1>1. ASSUME NEW c \in Conns, Inner(c) PROVE Doorway'
  BY <1>1, InnerIs DEF Doorway, SeatedStages
<1>2. ASSUME NEW c \in Conns, Accept(c) PROVE Doorway'
  <2>1. loop = "accepting" /\ loop' = "holding" /\ held' = c
    BY <1>2 DEF Accept
  <2>2. QED
    BY <1>2, <2>1, SendIs DEF Doorway
<1>3. ASSUME NEW c \in Conns, SendBegins(c) \/ SendEnds(c) PROVE Doorway'
  <2>1. UNCHANGED <<loop, held>>
    BY <1>3 DEF SendBegins, SendEnds, listener
  <2>2. QED
    BY <1>3, <2>1, SendIs DEF Doorway
<1>4. CASE Register
  <2>1. loop = "holding" /\ loop' = "accepting" /\ stage' = [stage EXCEPT ![held] = "counted"]
    BY <1>4 DEF Register, Goes
  <2>2. stage'[held] = "counted" /\ \A d \in Conns \ {held} : stage'[d] = stage[d]
    BY <2>1, Types DEF Doorway
  <2>3. QED
    BY <2>1, <2>2 DEF Doorway
<1>5. CASE Steady /\ stage' = stage /\ (UNCHANGED <<loop, held>> \/ Bind \/ AcceptEnds)
  <2>1. CASE UNCHANGED <<loop, held>>
    BY <1>5, <2>1 DEF Doorway
  <2>2. CASE Bind \/ AcceptEnds
    <3>1. loop # "holding" /\ loop' # "holding"
      BY <2>2 DEF Bind, AcceptEnds
    <3>2. QED
      BY <1>5, <3>1 DEF Doorway
  <2>3. QED
    BY <1>5, <2>1, <2>2
<1>6. ASSUME (\E r \in Reqs : Request(r) \/ Handle(r) \/ Respond(r)) \/ ListenAndServe \/ Signal \/ IngressFails
             \/ ForceExit \/ SmtpStop \/ HttpStop \/ Exit \/ Tick
      PROVE  UNCHANGED <<loop, held>>
  BY <1>6 DEF Request, Handle, Respond, ListenAndServe, Signal, IngressFails, ForceExit, SmtpStop, HttpStop, Exit,
              Tick, listener
<1>7. QED
  BY <1>1, <1>2, <1>3, <1>4, <1>5, <1>6, StepIs, SteadyIs

-----------------------------------------------------------------------------
(* Sends and the clock. *)

\* A step that begins no drain and lets no time pass keeps its sends if every
\* early one is still under way, with as much time left.
LEMMA EarlySame ==
  ASSUME ProcessTypes, EarlySends, UNCHANGED clock, early' \subseteq early,
         \A s \in early' : s \in InProgress => s \in InProgress' /\ left'[s] = left[s]
  PROVE  EarlySends'
  BY DEF EarlySends

LEMMA EarlyKept ==
  ASSUME SessionIInv, ProcessTypes, Stops, EarlySends, Doorway, Next PROVE EarlySends'
<1>1. ASSUME NEW c \in Conns, Inner(c) PROVE EarlySends'
  <2>1. UNCHANGED <<clock, left, early, req>>
    BY <1>1, InnerIs DEF server, process, sends
  <2>2. InProgress \subseteq InProgress'
    BY <1>1, <2>1, InnerIs DEF InProgress
  <2>3. QED
    BY <2>1, <2>2, EarlySame
<1>2. ASSUME NEW c \in Conns, Accept(c) PROVE EarlySends'
  <2>1. UNCHANGED <<clock, left, early, req>>
    BY <1>2 DEF Accept, server, process, sends
  <2>2. InProgress \subseteq InProgress'
    BY <1>2, <2>1, SendIs DEF InProgress
  <2>3. QED
    BY <2>1, <2>2, EarlySame
<1>3. ASSUME NEW c \in Conns, SendBegins(c) PROVE EarlySends'
  <2>1. UNCHANGED <<clock, early, req>> /\ left' = [left EXCEPT ![c] = SendMax]
    BY <1>3 DEF SendBegins, server, process
  <2>2. InProgress \subseteq InProgress' /\ c \notin InProgress
    BY <1>3, <2>1, SendIs DEF InProgress
  <2>3. \A s \in InProgress : s # c /\ left'[s] = left[s]
    BY <2>1, <2>2 DEF ProcessTypes, InProgress
  <2>4. QED
    BY <2>1, <2>2, <2>3, EarlySame
<1>4. ASSUME NEW c \in Conns, SendEnds(c) PROVE EarlySends'
  <2>1. UNCHANGED <<clock, req>> /\ left' = [left EXCEPT ![c] = 0] /\ early' = early \ {c}
    BY <1>4 DEF SendEnds, server, process
  <2>2. InProgress \ {c} \subseteq InProgress'
    BY <1>4, <2>1, SendIs DEF InProgress
  <2>3. \A s \in early' : s # c /\ left'[s] = left[s]
    BY <2>1 DEF ProcessTypes
  <2>4. QED
    BY <2>1, <2>2, <2>3, EarlySame
<1>5. CASE Register
  <2>1. UNCHANGED <<clock, left, early, req>> /\ stage' = [stage EXCEPT ![held] = "counted"] /\ stage[held] = "accepted"
        /\ held \in Conns
    BY <1>5 DEF Register, Goes, server, process, sends, Doorway
  <2>2. stage'[held] = "counted" /\ \A d \in Conns \ {held} : stage'[d] = stage[d]
    BY <2>1, Types
  <2>3. InProgress \subseteq InProgress'
    BY <2>1, <2>2 DEF InProgress
  <2>4. QED
    BY <2>1, <2>3, EarlySame
<1>6. ASSUME NEW r \in Reqs, Request(r) \/ Handle(r) PROVE EarlySends'
  <2>1. /\ UNCHANGED <<clock, early, stage>> /\ req[r] \in {"none", "reading"}
        /\ \E q \in {"reading", "sending", "done"} : req' = [req EXCEPT ![r] = q]
        /\ left' = left \/ left' = [left EXCEPT ![r] = SendMax]
    BY <1>6 DEF Request, Handle, sessionVars, process, sends
  <2>2. \A d \in Reqs \ {r} : req'[d] = req[d]
    BY <2>1 DEF ProcessTypes
  <2>3. InProgress \subseteq InProgress' /\ r \notin InProgress
    BY <1>6, <2>1, <2>2 DEF InProgress
  <2>4. \A s \in InProgress : s # r /\ left'[s] = left[s]
    BY <2>1, <2>3 DEF ProcessTypes, InProgress
  <2>5. QED
    BY <2>1, <2>3, <2>4, EarlySame
<1>7. ASSUME NEW r \in Reqs, Respond(r) PROVE EarlySends'
  <2>1. /\ UNCHANGED <<clock, stage>> /\ req' = [req EXCEPT ![r] = "done"]
        /\ left' = [left EXCEPT ![r] = 0] /\ early' = early \ {r}
    BY <1>7 DEF Respond, sessionVars, process
  <2>2. \A d \in Reqs \ {r} : req'[d] = req[d]
    BY <2>1 DEF ProcessTypes
  <2>3. InProgress \ {r} \subseteq InProgress'
    BY <2>1, <2>2 DEF InProgress
  <2>4. \A s \in early' : s # r /\ left'[s] = left[s]
    BY <2>1 DEF ProcessTypes
  <2>5. QED
    BY <2>1, <2>3, <2>4, EarlySame
<1>8. CASE Signal
  <2>1. main = "running" /\ UNCHANGED <<clock, left, stage, req>> /\ early' = InProgress
    BY <1>8 DEF Signal, sessionVars, server
  <2>2. clock = 0 /\ InProgress' = InProgress
    BY <2>1 DEF Stops, Clocked, InProgress
  <2>3. \A s \in InProgress : left[s] + 0 <= SendMax
    BY DEF ProcessTypes, InProgress
  <2>4. QED
    BY <2>1, <2>2, <2>3 DEF EarlySends
<1>9. CASE Tick
  <2>1. /\ UNCHANGED <<early, stage, req>> /\ clock' = clock + 1
        /\ left' = [s \in DOMAIN left |-> IF s \in InProgress THEN left[s] - 1 ELSE left[s]]
    BY <1>9 DEF Tick, sessionVars, server
  <2>2. InProgress' = InProgress /\ InProgress \subseteq DOMAIN left /\ clock \in Nat
        /\ \A s \in InProgress : left[s] \in Nat
    BY <2>1 DEF InProgress, ProcessTypes
  <2>3. \A s \in InProgress : left'[s] = left[s] - 1
    BY <2>1, <2>2
  <2>4. QED
    BY <2>1, <2>2, <2>3 DEF EarlySends
<1>10. CASE Bind \/ AcceptEnds \/ ListenAndServe \/ IngressFails \/ ForceExit \/ SmtpStop \/ HttpStop \/ Exit
  <2>1. UNCHANGED <<clock, left, early, stage, req>>
    BY <1>10 DEF Bind, AcceptEnds, ListenAndServe, IngressFails, ForceExit, SmtpStop, HttpStop, Exit,
                 sessionVars, server, process, sends
  <2>2. InProgress' = InProgress
    BY <2>1 DEF InProgress
  <2>3. QED
    BY <2>1, <2>2, EarlySame
<1>11. QED
  BY <1>1, <1>2, <1>3, <1>4, <1>5, <1>6, <1>7, <1>8, <1>9, <1>10, StepIs

-----------------------------------------------------------------------------
(* Stop and the clock. *)

\* What all but four of the steps leave to the drain.
Undrained == UNCHANGED <<main, smtpStop, httpStop, clock>> /\ early' \subseteq early

LEMMA DrainSteps ==
  ASSUME SessionIInv, Next
  PROVE  Undrained \/ Signal \/ SmtpStop \/ HttpStop \/ Tick
<1>1. ASSUME NEW c \in Conns, Inner(c) \/ Accept(c) \/ SendBegins(c) \/ SendEnds(c) PROVE Undrained
  <2>1. CASE Inner(c)
    BY <2>1, InnerIs DEF Undrained, process, server, sends
  <2>2. CASE Accept(c) \/ SendBegins(c) \/ SendEnds(c)
    BY <2>2 DEF Accept, SendBegins, SendEnds, Undrained, process, server, sends, listener
  <2>3. QED
    BY <1>1, <2>1, <2>2
<1>2. ASSUME (\E r \in Reqs : Request(r) \/ Handle(r) \/ Respond(r)) \/ Register \/ Bind \/ AcceptEnds
             \/ ListenAndServe \/ IngressFails \/ ForceExit \/ Exit
      PROVE  Undrained
  BY <1>2 DEF Request, Handle, Respond, Register, Bind, AcceptEnds, ListenAndServe, IngressFails, ForceExit, Exit,
              Undrained, process, server, sends, listener
<1>3. QED
  BY <1>1, <1>2, StepIs

LEMMA ClockedKept == ASSUME SessionIInv, ProcessTypes, Clocked, Next PROVE Clocked'
<1>1. CASE Undrained
  BY <1>1 DEF Undrained, Clocked
<1>2. CASE Signal
  BY <1>2 DEF Signal, Clocked, listener, server
<1>3. CASE SmtpStop
  BY <1>3 DEF SmtpStop, Clocked, server, process, sends
<1>4. CASE HttpStop
  BY <1>4 DEF HttpStop, Clocked, listener, process, sends
<1>5. CASE Tick
  BY <1>5 DEF Tick, Clocked, listener, server, ProcessTypes
<1>6. QED
  BY <1>1, <1>2, <1>3, <1>4, <1>5, DrainSteps

\* No request begins once Shutdown has returned, and none was left then.
LEMMA HttpDoneKept == ASSUME SessionIInv, ProcessTypes, HttpDone, Next PROVE HttpDone'
<1>1. ASSUME NEW r \in Reqs, Request(r) \/ Handle(r) \/ Respond(r) PROVE HttpDone'
  <2>1. httpStop' = httpStop /\ (Request(r) => httpStop = "no")
        /\ (Handle(r) => req[r] = "reading") /\ (Respond(r) => req[r] = "sending")
    BY <1>1 DEF Request, Handle, Respond
  <2>2. QED
    BY <1>1, <2>1 DEF HttpDone
<1>2. CASE HttpStop
  BY <1>2 DEF HttpStop, HttpDone
<1>3. ASSUME NEW c \in Conns, Inner(c) \/ Accept(c) \/ SendBegins(c) \/ SendEnds(c) PROVE HttpDone'
  <2>1. UNCHANGED <<httpStop, req>>
    BY <1>3, InnerIs DEF Accept, SendBegins, SendEnds, server
  <2>2. QED
    BY <2>1 DEF HttpDone
<1>4. CASE Register \/ Bind \/ AcceptEnds \/ ListenAndServe \/ Signal \/ IngressFails \/ ForceExit \/ SmtpStop
           \/ Exit \/ Tick
  <2>1. UNCHANGED <<httpStop, req>>
    BY <1>4 DEF Register, Bind, AcceptEnds, ListenAndServe, Signal, IngressFails, ForceExit, SmtpStop, Exit, Tick,
                server
  <2>2. QED
    BY <2>1 DEF HttpDone
<1>5. QED
  BY <1>1, <1>2, <1>3, <1>4, StepIs

\* Sessions that Stop knows of have ended; one more may come through the door.
LEMMA SmtpDoneKept ==
  ASSUME SessionIInv, ProcessTypes, Doorway, Counts, Stops, EarlySends, Next PROVE SmtpDone'
<1>0. Counted \subseteq Conns /\ IsFiniteSet(Counted) /\ SmtpDone /\ Clocked
  BY FS_Subset DEF Counted, Stops
<1>1. ASSUME UNCHANGED <<smtpStop, latecomers, loop>>, early' \subseteq early, Counted' \subseteq Counted
      PROVE  SmtpDone'
  BY <1>0, <1>1 DEF SmtpDone
<1>2. CASE Register
  <2>1. /\ loop = "holding" /\ loop' = "accepting" /\ UNCHANGED <<smtpStop, early>>
        /\ held \in Conns /\ stage' = [stage EXCEPT ![held] = "counted"]
        /\ latecomers' = IF smtpStop = "done" THEN latecomers \cup {held} ELSE latecomers
    BY <1>2 DEF Register, Goes, sends, Doorway
  <2>2. \A d \in Conns \ {held} : stage'[d] = stage[d]
    BY <2>1, Types
  <2>3. Counted' \subseteq Counted \cup {held}
    BY <2>2 DEF Counted
  <2>4. QED
    BY <1>0, <2>1, <2>3 DEF SmtpDone
<1>3. CASE SmtpStop
  <2>1. UNCHANGED <<stage, latecomers, early>> /\ Counted' = Counted
    BY <1>3 DEF SmtpStop, sessionVars, sends, Counted
  <2>2. CASE smtpStop = "waiting" /\ wg = 0 /\ smtpStop' = "done"
    <3>1. Counted = {}
      BY <1>0, <2>2, FS_EmptySet DEF Counts
    <3>2. early \cap Conns = {}
      <4>1. ASSUME NEW c \in early \cap Conns PROVE FALSE
        <5>1. c \in InProgress
          BY DEF EarlySends
        <5>2. stage[c] = "sending"
          BY <5>1 DEF InProgress
        <5>3. QED
          BY <3>1, <5>2 DEF Counted, SeatedStages
      <4>2. QED
        BY <4>1
    <3>3. latecomers = {}
      BY <1>0, <2>2 DEF SmtpDone
    <3>4. QED
      BY <2>1, <2>2, <3>1, <3>2, <3>3 DEF SmtpDone
  <2>3. CASE smtpStop' # "done" /\ smtpStop # "done"
    BY <1>0, <2>1, <2>3 DEF SmtpDone
  <2>4. QED
    BY <1>3, <2>2, <2>3 DEF SmtpStop
<1>4. CASE Signal
  <2>1. main = "running" /\ UNCHANGED <<smtpStop, latecomers, loop>>
    BY <1>4 DEF Signal, listener
  <2>2. smtpStop = "no"
    BY <1>0, <2>1 DEF Clocked, ProcessTypes
  <2>3. QED
    BY <1>0, <2>1, <2>2 DEF SmtpDone
<1>5. CASE \E c \in Conns : Accept(c)
  <2>1. smtpStop = "no" /\ UNCHANGED <<smtpStop, latecomers>>
    BY <1>5 DEF Accept
  <2>2. QED
    BY <1>0, <2>1 DEF SmtpDone
<1>6. ASSUME NEW c \in Conns, Inner(c) PROVE SmtpDone'
  <2>1. UNCHANGED <<smtpStop, latecomers, loop, early>>
    BY <1>6, InnerIs DEF sends
  <2>2. Counted' \subseteq Counted
    BY <1>6, InnerIs DEF Counted, SeatedStages
  <2>3. QED
    BY <1>1, <2>1, <2>2
<1>7. ASSUME NEW c \in Conns, SendBegins(c) \/ SendEnds(c) PROVE SmtpDone'
  <2>1. UNCHANGED <<smtpStop, latecomers, loop>> /\ early' \subseteq early
    BY <1>7 DEF SendBegins, SendEnds, listener
  <2>2. Counted' \subseteq Counted
    BY <1>7, SendIs DEF Counted, SeatedStages
  <2>3. QED
    BY <1>1, <2>1, <2>2
<1>8. CASE Bind \/ AcceptEnds
  <2>1. UNCHANGED <<stage, smtpStop, latecomers, early>> /\ loop' # "holding"
    BY <1>8 DEF Bind, AcceptEnds, sessionVars, sends
  <2>2. Counted' = Counted
    BY <2>1 DEF Counted
  <2>3. QED
    BY <1>0, <2>1, <2>2 DEF SmtpDone
<1>9. CASE (\E r \in Reqs : Request(r) \/ Handle(r) \/ Respond(r)) \/ ListenAndServe \/ IngressFails \/ ForceExit
           \/ HttpStop \/ Exit \/ Tick
  <2>1. UNCHANGED <<stage, smtpStop, latecomers, loop>> /\ early' \subseteq early
    BY <1>9 DEF Request, Handle, Respond, ListenAndServe, IngressFails, ForceExit, HttpStop, Exit, Tick,
                sessionVars, listener, sends
  <2>2. Counted' = Counted
    BY <2>1 DEF Counted
  <2>3. QED
    BY <1>1, <2>1, <2>2
<1>10. QED
  BY <1>2, <1>3, <1>4, <1>5, <1>6, <1>7, <1>8, <1>9, StepIs

LEMMA EndedKept == ASSUME SessionIInv, ProcessTypes, Next PROVE Ended'
<1>1. exit = "none"
  BY NextIs
<1>2. CASE Exit
  BY <1>2 DEF Exit, Ended, listener, server
<1>3. CASE IngressFails
  BY <1>3 DEF IngressFails, Ended, listener, server
<1>4. CASE ForceExit
  BY <1>4 DEF ForceExit, Ended
<1>5. ASSUME NEW c \in Conns, Inner(c) \/ Accept(c) \/ SendBegins(c) \/ SendEnds(c) PROVE Ended'
  <2>1. exit' = exit
    BY <1>5, InnerIs DEF Accept, SendBegins, SendEnds, process
  <2>2. QED
    BY <1>1, <2>1 DEF Ended
<1>6. CASE (\E r \in Reqs : Request(r) \/ Handle(r) \/ Respond(r)) \/ Register \/ Bind \/ AcceptEnds \/ ListenAndServe
           \/ Signal \/ SmtpStop \/ HttpStop \/ Tick
  <2>1. exit' = exit
    BY <1>6 DEF Request, Handle, Respond, Register, Bind, AcceptEnds, ListenAndServe, Signal, SmtpStop, HttpStop,
                Tick, process
  <2>2. QED
    BY <1>1, <2>1 DEF Ended
<1>7. QED
  BY <1>2, <1>3, <1>4, <1>5, <1>6, StepIs

-----------------------------------------------------------------------------
(* Types. *)

\* The counters are the sizes of sets, so none of them can fall below zero.
LEMMA CountersAreNat ==
  ASSUME ProcessTypes, Counts', perIP' = perIP \/ \E ip \in Ips : \E n : perIP' = [perIP EXCEPT ![ip] = n]
  PROVE  active' \in Nat /\ wg' \in Nat /\ perIP' \in [Ips -> Nat]
<1>1. Seated' \subseteq Conns /\ Counted' \subseteq Conns /\ \A i \in Ips : {d \in Seated' : IpOf[d] = i} \subseteq Conns
  BY DEF Seated, Counted
<1>2. \A S \in SUBSET Conns : Cardinality(S) \in Nat
  BY FS_Subset, FS_CardinalityType
<1>3. active' \in Nat /\ wg' \in Nat /\ \A i \in Ips : perIP'[i] \in Nat
  BY <1>1, <1>2 DEF Counts, SlotsExact
<1>4. perIP' = [i \in Ips |-> perIP'[i]]
  BY DEF ProcessTypes
<1>5. QED
  BY <1>3, <1>4

\* The rest of ProcessTypes.
Rest ==
  /\ loop \in {"unbound", "accepting", "holding", "returned", "error"} /\ held \in Conns \cup {Nobody}
  /\ http \in {"unbound", "serving", "returned", "error"}
  /\ req \in [Reqs -> {"none", "reading", "sending", "done"}]
  /\ smtpStop \in {"no", "waiting", "done", "late"} /\ httpStop \in {"no", "waiting", "done", "late"}
  /\ main \in {"running", "stopping"} /\ exit \in {"none", "0", "1", "forced"}
  /\ clock \in 0 .. Deadline /\ left \in [Conns \cup Reqs -> 0 .. SendMax]
  /\ signals \in Nat /\ failures \in Nat
  /\ latecomers \subseteq Conns /\ early \subseteq Conns \cup Reqs

LEMMA SlotSteps ==
  ASSUME SessionIInv, Next
  PROVE  perIP' = perIP \/ \E ip \in Ips : \E n : perIP' = [perIP EXCEPT ![ip] = n]
<1>1. ASSUME NEW c \in Conns, acquireConnSlot(c) \/ handleConnectionEnds(c)
      PROVE  perIP' = perIP \/ \E ip \in Ips : \E n : perIP' = [perIP EXCEPT ![ip] = n]
  <2>1. IpOf[c] \in Ips
    BY DEF Ips
  <2>2. \/ perIP' = perIP
        \/ perIP' = [perIP EXCEPT ![IpOf[c]] = @ + 1]
        \/ perIP' = [perIP EXCEPT ![IpOf[c]] = @ - 1]
    BY <1>1 DEF acquireConnSlot, handleConnectionEnds, releaseConnSlot, slots
  <2>3. QED
    BY <2>1, <2>2
<1>2. CASE Other
  BY <1>2, OtherQuiet DEF Quiet
<1>3. CASE Register
  BY <1>3 DEF Register, slots
<1>4. QED
  BY <1>1, <1>2, <1>3, NextIs

LEMMA RestKept == ASSUME SessionIInv, Rest, Doorway, Next PROVE Rest'
<1>0. 0 \in 0 .. SendMax /\ SendMax \in 0 .. SendMax
  OBVIOUS
<1>1. ASSUME NEW c \in Conns, Inner(c) PROVE Rest'
  BY <1>1, InnerIs DEF Rest, server, process, sends
<1>2. ASSUME NEW c \in Conns, Accept(c) PROVE Rest'
  BY <1>2 DEF Accept, Rest, server, process, sends
<1>3. ASSUME NEW c \in Conns, SendBegins(c) \/ SendEnds(c) PROVE Rest'
  BY <1>0, <1>3 DEF SendBegins, SendEnds, Rest, listener, server, process
<1>4. ASSUME NEW r \in Reqs, Request(r) PROVE Rest'
  BY <1>4 DEF Request, Rest, listener, process, sends
<1>5. ASSUME NEW r \in Reqs, Handle(r) \/ Respond(r) PROVE Rest'
  BY <1>0, <1>5 DEF Handle, Respond, Rest, listener, process
<1>6. CASE Register
  BY <1>6 DEF Register, Rest, Doorway, server, process, sends
<1>7. CASE Bind \/ AcceptEnds
  BY <1>7 DEF Bind, AcceptEnds, Fails, Rest, server, sends
<1>8. CASE ListenAndServe
  BY <1>8 DEF ListenAndServe, Fails, Rest, listener, sends
<1>9. CASE Signal
  BY <1>9 DEF Signal, Rest, listener, server, InProgress
<1>10. CASE IngressFails \/ ForceExit \/ Exit
  BY <1>10 DEF IngressFails, ForceExit, Exit, Rest, listener, server, sends
<1>11. CASE SmtpStop \/ HttpStop
  BY <1>11 DEF SmtpStop, HttpStop, Rest, server, process, listener, sends
<1>12. CASE Tick
  <2>1. /\ UNCHANGED <<loop, held, smtpStop, latecomers, server, main, exit, signals, failures, early>>
        /\ clock < Deadline /\ clock' = clock + 1
        /\ left' = [s \in DOMAIN left |-> IF s \in InProgress THEN left[s] - 1 ELSE left[s]]
        /\ \A s \in InProgress : left[s] > 0
    BY <1>12 DEF Tick, listener
  <2>2. left' \in [Conns \cup Reqs -> 0 .. SendMax]
    BY <2>1 DEF Rest
  <2>3. clock' \in 0 .. Deadline
    BY <2>1 DEF Rest
  <2>4. QED
    BY <2>1, <2>2, <2>3 DEF Rest, server
<1>13. QED
  BY <1>1, <1>2, <1>3, <1>4, <1>5, <1>6, <1>7, <1>8, <1>9, <1>10, <1>11, <1>12, StepIs

LEMMA TypesKept == ASSUME SessionIInv, ProcessTypes, Doorway, Counts, Next PROVE ProcessTypes'
<1>1. active' \in Nat /\ wg' \in Nat /\ perIP' \in [Ips -> Nat]
  BY CountsKept, SlotSteps, CountersAreNat
<1>2. Rest'
  BY RestKept DEF Rest, ProcessTypes
<1>3. QED
  BY <1>1, <1>2 DEF Rest, ProcessTypes

LEMMA StutterKept == ASSUME IInv, UNCHANGED serveVars PROVE IInv'
<1>1. /\ UNCHANGED <<sessionVars, active, perIP, wg, loop, held, smtpStop, latecomers, http, req, httpStop>>
      /\ UNCHANGED <<main, exit, clock, signals, failures, left, early, cfg, stage>>
  BY DEF serveVars, sessionVars, slots, listener, server, process, sends
<1>2. SessionIInv'
  BY <1>1, StepSame DEF IInv
<1>3. Counted' = Counted /\ Seated' = Seated /\ InProgress' = InProgress
  BY <1>1 DEF Counted, Seated, InProgress
<1>4. ProcessTypes' /\ Doorway' /\ Clocked' /\ HttpDone' /\ Ended'
  BY <1>1 DEF IInv, Stops, ProcessTypes, Doorway, Clocked, HttpDone, Ended
<1>5. SmtpDone' /\ EarlySends'
  BY <1>1, <1>3 DEF IInv, Stops, SmtpDone, EarlySends
<1>6. Counts'
  BY <1>1, <1>3, Caps DEF IInv, Counts, SlotsExact
<1>7. QED
  BY <1>2, <1>4, <1>5, <1>6 DEF IInv, Stops

LEMMA StepKept == ASSUME IInv, Next PROVE IInv'
<1>1. SessionIInv /\ ProcessTypes /\ Doorway /\ Counts /\ Stops /\ Clocked /\ HttpDone /\ EarlySends
  BY DEF IInv, Stops
<1>2. SessionIInv'
  BY <1>1, SessionsKept DEF Doorway
<1>3. ProcessTypes' /\ Doorway' /\ Counts' /\ EarlySends' /\ Ended'
  BY <1>1, TypesKept, DoorwayKept, CountsKept, EarlyKept, EndedKept
<1>4. Stops'
  BY <1>1, ClockedKept, HttpDoneKept, SmtpDoneKept DEF Stops
<1>5. QED
  BY <1>2, <1>3, <1>4 DEF IInv

-----------------------------------------------------------------------------
(* The theorems. *)

\* Sessions, slots, counts and the stages of the drain agree with each other in
\* every state of the process: the invariant the others are read off.
THEOREM Inductive == Spec => []IInv
<1>1. Init => IInv
  BY InitSession, InitProcess DEF IInv
<1>2. IInv /\ [Next]_serveVars => IInv'
  BY StutterKept, StepKept
<1>3. QED
  BY <1>1, <1>2, PTL DEF Spec

\* Every variable of the process and its sessions keeps its type; the counters
\* of slots and of the WaitGroup never fall below zero.
THEOREM TypeCorrect == Spec => []TypeOK
<1>1. IInv => TypeOK
  BY DEF IInv, SessionIInv, ProcessTypes, TypeOK
<1>2. QED
  BY <1>1, Inductive, PTL

\* acquireConnSlot and releaseConnSlot balance on every way through
\* handleConnection: the slots in use are those of the sessions being served,
\* and neither cap is ever exceeded.
THEOREM SlotsAlwaysExact == Spec => []SlotsExact
<1>1. IInv => SlotsExact
  BY DEF IInv, Counts
<1>2. QED
  BY <1>1, Inductive, PTL

\* However STARTTLS, AUTH, MAIL, RCPT, RSET and DATA follow each other, a message
\* is relayed only past every gate of the configuration.
THEOREM RelaysAuthorised == Spec => []RelayedAuthorised
<1>1. ASSUME IInv, NEW c \in Conns, stage[c] = "sending"
      PROVE  LET h == handed[c] IN
             /\ cfg.requireTLS => h.layer = "tls"
             /\ EffectiveAuthMode(cfg) # "none" => \/ ByPassword(cfg) /\ h.layer \in h.proved
                                                   \/ ByCert(cfg) /\ h.cert
             /\ h.from \in cfg.senders
             /\ cfg.rcpts # {} => ToSet(h.to) \subseteq cfg.rcpts
             /\ \/ Len(h.to) <= EffectiveMaxRecipients(cfg)
                \/ EffectiveMaxRecipients(cfg) = 0 /\ cfg.rcpts # {}
  <2>1. Sane(c)
    BY <1>1 DEF IInv, SessionIInv
  <2>2. /\ Entitled(session[c])
        /\ handed[c] = [from |-> session[c].from, to |-> session[c].rcpts, asked |-> view[c],
                        layer |-> Layer(c), proved |-> proved[c], cert |-> session[c].cert]
    BY <1>1, <2>1 DEF Sane
  <2>3. /\ handed[c].from = session[c].from /\ handed[c].to = session[c].rcpts
        /\ handed[c].layer = Layer(c) /\ handed[c].proved = proved[c]
    BY <2>2
  <2>4. session[c].cert => handed[c].cert
    <3>1. session[c].cert \in BOOLEAN
      BY <1>1, Types DEF IInv, SessionType
    <3>2. handed[c].cert = session[c].cert
      BY <2>2, <3>1
    <3>3. QED
      BY <3>2, Zenon
  <2>5. cfg.requireTLS => handed[c].layer = "tls"
    BY <2>2, <2>3 DEF Entitled, Layer
  <2>6. EffectiveAuthMode(cfg) # "none" => \/ ByPassword(cfg) /\ handed[c].layer \in handed[c].proved
                                           \/ ByCert(cfg) /\ handed[c].cert
    <3>1. EffectiveAuthMode(cfg) # "none" => session[c].user \/ session[c].cert
      BY <2>2 DEF Entitled, authRequiredAndMissing
    <3>2. session[c].user => ByPassword(cfg) /\ handed[c].layer \in handed[c].proved
      BY <2>1, <2>3 DEF Sane
    <3>3. session[c].cert => ByCert(cfg) /\ handed[c].cert
      BY <2>1, <2>4, Zenon DEF Sane
    <3>4. QED
      BY <3>1, <3>2, <3>3
  <2>7. /\ handed[c].from \in cfg.senders
        /\ cfg.rcpts # {} => ToSet(handed[c].to) \subseteq cfg.rcpts
        /\ \/ Len(handed[c].to) <= EffectiveMaxRecipients(cfg)
           \/ EffectiveMaxRecipients(cfg) = 0 /\ cfg.rcpts # {}
    BY <2>2, <2>3 DEF Entitled
  <2>8. QED
    BY <2>5, <2>6, <2>7
<1>2. IInv => RelayedAuthorised
  BY <1>1 DEF RelayedAuthorised
<1>3. QED
  BY <1>2, Inductive, PTL

\* resetTransaction loses the whole transaction wherever the code calls it: a
\* message goes from and to whom the client was answered 250 for, nobody else.
THEOREM EnvelopesKept == Spec => []EnvelopeKept
<1>1. ASSUME IInv, NEW c \in Conns, stage[c] = "sending"
      PROVE  handed[c].asked = [from |-> handed[c].from, rcpts |-> handed[c].to]
  <2>1. Sane(c)
    BY <1>1 DEF IInv, SessionIInv
  <2>2. /\ view[c] = [from |-> session[c].from, rcpts |-> session[c].rcpts]
        /\ handed[c] = [from |-> session[c].from, to |-> session[c].rcpts, asked |-> view[c],
                        layer |-> Layer(c), proved |-> proved[c], cert |-> session[c].cert]
    BY <1>1, <2>1 DEF Sane
  <2>3. handed[c].asked = view[c] /\ handed[c].from = session[c].from /\ handed[c].to = session[c].rcpts
    BY <2>2
  <2>4. QED
    BY <2>2, <2>3
<1>2. IInv => EnvelopeKept
  BY <1>1 DEF EnvelopeKept
<1>3. QED
  BY <1>2, Inductive, PTL

\* The sessions of an address share its bucket in authFailed: all together they
\* get no more answers to guesses than the budget allows.
THEOREM GuessesCounted == Spec => []GuessesBounded
<1>1. ASSUME IInv, NEW ip \in Ips PROVE Cardinality(Guesses(ip)) <= AuthBudget + refills[ip]
  <2>1. misses \in Seq(Conns) /\ tokens[ip] \in Nat /\ refills[ip] \in Nat
    BY <1>1 DEF IInv, SessionIInv, SessionTypeOK
  <2>2. Cardinality(Guesses(ip)) + tokens[ip] = AuthBudget + refills[ip]
    BY <1>1 DEF IInv, SessionIInv, Accounted
  <2>3. QED
    BY <2>1, <2>2, GuessesFinite
<1>2. IInv => GuessesBounded
  BY <1>1 DEF GuessesBounded
<1>3. QED
  BY <1>2, Inductive, PTL

\* stopIngresses outlasts every send under way at the signal, whatever else the
\* process is doing: SendMax is less than Deadline.
THEOREM DrainsOutlastSends == Spec => []DrainOutlastsSends
<1>1. ASSUME IInv, exit \in {"0", "1"}, main = "stopping", NEW s \in early \cap InProgress PROVE FALSE
  <2>1. smtpStop \in {"done", "late"} /\ httpStop \in {"done", "late"}
    BY <1>1 DEF IInv, Ended
  <2>2. left[s] + clock <= SendMax /\ left[s] \in Nat /\ clock \in 0 .. Deadline
    BY <1>1 DEF IInv, EarlySends, ProcessTypes
  <2>3. "late" \notin {smtpStop, httpStop}
    BY <1>1, <2>2 DEF IInv, Stops, Clocked
  <2>4. s \notin Conns
    BY <1>1, <2>1, <2>3 DEF IInv, Stops, SmtpDone
  <2>5. s \in Reqs /\ req[s] = "sending"
    BY <1>1, <2>4 DEF InProgress
  <2>6. QED
    BY <1>1, <2>1, <2>3, <2>5 DEF IInv, Stops, HttpDone
<1>2. IInv => DrainOutlastsSends
  BY <1>1 DEF DrainOutlastsSends
<1>3. QED
  BY <1>2, Inductive, PTL

\* The exit code tells the truth about what was left behind; wg.Add coming after
\* Accept costs at most one connection.
THEOREM ExitsHonest == Spec => []ExitHonest
<1>1. ASSUME IInv, exit = "0"
      PROVE  /\ Open \subseteq latecomers \cup {held} /\ Cardinality(Open) <= 1
             /\ \A r \in Reqs : req[r] \in {"none", "done"}
  <2>1. smtpStop = "done" /\ httpStop = "done" /\ SmtpDone /\ HttpDone /\ Doorway /\ ProcessTypes
    BY <1>1 DEF IInv, Ended, Stops
  <2>2. Open \subseteq Counted \cup {c \in Conns : stage[c] = "accepted"}
    BY <1>1 DEF Open, Counted, SeatedStages, IInv, SessionIInv, SessionTypeOK, Stages
  <2>3. PICK x : Open \subseteq {x} /\ Open \subseteq latecomers \cup {held}
    <3>1. CASE loop = "holding"
      BY <2>1, <2>2, <3>1 DEF SmtpDone, Doorway
    <3>2. CASE loop # "holding"
      <4>1. Open \subseteq latecomers
        BY <2>1, <2>2, <3>2 DEF SmtpDone, Doorway
      <4>2. CASE latecomers = {}
        BY <4>1, <4>2
      <4>3. CASE latecomers # {}
        BY <2>1, <4>1, <4>3 DEF SmtpDone
      <4>4. QED
        BY <4>2, <4>3
    <3>3. QED
      BY <3>1, <3>2
  <2>4. Cardinality(Open) <= 1
    <3>1. Open = {} \/ Open = {x}
      BY <2>3
    <3>2. CASE Open = {}
      BY <3>2, FS_EmptySet
    <3>3. CASE Open = {x}
      <4>1. Cardinality({x}) = 1
        BY FS_Singleton
      <4>2. QED
        BY <3>3, <4>1
    <3>4. QED
      BY <3>1, <3>2, <3>3
  <2>5. QED
    BY <2>1, <2>3, <2>4 DEF HttpDone
<1>2. ASSUME IInv, exit = "1"
      PROVE  \/ main = "running" /\ "error" \in {loop, http}
             \/ clock = Deadline /\ "late" \in {smtpStop, httpStop}
  BY <1>2 DEF IInv, Ended, Stops, Clocked
<1>3. IInv => ExitHonest
  BY <1>1, <1>2 DEF ExitHonest
<1>4. QED
  BY <1>3, Inductive, PTL
=============================================================================
