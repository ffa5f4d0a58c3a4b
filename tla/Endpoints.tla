----------------------------- MODULE Endpoints -----------------------------
(***************************************************************************)
(* The configuration of one endpoint: what EndpointConfig.Validate and     *)
(* gateway.New accept, and what New builds from it.  A setting that is not *)
(* there is Absent; of a text only what the checks look at is kept, in     *)
(* words such as "short" or "ok".                                          *)
(***************************************************************************)
EXTENDS Integers, FiniteSetsExt, Sequences

CONSTANTS
  Absent,
  DefaultCsrfTTL, DefaultPobTTL, DefaultCacheTTL,
  DefaultCaptchaTimeout, DefaultLookupTimeout, DefaultMaxBody,
  DefaultMaxCount, DefaultMaxTotal      \* of attachments

ASSUME DefaultsAssumption ==
  /\ DefaultCsrfTTL \in Nat \ {0} /\ DefaultPobTTL \in Nat \ {0} /\ DefaultCacheTTL \in Nat \ {0}
  /\ DefaultCaptchaTimeout \in Nat \ {0} /\ DefaultLookupTimeout \in Nat \ {0}
  /\ DefaultMaxBody \in Nat \ {0}
  /\ DefaultMaxCount \in Nat \ {0} /\ DefaultMaxTotal \in Nat \ {0}

There(x) == x # Absent
api(e)   == e.auth = "api-key"

\* The settings that are numbers or flags, as the configuration's types have them.
Numbers(e) ==
  /\ There(e.reputation) => /\ e.reputation.timeout \in Int /\ e.reputation.cacheTTL \in Int
                            /\ e.reputation.failOpen \in BOOLEAN \cup {Absent}
  /\ There(e.pob) => e.pob.ttl \in Int /\ e.pob.minAge \in Int
  /\ There(e.captcha) => e.captcha.timeout \in Int
  /\ There(e.rate) => e.rate.count \in Int /\ e.rate.interval \in Int
  /\ There(e.attachments) => e.attachments.maxCount \in Int
  /\ There(e.maxBody) => e.maxBody \in Int

-----------------------------------------------------------------------------
validReputation(r) ==
  /\ r.provider = "stopforumspam"
  /\ r.check # {} /\ r.check \subseteq {"email", "ip"}
  /\ r.confidence \in 0 .. 100
  /\ r.timeout >= 0 /\ r.cacheSize >= 0 /\ r.cacheTTL >= 0

pobTTL(p) == IF p.ttl = 0 THEN DefaultPobTTL ELSE p.ttl

validProofOfBrowser(p) ==
  /\ p.secret \in {"", "long"}
  /\ p.ttl >= 0 /\ p.minAge >= 0
  /\ p.minAge < pobTTL(p)

validCaptcha(c) ==
  /\ c.provider = "turnstile" /\ c.secretKey # ""
  /\ c.onError \in {"", "closed", "open"}
  /\ c.timeout >= 0

validAttachments(a) == a.types # {} /\ "malformed" \notin a.types /\ a.maxCount >= 0

\* Browser defences and keys exclude each other, so that none is configured
\* that would not be applied.
validAuth(e) ==
  /\ e.auth \in {"", "form", "api-key"}
  /\ IF api(e)
       THEN /\ e.keys # {} /\ "" \notin e.keys
            /\ ~e.honeypot /\ ~There(e.origins) /\ e.redirects = {} /\ e.csrf = ""
            /\ ~There(e.reputation) /\ ~There(e.pob) /\ ~There(e.captcha)
            /\ e.idemSize >= 0
       ELSE /\ e.idemSize = 0 /\ e.keys = {}
            /\ e.csrf \in {"", "long"} /\ e.csrfTTL >= 0
            /\ There(e.reputation) => validReputation(e.reputation)
            /\ There(e.pob) => validProofOfBrowser(e.pob)
            /\ There(e.captcha) => validCaptcha(e.captcha)

\* EndpointConfig.Validate.
Valid(e) ==
  /\ e.path \notin {"", "relative"} /\ e.to # <<>> /\ "unreadable" \notin {e.to[n] : n \in 1 .. Len(e.to)}
  /\ e.from = "ok" /\ e.subject # "" /\ e.body # ""
  /\ e.format \in {"", "text", "html"}
  /\ e.textBody # "" => e.format = "html"
  /\ e.webhook # "" => e.webhook = "absolute" /\ e.webhookSecret = "long"
  /\ e.webhookSecret # "" => e.webhook # ""
  /\ There(e.attachments) => validAttachments(e.attachments)
  /\ e.transport = "ok"
  /\ validAuth(e)
  /\ There(e.origins) => e.origins # {}
  /\ There(e.rate) => e.rate.count > 0 /\ e.rate.interval > 0

\* newAttachmentPolicy: a limit on the files that is not set has its default.
EffectiveMaxCount(a)     == IF a.maxCount <= 0 THEN DefaultMaxCount ELSE a.maxCount
EffectiveMaxTotalSize(a) == IF There(a.maxTotal) THEN a.maxTotal ELSE DefaultMaxTotal

\* gateway.New: the limit on the body, and what else may stop it.
maxBodySize(e) ==
  IF There(e.maxBody) THEN e.maxBody
  ELSE IF There(e.attachments) THEN EffectiveMaxTotalSize(e.attachments) + DefaultMaxBody
  ELSE DefaultMaxBody

Builds(e) ==
  /\ e.subject = "ok" /\ e.body = "ok"
  /\ maxBodySize(e) >= 0
  /\ There(e.attachments) => EffectiveMaxTotalSize(e.attachments) \in 0 .. maxBodySize(e)
  /\ "malformed" \notin e.proxies

csrfTTL(e)        == IF e.csrfTTL = 0 THEN DefaultCsrfTTL ELSE e.csrfTTL
captchaTimeout(c) == IF c.timeout <= 0 THEN DefaultCaptchaTimeout ELSE c.timeout
lookupTimeout(r)  == IF r.timeout <= 0 THEN DefaultLookupTimeout ELSE r.timeout
cacheTTL(r)       == IF r.cacheTTL <= 0 THEN DefaultCacheTTL ELSE r.cacheTTL

\* Mutant: captcha fails open too when nothing is said.
captchaFailsOpen_Default(c) == c.onError # "closed"

\* Only captcha fails closed when nothing is said.
captchaFailsOpen(c)    == c.onError = "open"
reputationFailsOpen(r) == There(r.failOpen) => r.failOpen

-----------------------------------------------------------------------------
(* buildFormChecks: the checks of a submitted form, in their order.        *)

Configured(e) ==
  (IF e.honeypot THEN {"honeypot"} ELSE {}) \cup (IF e.csrf # "" THEN {"csrf"} ELSE {})
    \cup (IF There(e.pob) THEN {"proof_of_browser"} ELSE {})
    \cup (IF There(e.captcha) THEN {"captcha"} ELSE {})
    \cup (IF There(e.reputation) THEN {"reputation"} ELSE {})

When(set, check) == IF set THEN <<check>> ELSE <<>>

formChecks(e) ==
  IF api(e) THEN <<>>
  ELSE When(e.honeypot, "honeypot") \o When(e.csrf # "", "csrf") \o When(There(e.pob), "proof_of_browser")
         \o When(There(e.captcha), "captcha") \o When(There(e.reputation), "reputation")

-----------------------------------------------------------------------------
(* ClientIP.  A request arrives from the address of the last proxy it went *)
(* through, or of the client; each proxy appends the address it was called *)
(* from to what the header already says.                                   *)

ClientIP(e, remote, forwarded) ==
  LET strangers == {n \in DOMAIN forwarded : forwarded[n] # "" /\ forwarded[n] \notin e.proxies} IN
  IF remote \notin e.proxies \/ forwarded = <<>> THEN remote
  ELSE IF strangers # {} THEN forwarded[Max(strangers)]
  ELSE IF forwarded[1] # "" THEN forwarded[1]
  ELSE remote
=============================================================================
