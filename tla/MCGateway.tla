----------------------------- MODULE MCGateway -----------------------------
(* Each case is an endpoint and the requests that are of interest there: the *)
(* limiter behind a proxy, the local checks, the checks that ask a provider, *)
(* an API endpoint, attachments, and configurations that must not get by.    *)
EXTENDS Gateway

Form == [path |-> "/form", to |-> <<"ops">>, from |-> "ok", subject |-> "ok", body |-> "ok",
         format |-> "", textBody |-> "", webhook |-> "", webhookSecret |-> "", transport |-> "ok",
         attachments |-> Absent, auth |-> "", keys |-> {}, idemSize |-> 0,
         honeypot |-> FALSE, origins |-> Absent, redirects |-> {}, csrf |-> "", csrfTTL |-> 0,
         reputation |-> Absent, pob |-> Absent, captcha |-> Absent, rate |-> Absent,
         maxBody |-> Absent, proxies |-> {}, dryRun |-> FALSE]
Api  == [Form EXCEPT !.auth = "api-key", !.keys = {"key"}]

Post == [method |-> "POST", client |-> "a", via |-> <<>>, forged |-> <<>>, credential |-> "",
         idem |-> "", type |-> "form", origin |-> "", size |-> 1, malformed |-> FALSE, files |-> <<>>,
         trap |-> FALSE, csrf |-> -1, token |-> "", widget |-> FALSE, email |-> "ann",
         fields |-> "ok", override |-> "absent"]
Call == [Post EXCEPT !.type = "json", !.credential = "key"]

Case(endpoint, traffic, horizon, doubtful) ==
  [endpoint |-> endpoint, traffic |-> traffic, horizon |-> horizon, doubtful |-> doubtful]

Limited == [Form EXCEPT !.rate = [count |-> 1, interval |-> 1], !.proxies = {"p"}]
Large   == [Post EXCEPT !.size = 9]   \* nothing more comes of it
Forger  == [Large EXCEPT !.via = <<"p">>, !.forged = <<"b">>]
Crowd   == <<{Large}, {Forger, [Large EXCEPT !.client = "b", !.via = <<"p">>]},
             {Large, [Large EXCEPT !.client = "c"]}, {Large, Forger}>>

Proof  == [secret |-> "long", ttl |-> 0, minAge |-> 2]
Page   == [Form EXCEPT !.honeypot = TRUE, !.origins = {"site"}, !.csrf = "long", !.pob = Proof]
Get    == [Post EXCEPT !.method = "GET", !.origin = "site"]
Filled == [Post EXCEPT !.origin = "site", !.csrf = 0, !.token = "fetched"]
Visits == {Filled, [Filled EXCEPT !.trap = TRUE], [Filled EXCEPT !.csrf = -1], [Filled EXCEPT !.token = ""],
           [Filled EXCEPT !.origin = "other"], [Filled EXCEPT !.csrf = 8], [Filled EXCEPT !.type = "other"],
           [Filled EXCEPT !.fields = "missing"], [Filled EXCEPT !.fields = "unrenderable"],
           [Filled EXCEPT !.method = "PUT"]}

Opinion == [provider |-> "stopforumspam", check |-> {"email", "ip"}, confidence |-> 90, failOpen |-> Absent,
            timeout |-> 0, cacheSize |-> 0, cacheTTL |-> 0]
Turnstile == [provider |-> "turnstile", secretKey |-> "set", onError |-> "", timeout |-> 0]
Asking(cap, rep) == [Form EXCEPT !.captcha = cap, !.reputation = rep]
Strict  == [Opinion EXCEPT !.failOpen = FALSE]
Solved  == [Post EXCEPT !.widget = TRUE]

Keyed1 == [Api EXCEPT !.rate = [count |-> 1, interval |-> 2]]
Calls  == {Call, [Call EXCEPT !.idem = "k"], [Call EXCEPT !.credential = "guess"]}
Odd    == {[Call EXCEPT !.idem = "bad"], [Call EXCEPT !.type = "form"], [Call EXCEPT !.size = 9],
           [Call EXCEPT !.malformed = TRUE], [Call EXCEPT !.override = "empty"], [Call EXCEPT !.fields = "no_address"],
           [Call EXCEPT !.files = <<[type |-> "pdf", size |-> 1]>>]}

File(t, n) == [type |-> t, size |-> n]
Papers  == [types |-> {"pdf"}, maxCount |-> 1, maxTotal |-> 3]
Unset   == [types |-> {"pdf"}, maxCount |-> 0, maxTotal |-> Absent]
Parcels == {[x EXCEPT !.files = f] : x \in {[Post EXCEPT !.type = "multipart"], Call, Post},
              f \in {<<>>, <<File("pdf", 1)>>, <<File("pdf", 2), File("pdf", 2)>>, <<File("exe", 1)>>,
                     <<File("pdf", 1), File("pdf", 1), File("pdf", 1)>>, <<File("unreadable", 1)>>,
                     <<File("pdf", 4)>>, <<File("pdf", 3), File("pdf", 2)>>}}

Bad == {[Api EXCEPT !.honeypot = TRUE], [Api EXCEPT !.captcha = Turnstile], [Api EXCEPT !.pob = Proof],
        [Api EXCEPT !.reputation = Opinion], [Api EXCEPT !.origins = {"site"}], [Api EXCEPT !.keys = {}],
        [Form EXCEPT !.keys = {"key"}], [Form EXCEPT !.origins = {}], [Form EXCEPT !.csrf = "short"],
        [Form EXCEPT !.pob = [Proof EXCEPT !.minAge = 4]], [Form EXCEPT !.rate = [count |-> 0, interval |-> 1]],
        [Form EXCEPT !.captcha = [Turnstile EXCEPT !.onError = "ignore"]],
        [Form EXCEPT !.attachments = Papers, !.maxBody = 2], [Form EXCEPT !.body = "missing file"]}

Each(es, traffic) == {Case(x, traffic, 0, {}) : x \in es}

\* A browser that has fetched a token and sends the form.
Visit   == Case(Page, <<{Get, [Get EXCEPT !.origin = "other"]}, Visits>>, 7, {})
MCYoung == {Visit}

MCCases ==
  {Case(Limited, Crowd, 2, {}),
    Visit,
    Case([Page EXCEPT !.pob.minAge = 0], <<{Get}, {Get, Filled}>>, 5, {}),
    Case(Asking(Turnstile, Strict), <<{Post, Solved}, {Solved}>>, 1, {"ann"}),
    Case(Asking([Turnstile EXCEPT !.onError = "open"], Opinion), <<{Solved}>>, 1, {"a"}),
    Case(Asking(Absent, Opinion), <<{Post, [Post EXCEPT !.email = ""]}, {Post}>>, 3, {"ann"}),
    Case(Keyed1, <<Calls, Calls, Calls>>, 2, {}),
    Case(Api, <<Odd>>, 0, {}),
    Case([Api EXCEPT !.dryRun = TRUE], <<{[Call EXCEPT !.idem = "k"]}, {[Call EXCEPT !.idem = "k"]}>>, 0, {})}
  \cup Each({[x EXCEPT !.attachments = p] : x \in {Form, Api}, p \in {Papers, Unset}}, <<Parcels>>)
  \cup Each({[Form EXCEPT !.maxBody = n] : n \in {0, 2, 9}}, <<{Large, [Post EXCEPT !.size = 3]}>>)
  \cup Each(Bad, <<{Post, Call, [Call EXCEPT !.trap = TRUE, !.origin = "other"]}>>)
=============================================================================
