---------------------------- MODULE MCTransports ----------------------------
EXTENDS Transports, TLC

SMTP == [host |-> "ok", port |-> "ok", username |-> "ok", password |-> "ok",
         hello |-> "absent", tls |-> "absent", requireTLS |-> "absent"]
Key    == [apiKey |-> "ok"]
Domain == [apiKey |-> "ok", domain |-> "ok"]
Keys   == [accessKey |-> "ok", secretKey |-> "ok", region |-> "ok"]
Hook   == [url |-> "ok", secret |-> "ok", headers |-> "ok"]

SmtpSettings ==
  [{"tls"} -> {"starttls", "implicit", "none", "other"}] \cup [{"requireTLS"} -> {"true", "false", "mistyped"}]
  \cup [{"port"} -> {"large", "zero"}] \cup [{"password"} -> {"empty", "absent"}]
  \cup [{"hello"} -> {"ok", "spaced"}]
  \cup {[tls |-> "none", requireTLS |-> "true"]}

Block(t, s, n) == [type |-> t, settings |-> s, names |-> n]
NameLists == {<<>>, <<"list-id", "List-Unsubscribe">>, <<"list-id", "List-Id">>, <<"Bcc">>}

Good == {<<"smtp", SMTP>>, <<"postmark", Key>>, <<"resend", Key>>, <<"mailgun", Domain>>,
         <<"ses", Keys>>, <<"webhook", Hook>>}
MCListeners ==
  {Block(g[1], g[2], n) : g \in Good, n \in NameLists}
    \cup {Block("smtp", c @@ SMTP, <<>>) : c \in SmtpSettings}
    \cup {Block("postmark", [apiKey |-> "empty"], <<>>), Block("mailgun", [Domain EXCEPT !.domain = "absent"], <<>>),
          Block("ses", [Keys EXCEPT !.region = "mistyped"], <<>>), Block("webhook", [Hook EXCEPT !.headers = "reserved"], <<>>),
          Block("fax", Key, <<>>)}

MCCanon == [s \in {"list-id", "List-Id", "List-Unsubscribe", "Bcc"} |-> IF s = "list-id" THEN "List-Id" ELSE s]
MCAllowlist == {"List-Id", "List-Unsubscribe"}

Line(n, v) == [name |-> n, value |-> v]
Plain == [to |-> <<"ann", "bob">>, from |-> "app", crlf |-> FALSE, lines |-> <<Line("List-Id", "clean"), Line("list-id", "dirty")>>]
MCMails == {Plain, [Plain EXCEPT !.to = <<"ann", "unreadable">>], [Plain EXCEPT !.from = "unreadable"],
            [Plain EXCEPT !.crlf = TRUE], [Plain EXCEPT !.lines = <<>>],
            [Plain EXCEPT !.lines = <<Line("List-Unsubscribe", "dirty")>>],
            [Plain EXCEPT !.lines = <<Line("list-id", "empty"), Line("List-Unsubscribe", "clean"), Line("Bcc", "clean")>>]}
=============================================================================
