------------------------------ MODULE MCServe ------------------------------
(* One session on listeners of every mode; two sessions of one address that  *)
(* try passwords; three connections that compete for slots; two connections  *)
(* that are drained; a connection and a request under two signals and a      *)
(* failure.                                                                  *)
EXTENDS Serve
CONSTANTS c1, c2, c3, r1, a, b
Base == [mode |-> "none", requireTLS |-> FALSE, keypair |-> FALSE, users |-> FALSE, ca |-> FALSE,
         senders |-> {a}, rcpts |-> {a}, maxRcpts |-> 1, maxConns |-> 0, maxPerIP |-> 0]
Secured == {[Base EXCEPT !.mode = m, !.requireTLS = t, !.keypair = k, !.users = TRUE, !.ca = TRUE, !.senders = {a, b},
                         !.rcpts = IF t THEN {} ELSE {a}, !.maxRcpts = IF t THEN 0 ELSE 2] :
              m \in {"", "client-cert", "either"}, t \in BOOLEAN, k \in BOOLEAN}
Roomy == [Base EXCEPT !.maxPerIP = 2]
Guessed == [Base EXCEPT !.mode = "", !.users = TRUE, !.maxPerIP = 2]
MCConfigs == Secured \cup {Base, Roomy, Guessed}
MCIpOf == [c \in {c1, c2, c3} |-> IF c = c3 THEN "other" ELSE "one"]
Case(k, cs, rs, s, f) == [cfg |-> k, conns |-> cs, reqs |-> rs, signals |-> s, failures |-> f]
MCCases == {Case(k, {c1}, {}, 0, 0) : k \in Secured}
           \cup {Case(Base, {c1, c2, c3}, {}, 0, 0), Case(Roomy, {c1, c2, c3}, {}, 0, 0),
                Case(Roomy, {c1, c2}, {}, 1, 0), Case(Guessed, {c1, c2}, {}, 0, 0), Case(Base, {c1}, {r1}, 2, 1)}
=============================================================================
