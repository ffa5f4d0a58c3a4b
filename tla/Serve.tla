-------------------------------- MODULE Serve --------------------------------
(***************************************************************************)
(* `posthorn serve`: the process that runs an HTTP server and an SMTP      *)
(* listener until a signal comes or one of them fails, and then drains     *)
(* both under one deadline.  The listener accepts connections, gives each  *)
(* a slot, and runs the sessions of module SmtpSession; of an HTTP request *)
(* only its life is modelled.                                              *)
(*                                                                         *)
(* Time passes only while the process drains: Deadline is the 15 s of      *)
(* stopIngresses, SendMax the 10 s a send may take, both counted from the  *)
(* signal at the latest.                                                   *)
(***************************************************************************)
EXTENDS SmtpSession

CONSTANTS
  Reqs,               \* HTTP requests
  Deadline, SendMax,
  Cases               \* bound: the configuration, connections, requests,
                      \* signals and failures of an ingress of a behaviour

ASSUME ServeAssumption ==
  /\ Deadline \in Nat /\ SendMax \in Nat /\ SendMax < Deadline
  /\ Conns \cap Reqs = {}
  /\ Cases \subseteq [cfg : Configs, conns : SUBSET Conns, reqs : SUBSET Reqs, signals : Nat, failures : Nat]

VARIABLES
  active, perIP,      \* slots in use
  loop, held,         \* the accept loop, the connection Accept has returned
  wg,                 \* sessions counted by the WaitGroup
  http, req,          \* ListenAndServe; each request
  smtpStop, httpStop, \* Stop of each ingress
  main, exit,         \* runIngressesUntilSignal, exit code
  clock, left,        \* time since the drain began, time each send may still take
  signals, failures,  \* still to come
  \* history: sessions counted only after Stop had found none; sends that
  \* were under way when the drain began and still are
  latecomers, early

slots     == <<active, perIP>>
listener  == <<loop, held, wg, smtpStop, latecomers>>
server    == <<http, req, httpStop>>
process   == <<main, exit, clock, signals, failures>>
sends     == <<left, early>>
serveVars == <<sessionVars, slots, listener, server, process, sends>>

InProgress == {c \in Conns : stage[c] = "sending"} \cup {r \in Reqs : req[r] = "sending"}
Open       == {c \in Conns : stage[c] \notin {"none", "gone"}}
Seated     == {c \in Conns : stage[c] \in {"ready", "body", "sending", "closing"}}

Init ==
  /\ \E k \in Cases : /\ SessionInit(k.cfg, k.conns)
                      /\ req = [r \in Reqs |-> IF r \in k.reqs THEN "none" ELSE "done"]
                      /\ signals = k.signals /\ failures = k.failures
  /\ active = 0 /\ perIP = [i \in Ips |-> 0]
  /\ loop = "unbound" /\ held = Nobody /\ wg = 0 /\ latecomers = {}
  /\ http = "unbound" /\ smtpStop = "no" /\ httpStop = "no"
  /\ main = "running" /\ exit = "none" /\ clock = 0
  /\ left = [s \in Conns \cup Reqs |-> 0] /\ early = {}

-----------------------------------------------------------------------------
(* The SMTP listener: its accept loop and the goroutine of a connection.   *)

Fails == failures > 0 /\ failures' = failures - 1

\* Stop may have run before there was a socket to close.
Bind ==
  /\ loop = "unbound"
  /\ \/ loop' = (IF smtpStop = "no" THEN "accepting" ELSE "returned") /\ UNCHANGED failures
     \/ loop' = "error" /\ Fails
  /\ UNCHANGED <<sessionVars, slots, held, wg, smtpStop, latecomers, server, main, exit, clock, signals, sends>>

Accept(c) ==
  /\ loop = "accepting" /\ smtpStop = "no" /\ stage[c] = "none"
  /\ loop' = "holding" /\ held' = c /\ Goes(c, "accepted")
  /\ UNCHANGED <<cfg, session, silent, budget, proved, view, handed, slots, wg, smtpStop, latecomers, server, process, sends>>

\* wg.Add and the goroutine, a step after Accept has returned.
Register ==
  /\ loop = "holding" /\ loop' = "accepting" /\ held' = Nobody
  /\ wg' = wg + 1 /\ Goes(held, "counted")
  /\ latecomers' = IF smtpStop = "done" THEN latecomers \cup {held} ELSE latecomers
  /\ UNCHANGED <<cfg, session, silent, budget, proved, view, handed, slots, smtpStop, server, process, sends>>

AcceptEnds ==
  /\ loop = "accepting"
  /\ \/ smtpStop # "no" /\ loop' = "returned" /\ UNCHANGED failures
     \/ smtpStop = "no" /\ loop' = "error" /\ Fails
  /\ UNCHANGED <<sessionVars, slots, held, wg, smtpStop, latecomers, server, main, exit, clock, signals, sends>>

Free(ip) == active < EffectiveMaxConnections(cfg) /\ perIP[ip] < EffectiveMaxConnectionsPerIP(cfg)

\* Mutant: the listener's cap is counted before the address's is checked.
acquireConnSlot_Leaks(c) ==
  LET ip == IpOf[c] IN
  /\ stage[c] = "counted"
  /\ Goes(c, IF Free(ip) THEN "ready" ELSE "refused")
  /\ active' = active + (IF active < EffectiveMaxConnections(cfg) THEN 1 ELSE 0)
  /\ perIP' = [perIP EXCEPT ![ip] = @ + (IF Free(ip) THEN 1 ELSE 0)]
  /\ UNCHANGED <<cfg, session, silent, budget, proved, view, handed, listener, server, process, sends>>

acquireConnSlot(c) ==
  LET ip == IpOf[c] IN
  /\ stage[c] = "counted"
  /\ IF Free(ip)
     THEN Goes(c, "ready") /\ active' = active + 1 /\ perIP' = [perIP EXCEPT ![ip] = @ + 1]
     ELSE Goes(c, "refused") /\ UNCHANGED slots
  /\ UNCHANGED <<cfg, session, silent, budget, proved, view, handed, listener, server, process, sends>>

\* Only a session that got a slot gives one back.
releaseConnSlot(c) ==
  IF stage[c] = "closing"
  THEN active' = active - 1 /\ perIP' = [perIP EXCEPT ![IpOf[c]] = @ - 1]
  ELSE UNCHANGED slots

\* The connection is closed, after its 421 or its session.
handleConnectionEnds(c) ==
  /\ stage[c] \in {"closing", "refused"} /\ Goes(c, "gone")
  /\ releaseConnSlot(c) /\ wg' = wg - 1
  /\ session' = [session EXCEPT ![c] = newSession] /\ silent' = [silent EXCEPT ![c] = FALSE]
  /\ proved' = [proved EXCEPT ![c] = {}] /\ view' = [view EXCEPT ![c] = NoView]
  /\ UNCHANGED <<cfg, budget, handed, loop, held, smtpStop, latecomers, server, process, sends>>

\* A message is handed to the transport, with sendTimeout ahead of it.
SendBegins(c) ==
  /\ HandOver(c) /\ left' = [left EXCEPT ![c] = SendMax]
  /\ UNCHANGED <<slots, listener, server, process, early>>

SendEnds(c) ==
  /\ Answer(c) /\ early' = early \ {c} /\ left' = [left EXCEPT ![c] = 0]
  /\ UNCHANGED <<slots, listener, server, process>>

\* The client's doing, and the refilling of its budget.
Client ==
  /\ \E c \in Conns : Says(c) \/ Refill(IpOf[c])
  /\ UNCHANGED <<slots, listener, server, process, sends>>

\* What a session does whether or not its client does anything more.
Session(c) ==
  \/ acquireConnSlot(c) \/ handleConnectionEnds(c) \/ SendEnds(c)
  \/ (RejectBody(c) \/ IdleTimeout(c)) /\ UNCHANGED <<slots, listener, server, process, sends>>

-----------------------------------------------------------------------------
(* The HTTP server. *)

ListenAndServe ==
  /\ \/ /\ http = "unbound"
        /\ \/ http' = (IF httpStop = "no" THEN "serving" ELSE "returned") /\ UNCHANGED failures
           \/ http' = "error" /\ Fails
     \/ http = "serving" /\ httpStop # "no" /\ http' = "returned" /\ UNCHANGED failures
  /\ UNCHANGED <<sessionVars, slots, listener, req, httpStop, main, exit, clock, signals, sends>>

Request(r) ==
  /\ http = "serving" /\ httpStop = "no" /\ req[r] = "none" /\ req' = [req EXCEPT ![r] = "reading"]
  /\ UNCHANGED <<sessionVars, slots, listener, http, httpStop, process, sends>>

\* The handler sends, or turns the request down without.
Handle(r) ==
  /\ req[r] = "reading"
  /\ \/ req' = [req EXCEPT ![r] = "sending"] /\ left' = [left EXCEPT ![r] = SendMax]
     \/ req' = [req EXCEPT ![r] = "done"] /\ UNCHANGED left
  /\ UNCHANGED <<sessionVars, slots, listener, http, httpStop, process, early>>

Respond(r) ==
  /\ req[r] = "sending" /\ req' = [req EXCEPT ![r] = "done"]
  /\ left' = [left EXCEPT ![r] = 0] /\ early' = early \ {r}
  /\ UNCHANGED <<sessionVars, slots, listener, http, httpStop, process>>

-----------------------------------------------------------------------------
(* runIngressesUntilSignal and stopIngresses. *)

Signal ==
  /\ main = "running" /\ signals > 0 /\ signals' = signals - 1
  /\ main' = "stopping" /\ early' = InProgress
  /\ UNCHANGED <<sessionVars, slots, listener, server, exit, clock, failures, left>>

\* An ingress that fails ends the process; nothing else is stopped.
IngressFails ==
  /\ main = "running" /\ "error" \in {loop, http} /\ exit' = "1"
  /\ UNCHANGED <<sessionVars, slots, listener, server, main, clock, signals, failures, sends>>

ForceExit ==
  /\ main = "stopping" /\ signals > 0 /\ signals' = signals - 1 /\ exit' = "forced"
  /\ UNCHANGED <<sessionVars, slots, listener, server, main, clock, failures, sends>>

\* Mutants: Stop does not wait for the sessions; waits for nothing else.
SmtpStop_Unwaited ==
  /\ main = "stopping" /\ smtpStop = "no" /\ smtpStop' = "done"
  /\ UNCHANGED <<sessionVars, slots, loop, held, wg, latecomers, server, process, sends>>
SmtpStop_Unbounded ==
  /\ main = "stopping"
  /\ \/ smtpStop = "no" /\ smtpStop' = "waiting"
     \/ smtpStop = "waiting" /\ wg = 0 /\ smtpStop' = "done"
  /\ UNCHANGED <<sessionVars, slots, loop, held, wg, latecomers, server, process, sends>>

\* The socket is closed, then the sessions are waited for.
SmtpStop ==
  /\ main = "stopping"
  /\ \/ smtpStop = "no" /\ smtpStop' = "waiting"
     \/ smtpStop = "waiting" /\ wg = 0 /\ smtpStop' = "done"
     \/ smtpStop = "waiting" /\ clock = Deadline /\ smtpStop' = "late"
  /\ UNCHANGED <<sessionVars, slots, loop, held, wg, latecomers, server, process, sends>>

HttpStop ==
  /\ main = "stopping"
  /\ \/ httpStop = "no" /\ httpStop' = "waiting"
     \/ httpStop = "waiting" /\ (\A r \in Reqs : req[r] \in {"none", "done"}) /\ httpStop' = "done"
     \/ httpStop = "waiting" /\ clock = Deadline /\ httpStop' = "late"
  /\ UNCHANGED <<sessionVars, slots, listener, http, req, process, sends>>

\* Mutant: the first Stop to return ends the drain.
Exit_First ==
  /\ {smtpStop, httpStop} \cap {"done", "late"} # {}
  /\ exit' = IF "late" \in {smtpStop, httpStop} THEN "1" ELSE "0"
  /\ UNCHANGED <<sessionVars, slots, listener, server, main, clock, signals, failures, sends>>

Exit ==
  /\ {smtpStop, httpStop} \subseteq {"done", "late"}
  /\ exit' = IF "late" \in {smtpStop, httpStop} THEN "1" ELSE "0"
  /\ UNCHANGED <<sessionVars, slots, listener, server, main, clock, signals, failures, sends>>

\* No send outlives its timeout.
Tick ==
  /\ main = "stopping" /\ clock < Deadline /\ clock' = clock + 1
  /\ \A s \in InProgress : left[s] > 0
  /\ left' = [s \in DOMAIN left |-> IF s \in InProgress THEN left[s] - 1 ELSE left[s]]
  /\ UNCHANGED <<sessionVars, slots, listener, server, main, exit, signals, failures, early>>

Drain == SmtpStop \/ HttpStop \/ Exit \/ Tick

Runs ==
  \/ \E c \in Conns : Accept(c) \/ Session(c) \/ SendBegins(c)
  \/ Bind \/ Register \/ AcceptEnds \/ Client
  \/ ListenAndServe \/ \E r \in Reqs : Request(r) \/ Handle(r) \/ Respond(r)
  \/ Signal \/ IngressFails \/ ForceExit \/ Drain

Next == exit = "none" /\ Runs

Spec == Init /\ [][Next]_serveVars

\* Goroutines run, time passes, a send ends; clients and operators owe nothing.
Fairness ==
  /\ \A c \in Conns : WF_serveVars(exit = "none" /\ Session(c))
  /\ \A r \in Reqs : WF_serveVars(exit = "none" /\ Respond(r))
  /\ WF_serveVars(exit = "none" /\ Drain)
FairSpec == Spec /\ Fairness
-----------------------------------------------------------------------------
(* Correctness. *)

\* Types of the variables.
TypeOK ==
  /\ SessionTypeOK
  /\ active \in Nat /\ perIP \in [Ips -> Nat] /\ wg \in Nat
  /\ loop \in {"unbound", "accepting", "holding", "returned", "error"} /\ held \in Conns \cup {Nobody}
  /\ http \in {"unbound", "serving", "returned", "error"}
  /\ req \in [Reqs -> {"none", "reading", "sending", "done"}]
  /\ {smtpStop, httpStop} \subseteq {"no", "waiting", "done", "late"}
  /\ main \in {"running", "stopping"} /\ exit \in {"none", "0", "1", "forced"}
  /\ clock \in 0 .. Deadline /\ left \in [Conns \cup Reqs -> 0 .. SendMax]
  /\ signals \in Nat /\ failures \in Nat
  /\ latecomers \subseteq Conns /\ early \subseteq Conns \cup Reqs

\* The slots in use are those of the sessions that are being served, within
\* both caps: a connection that is turned away takes none and every way out of
\* a session gives its own back (#50).
SlotsExact ==
  /\ active = Cardinality(Seated) /\ active <= EffectiveMaxConnections(cfg)
  /\ \A ip \in Ips : /\ perIP[ip] = Cardinality({c \in Seated : IpOf[c] = ip})
                     /\ perIP[ip] <= EffectiveMaxConnectionsPerIP(cfg)

\* Unless an operator insists or an ingress fails, no send that was under way
\* when the signal came is cut off: the drain outlasts it (FR26, FR96).
DrainOutlastsSends == exit \in {"0", "1"} /\ main = "stopping" => early \cap InProgress = {}

\* The exit code tells the truth: 0 if everything that Stop knew of has ended,
\* all but one connection at most, accepted but not yet counted when Stop found
\* no session; 1 only if an ingress failed or work was left at the deadline.
ExitHonest ==
  /\ exit = "0" => /\ Open \subseteq latecomers \cup {held} /\ Cardinality(Open) <= 1
                   /\ \A r \in Reqs : req[r] \in {"none", "done"}
  /\ exit = "1" => \/ main = "running" /\ "error" \in {loop, http}
                   \/ clock = Deadline /\ "late" \in {smtpStop, httpStop}

\* A drain ends, whatever the clients do.
DrainEnds == main = "stopping" ~> exit # "none"

\* A session whose client has gone silent gives its slot back.
SlotsComeBack == \A c \in Conns : silent[c] ~> stage[c] = "gone" \/ exit # "none"
=============================================================================
