---------------------------- MODULE MCLifecycle ----------------------------
(* Mail to one address under two spellings.  Two mails and one event show    *)
(* what an event does to later mail; one mail and two events, what becomes   *)
(* of callbacks that meet in the queue.                                      *)
EXTENDS Lifecycle
CONSTANTS m1, m2, p1, p2, a, A, b
MCCases      == {<<{m1, m2}, {p1}, 0, 1>>, <<{m1, m2}, {p1}, 1, 0>>, <<{m1}, {p1, p2}, 0, 1>>}
MCNorm       == [x \in {a, A, b} |-> IF x = A THEN a ELSE x]
MCRcptsOf    == [m \in {m1, m2} |-> IF m = m1 THEN {A} ELSE {a, b}]
MCEndpointOf == [m \in {m1, m2} |-> IF m = m1 THEN "/one" ELSE "/two"]
MCRaws == {[record |-> "Bounce", type |-> "HardBounce"], [record |-> "Bounce", type |-> "SoftBounce"]}
MCBackoff == [n \in 0 .. MaxAttempts - 1 |-> 1]
=============================================================================
