---------------------------- MODULE RateLimiter ----------------------------
(***************************************************************************)
(* ratelimit.Limiter: token buckets, one per key, in a cache that drops    *)
(* the least recently used.  A limiter is the sequence of its buckets in   *)
(* that order.  Tokens are counted in fractions of 1 / interval, so that a *)
(* tick refills `count' of them and a request takes `interval'; the        *)
(* rounding of the code's float64 is left out.                             *)
(***************************************************************************)
EXTENDS Integers, SequencesExt

CONSTANT MaxKeys    \* DefaultMaxIPs

ASSUME LimiterAssumption == MaxKeys \in Nat \ {0}

Full(rate) == rate.count * rate.interval

Held(l, k)   == \E b \in ToSet(l) : b.key = k
Others(l, k) == IF Held(l, k) THEN RemoveAt(l, CHOOSE n \in DOMAIN l : l[n].key = k) ELSE l
Bucket(l, k, rate, now) ==
  IF Held(l, k) THEN CHOOSE b \in ToSet(l) : b.key = k
                ELSE [key |-> k, tokens |-> Full(rate), last |-> now]

\* What adding a bucket for k throws out.
Evicted(l, k) == IF ~Held(l, k) /\ Len(l) = MaxKeys THEN {l[1].key} ELSE {}

\* Mutant: the clock is set back.
Refilled_Back(b, rate, now) ==
  IF now > b.last
    THEN [b EXCEPT !.tokens = IF @ + (now - b.last) * rate.count > Full(rate)
                                THEN Full(rate) ELSE @ + (now - b.last) * rate.count,
                   !.last = now]
    ELSE [b EXCEPT !.last = now]

\* Only a later time refills: two requests may come in the other order than
\* they read the clock.
Refilled(b, rate, now) ==
  IF now > b.last
    THEN [b EXCEPT !.tokens = IF @ + (now - b.last) * rate.count > Full(rate)
                                THEN Full(rate) ELSE @ + (now - b.last) * rate.count,
                   !.last = now]
    ELSE b

\* allowAt: the answer, and the limiter it leaves.
allowAt(l, k, rate, now) ==
  LET b    == Refilled(Bucket(l, k, rate, now), rate, now)
      ok   == b.tokens >= rate.interval
      kept == IF Evicted(l, k) = {} THEN Others(l, k) ELSE Tail(Others(l, k))
  IN [ok      |-> ok,
      limiter |-> Append(kept, IF ok THEN [b EXCEPT !.tokens = @ - rate.interval] ELSE b)]
=============================================================================
