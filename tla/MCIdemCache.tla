----------------------------- MODULE MCIdemCache -----------------------------
(* Three requests race for one key; a fourth, with a key of its own, pushes *)
(* answers out of a cache that holds one.                                   *)
EXTENDS IdemCache
CONSTANTS r1, r2, r3, r4, k1, k2
MCKeyOf == [r \in {r1, r2, r3, r4} |-> IF r = r4 THEN k2 ELSE k1]
=============================================================================
