---------------------------- MODULE MCIdemDurable ----------------------------
(* Three requests race for one key while the disk fails and the process     *)
(* restarts.                                                                *)
EXTENDS IdemDurable
CONSTANTS r1, r2, r3, k1
MCKeyOf == [r \in {r1, r2, r3} |-> k1]
=============================================================================
