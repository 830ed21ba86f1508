---------------------------- MODULE MCRedisLayer ----------------------------
(* An instance of RedisLayer for TLC. *)
EXTENDS RedisLayer, TLC

CONSTANTS k1, k2, k3, v1, t1, t2

\* One caller has batches of two chunks, the other has single keys.
OneOrAll == [t \in Callers |-> IF t = t1 THEN {Keys} ELSE {{k1}}]

OtherKeys == Permutations({k2, k3})
=============================================================================
