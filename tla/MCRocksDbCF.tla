---------------------------- MODULE MCRocksDbCF -----------------------------
(* Instances of RocksDbCF for TLC. *)
EXTENDS RocksDbCF, TLC

CONSTANTS k1, k2, v1, v2, t1, t2, t3

\* Every key lives for one unit of time; or k2 stays.
AllExpire == [k \in Keys |-> 1]
OneStays  == k1 :> 1 @@ k2 :> 0

Anything == {"get", "put", "delete"}
AllCalls  == [t \in Callers |-> Anything]

\* One caller writes, the others read.
OneWriter == [t \in Callers |-> IF t = t1 THEN {"put", "delete"} ELSE {"get"}]

ValueSymmetry  == Permutations({v1, v2})
CallerSymmetry == Permutations(Callers)
=============================================================================
