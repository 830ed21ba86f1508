----------------------------- MODULE MCCacheApi -----------------------------
(* CacheApi for TLC: two caches whose prefixes, one with a separator, and  *)
(* keys run into each other without the separator between them; two whose   *)
(* prefixes let a key of one spell the storage key of the other; an id of a *)
(* cache that is not configured; batches with duplicates, a null, an entry  *)
(* without an id.                                                           *)
EXTENDS CacheApi, TLC

CONSTANTS v1, v2, w, x

MCCaches == {"user", "order", "log", "audit"}
MCPrefix == "user" :> <<"u">> @@ "order" :> <<"u", "u", ":">>
            @@ "log" :> <<"l">> @@ "audit" :> <<"l", ":", "u">>

a  == [c |-> "user",  k |-> <<"u", ":", "1">>]
b  == [c |-> "order", k |-> <<"1">>]
e  == [c |-> "log",   k |-> <<"u", ":", "1">>]
f  == [c |-> "audit", k |-> <<"1">>]
no == [c |-> "none",  k |-> <<"1">>]

MCIds == {a, b, e, f, no}
MCValues == {v1, v2, w, x}
MCValuesOf == a :> {v1, v2} @@ b :> {w} @@ e :> {v1} @@ f :> {w} @@ no :> {x}

E(i, v) == [id |-> i, v |-> v]

MCGetBatches == {<<b, no, a, b>>, <<f, e>>}
MCPutBatches ==
    {<<E(a, v1)>>, <<E(b, Null), E(a, v2), E(b, w)>>, <<E(b, Null)>>,
     <<E(no, x), E(b, w), E(e, v1)>>, <<E(a, v1), E(NoId, x)>>}
MCDeleteBatches == {<<a, no, b>>}

HandlerSymmetry == Permutations(Handlers)
=============================================================================
